# A TLA+ verification of BootProof

BootProof starts the application of a repository, observes whether it answers
over HTTP, and writes a signed attestation of what it observed. Its value is
that a recorded boot is true. The specifications here say what that means for
each part of the program and check it: TLC explores small instances, TLAPS
proves that every safety property of them holds for all instances.

Paths of the repository are relative to its root (`src/run.ts`); everything
else is a file of this directory.

## The system

| Part | Keeps | Operations | Hard because |
| --- | --- | --- | --- |
| `src/run.ts` `up` | the observed steps, the attestation | refuse, preflight, run the plan, judge, attest | callbacks of the process between awaits; the order of refusals |
| `src/exec.ts` | the child process, its exit, a tail of its output, the poll's candidates and last response | run a command, supervise, poll, probe, stop | an exit races an answer; timeouts; process groups; streams that never end |
| `src/plan.ts`, `src/infer.ts` | generated Compose and env files | infer facts, build the plan | which steps a provider may run |
| `src/agent-run.ts` | `.bootproof/agent-runs/*`: receipts and a summary | create, append an action, append a verification, read | several processes, crashes between two files, a clock set back |
| `src/repair.ts` `applyVerifiedRepair` | the working tree | check a receipt, write, compare, roll back | partial failure, a tree that is edited meanwhile |
| `src/repair.ts` the rest, `src/ai-repair.ts` | sandbox, repair receipt, after-attestation, patch | read the failure, propose, approve, run, verify, record | commands that outlive their timeout, a failure that changes between prompt and execution, clean-up after an exception |
| `src/repair-playbooks.ts`, `src/repair-safety.ts` | nothing | choose a repair for a failure; judge actions and receipts | many playbooks, one policy that each must satisfy |
| `src/proof.ts` | the signing key, its archive, the known signers, attestations | sign, verify, rotate, trust | check-then-create, lost updates, crashes in a rotation |
| `src/agent-plan.ts`, `src/external-health.ts` | the plan, the attestation of an external service | plan, validate, observe one URL (one request, redirects are not followed) | a plan follows from an attestation that anybody may edit |
| `src/cli.ts` | nothing | dispatch, prompt, exit code | consent and approval on every path |
| `scripts/github-action.mjs`, `scripts/github-action-enforce.mjs`, `action.yml` | the artifact directory, the outputs, a sticky comment | run `up`, export, comment, judge, stage, enforce | uses share a workspace, jobs share the comments, each command and each step may die |
| `src/registry.ts`, `src/diff.ts`, `src/diagnosis.ts`, `src/taxonomy.ts` | a submission file | export, verify, compare, classify | pairing of records; otherwise pure functions of text |
| `src/remote.ts`, `src/redact.ts`, `src/sbom.ts`, `src/receipt.ts`, `src/platform.ts`, other `scripts/` | clones, rendered files | I/O, rendering, packaging | - |

How they meet. `cli.ts` calls `up`, which calls `inferRepo` and `buildPlan`,
then `exec.ts` for every process and probe, and `proof.ts` to sign the
attestation it writes to `.bootproof/attestation.json`. `exec.ts` calls back:
the `exit` event of the child sets a variable that `up` reads after the poll,
and the poll itself calls `shouldStop` and `output`. Repairs read the
attestation, run a command or a patch, call `up` again in a copy of the
repository, and write a signed receipt that `apply-repair` later reads.
`plan-agent` reads the attestation too, and starts an agent run, to which
`up --external-health` appends what it observed. The GitHub Action runs the
command line and judges its exit, its output and the attestation together.
The parts share nothing else than these files, and nothing locks them.

What makes each part correct:

* `up`: a boot is attributed to the process or the containers this run
  started, every step succeeded, nothing ran on the host without consent,
  the class of a failure goes with what was seen, the run ends.
* agent runs: the summary of a valid chain is true; receipts are never
  replaced; what is broken stays visibly broken.
* repairs: the command of a playbook or of an AI runs only after approval and
  is the one that was shown; no earlier result passes for this one's; a receipt
  says what happened; no command keeps `fix` waiting; an attempt is recorded.
* `apply-repair`: all or nothing, and nothing for a stale receipt.
* signing: what lies in a repository verifies; no key that signed and no
  trusted signer is lost; nobody is trusted unasked.
* agent plans: nothing that changes anything is offered without approval; an
  edited attestation moves no plan; an external service is not a boot.
* the action: a green use was earned by its own run; what it stages is its
  own; every use is judged; there is one comment.

`PROJECT.json` lists every part with its status, and under `hazards` what is
hard to test, at its line, with the property that covers it.

## The modules

| Module | Models | EXTENDS |
| --- | --- | --- |
| `UpGate` | the plan and the ordered refusals, as functions of the inferred facts and the options | - |
| `BootRun` | `up` from the gate to the attestation, the processes, the poll, the probes and the host | `UpGate` |
| `BootVerdict` | what `up` promises: the abstract specification | - |
| `BootRunProofs` | theorems about `BootRun` | `BootRun`, `TLAPS` |
| `AgentRun` | the receipt chains of agent runs | - |
| `AgentRunProofs` | theorems about `AgentRun` | `AgentRun`, `TLAPS` |
| `RepairApply` | `apply-repair` | - |
| `RepairApplyProofs` | theorems about `RepairApply` | `RepairApply`, `TLAPS` |
| `RepairSafety` | the policy: commands, actions, receipts | - |
| `RepairSafetyProofs` | lemmas about the policy, for `RepairFixProofs` and `AgentJourneyProofs` | `RepairSafety`, `TLAPS` |
| `RepairPlaybooks` | the repair for each failure, and what counts as progress | `RepairSafety` |
| `RepairFix` | `fix` from the prompt to the receipt | `RepairPlaybooks` |
| `RepairFixProofs` | theorems about `RepairFix` and the playbooks | `RepairFix`, `RepairSafetyProofs` |
| `Signing` | keys, known signers, attestations and entries | - |
| `SigningProofs` | theorems about `Signing`: first those that hold whatever overlaps, then those that hold outside the overlaps | `Signing`, `TLAPS` |
| `AgentPlan` | the plan for an agent, and its validator | `RepairSafety` |
| `AgentJourney` | plans, external observations, attestations and runs together | `AgentPlan` |
| `AgentJourneyProofs` | theorems about `AgentJourney` and the plans | `AgentJourney`, `RepairSafetyProofs` |
| `CiAction` | the GitHub Action | - |
| `CiActionProofs` | theorems about `CiAction` | `CiAction`, `TLAPS` |
| `MC...` | values of the constants for TLC | the module of the name |

Every operator that changes state is one action named after what the code
does there. Operators introduced by "Faulty variant" are not part of any
specification: each is the definition that follows it with a plausible mistake
in it (a guard dropped, a step left out), and `PROJECT.json` says which
property notices when it is put in its place.

### UpGate and BootRun

An input is a record of the facts `inferRepo` returned, as far as a refusal
or a plan step distinguishes them, and of the options. `EarlyRefusals` and
`LateRefusals` are the refusals of `run.ts:315-410` in source order with their
guards; a dry run returns between the two. `PlanSteps` is `buildPlan`.
Three refusals record a step: the preparation that was skipped, the version
that `<package manager> --version`, which is executed to ask it, named, and the
answer of a foreign service. `StepOfRefusal` gives them, and `RefusalSteps` keeps them apart from
the steps of a plan that was run.

`BootRun` has one variable for each thing the code keeps: `pc` (the await or
synchronous stretch `up` is in), `step` and `observed` (the loop), `cands`,
`todo`, `probe`, `latest` and `late` (the locals of `pollHealthCandidates`),
`exitSeen` (the variable `exit` of `superviseApp`), `printed` (what
`extractHealthCandidates` finds in the tail of the output), `verdict` and
`attestation`. The host is `leader` and `group` (the supervised process and
the rest of its group), `server` (who listens at each URL and how it answers)
and `composeUp`.

JavaScript runs one callback at a time, so an action is the stretch from one
await to the next. `ExitDelivered`, the callback of the `exit` event, is
enabled only at awaits; everything the host does may happen anywhere. The
check of `exited()` at `run.ts:587` follows an explicit turn of the event loop
(`run.ts:561`), modelled by `LoopTurn`: an exit that preceded an accepted
answer is in the queue before it and is delivered by then; one that came later
may or may not be.

A probe's answer carries two facts the code does not have, its `owner` and
whether the supervised process was `live`. They occur in properties only;
no guard reads them, `LoopTurn` excepted, whose use is the order of events
just described.

Abstractions: URLs are model values, with `OtherPort` telling which ones a
port mismatch would find; responses are accepted, rejected, 5xx, silent
(`hang`) or endless (`stream`). What `taxonomy.ts` finds in a text is any of
`ByText`: two of its rules give `health_http_error` and
`health_candidate_port_mismatch`, classes that the step loop also gives for
what it saw itself, and "classified" stands for all others. A
round visits its candidates in any order. Exceptions of file operations in `up`
are not modelled.

### AgentRun

Each process has a `job`: where it is in `createAgentRun` or in one of the
two appends, with the locals it holds. Reading the summary, reading the
receipts, choosing a file name, writing the receipt and writing the summary
are separate actions, because between any two of them another process may run
or this one may die; `CrashInReceipt` and `CrashInSummary` leave a torn file.
The hash of a receipt is a fresh number. `Valid` is the loop of
`readAgentRun`: sorted by time stamp, each receipt links to the one before,
and the summary names the last and their number. Reading all receipts is one
step: a read that meets a half-written file throws as it does for a torn one.
The suffix of a verification's file name is the first that is free, searched
up to the number of files of the run: one of them is free in any case.

`contended` is a history: the runs at which two processes were at work at
once. Two appends that overlap may fork a chain, and two verifications in one
millisecond choose one file name; the code has no lock against either. The
properties that a chain stays valid and that receipts are immutable are about
the other runs; that no untrue summary looks valid, and that a broken chain is
left alone, holds for all.

`BrokenIsFrozen` leaves out appends that hold a summary which has been
replaced since they read it. TLC shows why: two appends fork a chain by
writing one action file over the other, the first writes its summary, a third
reads that, the second writes its own summary, which breaks the chain, and the
third passes the check with the summary it read.

### RepairApply

One action per file operation of `applyVerifiedRepair`: the receipt's own
checks, each prerequisite, each preimage, each write, each comparison and
each step of the rollback. Contents are absent, old, new, edited or torn.
Somebody may edit any file between two of them; a write may fail, without a
trace or (`TornWrites`) after it truncated its file; the rollback may fail,
which the code lets escape as an exception. Directories that `mkdir` leaves
behind are not modelled.

### RepairSafety, RepairPlaybooks and RepairFix

A command is the set of the patterns of `repair-safety.ts` that it matches
(`traits`), one trait for each; `RiskRules` is the list of
`inferredCommandRisk` in source order, and `CommandValid`, `ActionValid` and
`ReceiptConsistent` are the validators. A path is the kind of file it names.

A situation of `RepairPlaybooks` is the class of the recorded failure and the
facts that its evidence, the repository and the host show when a playbook
looks at them; the module's head lists them. `CandidateFor` is the table of
playbooks with its order, `RemedyFor` the registered remediations, and
`Progressed` and `Verified` judge the second attestation.

`RepairFix` is `fix`: the first read and the prompt in `cli.ts` (`Start`,
`Answer`), for an AI its consent, request and answer (`Consent`, `Suggest`),
the second read (`ReadAgain`), the decisions of
`executeDeterministicRepairCandidate` and `executeAiSuggestedRepair`
(`Withhold`, `RunCommand`, `CopyForPatch`), the command, the copy, the second
`up`, the clean-up and the receipt. The copy may fail (`CopyFails`):
`copyToSandbox` stands before the `try` of each caller, so its exception ends
`fix` at once. `world` is what a read would return at
the moment, and `WorldChanges` is another `up` or an editor between any two
steps. The command is a process of its own: `CommandTimesOut` sends SIGTERM
and goes on at once, as the code does, and `ChildWorks` is what the process
does afterwards. `up` is the set of what it may come to (`UpAttests`), which
is what `BootRun` details. A registered remediation asks nobody; `ran` notes
its command too, at the place where it is started: `corepack prepare` by the
remedy itself, migrations by the second `up`. The services of the sandbox may
outlive their clean-up, since nobody looks at how `docker compose down` ended.
`Candidates` and `Accepted` only tabulate
`CandidateFor` and `ActionValid`.

### Signing

The files of a user and of one repository, shared by processes. Each command
is the sequence of its file operations; `writeFileSync` is two steps, `Open`,
which empties the file, and `Close`, and a process may die between any two
steps, which leaves a torn file in the second case. A signature names its key
and what it is of, so that `Intact` can fail in each way a real one can.
Histories record which keys signed something on disk, which were dropped with
`--no-backup`, and which signers a person asked to trust. `raced` collects
the files that two processes were updating at once, or that one died writing:
the overlaps that nothing in the code prevents. Properties that need their
absence say so (`"signer" \notin raced`); the others hold in spite of them.
The OIDC tiers of provenance and the redaction of what is signed are left out.

### AgentPlan and AgentJourney

A sight of a repository is what the scan of `agent-plan.ts` can tell from
its files: marks of Airbyte, traits, documented commands and URLs.
`BuildAgentPlan` derives every candidate action with its condition, its
assessment and its class, and `AgentPlanValid` is the validator, which
`plan-agent` runs over its own plan before it writes anything. `Quoted` are
the URLs that `commandToken` puts in quotes. That `plan-agent` throws only
over one of those (`FailsOnlyOverQuotes`) is about the step in which it throws:
the attestation that led to the URL may be edited afterwards.

`AgentJourney` composes it with the observation of an external service, with
`up`, and with the summary of the latest run (which `AgentRun` has in
detail), while tools appear, somebody edits the attestation and receipts of a
run get lost. `observed` is a history: what the last observation met.

### CiAction

One job that uses the action several times in one workspace. `now` are the
variables of `executeAction` with the outputs and the outcome of the step,
`disk` the files of the workspace and the artifact directory, and `at` the
command or request that is next. `Begin` judges the inputs before it empties
the artifact directory. `UpResults` and `Leaves` are what the command may
print, and with which attestation left behind: a boot or a failure, an exit
that contradicts what was printed, an exception, and nothing at all by a
process that was killed, before or after it wrote an attestation.
An attestation names the use it is of; one that the repository had committed
is of use 0. `CannotStart` with `Halts` is the handler of `main`, `Crash`
ends the step anywhere without it, and `Enforce` is the last step of
`action.yml`, which always runs.

Another job of the pull request shares nothing with this one but the
comments; it is `rival`, what its look-up found. `Page` stands for the
`per_page=100` of the look-up. The histories `raced` and `crowded` record the
overlap of two look-ups and posts, and a look-up that did not return every
comment: neither is prevented by the code, and `StickyCommentIsOne` is about
the rest. The mode of an external health check, which the action never asks
for, the comment's text and the upload of artifacts are left out.

## The runs

| Run | Question | Bounds |
| --- | --- | --- |
| `boot_gate` | Does anything slip through the refusals, and is a boot of a host command its own? | every combination of the seven options with every inferable combination of facts, at most one of four doubts at a time; one URL, services of others that come and go at it; 4.0 million states |
| `boot_quiet` | Is a boot evidence about this run, does a class go with what was seen, does the loop keep its promise, and does it end? | a prepared host application, a Compose application and a repository of which only `--command` tells how it starts; an inferred and an advertised URL on another port; no service starts during the run; services may be there before; answers, 5xx and silence; fairness; 154 000 states |
| `boot_stream` | Does it end against an endless body? | one URL, with `stream` (violated) |
| `boot_preoccupied` | Are responders from before the start refused wherever they are? | a service at the advertised URL only (violated) |
| `agent_chains` | Is a valid chain true, a broken one left alone, an uncontended one valid and complete? | two processes, one run, up to five receipts, plans of none and of two candidates, a clock that shows 0 or 3, one crash of any kind; 865 000 states after symmetry |
| `apply_tree` | All or nothing? Nothing for a stale receipt? | three receipts that create, change and depend on files, and one failing each check; any tree to begin with; two edits, two failing operations |
| `repair` | Is what playbooks and AIs run consented to, what is recorded true, and does no command hold `fix`? | every playbook with every combination of the facts it looks at, the remediations, eight suggestions, eight command lines, one change of the world, copies that fail; 604 000 states |
| `repair_unrecorded` | Does every attempt whose copy was made leave its receipt? | as `repair`, without changes (violated) |
| `repair_batch` | Does a batch execute no repair command? | as `repair`, without changes (violated) |
| `evidence` | Do keys, trust and proofs survive overlaps and crashes? | two processes, three keys, two foreign signers, nine command lines, three commands, one commit; 2.6 million states |
| `journey` | Do plans ask first, and is an external service never a boot? | 150 kinds of repository, two tools, three commands, three URLs, one of them quoted, and every kind of answer; 603 000 states |
| `ci_action` | Is green earned, and every use judged? | two uses, five kinds of inputs, committed evidence or none, one look-up by another job, two other comments on pages of two; 1.1 million states |

Why these bounds are enough to mean something. The races of `up` are between
one process, one response and one other listener, so two URLs and the four
owners cover each pair; a poll round may repeat for ever within the finite
state space because time is only "before or after the timeout". The fork of a
chain needs two appends, its discovery a third; two clock values make two
appends carry one time stamp or two, in either order. A partial failure needs
two changes, so that one is written and one is not, in both orders of created
and changed file. What interferes with a repair must do so between two reads,
and there are two; with the change at every step once, each place is tried.
Two rotations and a run, or two creations and an export, are three commands,
and three keys let each make one. What an earlier use leaves for a later one
needs two uses, and what is not of either a commit. The sticky comment is
lost from sight when one more than a page was written.

`CHECK_DEADLOCK FALSE` is given where a bound on commands, receipts or uses
leaves nothing to do at the end: `agent_chains`, `evidence`, `journey`,
`ci_action`. The others end in a state that stutters.

What they found to hold:

* The exit of the supervised process before an accepted answer is always seen
  before the verdict (`AttributedBoot`), thanks to the one turn of the event
  loop; without it TLC finds the wrong attribution.
* On a host where nothing else starts during the run, with no container left
  over, no service at a URL that only the output advertises and none that is
  silent, an accepted answer is from this run (`BootedByThisRun`). The four
  conditions are needed: the findings and the hazards say what happens without
  the first three, and a service that is silent while it is probed passes the
  preflight and may answer later.
* A boot observed every command of the plan and then the health of what they
  started (`BootedMeansEveryStepOk`). The health check is made although the plan
  does not list one where inference left no URL to poll, as for a repository
  that is started by `--command` alone (`plan.ts:96-102`, `run.ts:612-616`).
* No combination of options and facts runs a host command without
  `--provider local --unsafe-local`, or leaves a trace of a dry run. A refusal
  precedes every step of the plan and records only failed checks
  (`OutcomeRecorded`).
* Whatever the output of an application says, an early exit is reported over an
  exit, a failed installation over a failed step and a timeout over no 5xx
  response, and a 5xx response of an application that kept running is reported
  as nothing else than that or a port mismatch (`ClassMatchesEvidence`).
* Concurrent appends may break a chain but never make an untrue summary look
  valid, wherever a process dies.
* A repair command that was timed out and goes on writing is never recorded
  as applied, and cannot keep `fix` from its verification (`CommandNeverHolds`).
* Rotations, exports and verifications at once never leave a proof that does
  not verify, nor a trust nobody asked for; keys and trusted signers get lost
  only by two updates of the same file at once or by a death in its write.
* With `fail-on-unverified`, no death of a command or of the step, no earlier
  use and no committed evidence makes the action green.

What they found not to hold (`findings` in `PROJECT.json`): the preflight of
`run.ts:417` does not cover URLs the output advertises, against
`docs/HONESTY_CONTRACT.md:27`; `--timeout` does not bound a probe whose body
never ends, against the help text at `src/cli.ts:150`; an external health
check that an AI's repair made healthy is verified but not progressed, so that
the receipt is refused after the command ran, against
`docs/HONESTY_CONTRACT.md:25`; a registered remediation runs its command
without a Y, also under `--json` and `--ci`, against `docs/REPAIR_RECEIPT.md:151`
and `docs/HONESTY_CONTRACT.md:22`.

Two more departures have no run of their own, because the properties of
passing runs name them. A copy that fails ends a repair without a receipt,
after its command ran, against `docs/HONESTY_CONTRACT.md:90` (the third case of
`BootAttemptRecorded`, which says what holds then). The text of a process
that mentions "status 500" is reported as `health_http_error` without a 5xx
response, against `docs/FAILURE_TAXONOMY.md:67` (`ByText`; `ClassMatchesEvidence`
states the other direction). Smaller departures are described with the
hazard they belong to and are excluded by name in the property: two
verifications of one millisecond that overwrite each other, a failing write
that truncates its file before the rollback, the sticky comment beyond the
first hundred, and a stale registry entry where `fail-on-unverified` is off.

## Fairness

`boot_quiet` and `boot_stream` use `FairSpec` of `BootRun`. It assumes that
JavaScript runs on (`WF` of `Up`), that a probe which can settle does (`WF` of
`Answer`; a connection that is refused, answered or silent for three seconds
can, an endless body cannot), that the pending `exit` callback is delivered at
one of the awaits (`SF`, because awaits come and go), that the timer of a
command fires and the command ends after SIGTERM, and that `stop()` is closed
or kills after five seconds. The end of a command after SIGTERM is an
assumption about the command: `runToCompletion` never escalates to SIGKILL.
Nothing is assumed about the deadline of the poll, so that `DeadlineHonoured`
is about what happens once it has passed, and nothing about the application.

`repair` uses `FairSpec` of `RepairFix`: `WF` of the steps between the decision
and the second `up`, that is, JavaScript runs on and the timer of the command
fires. Nothing is assumed of the command (it may never close), of the person,
of the provider, or of the second `up` and `docker compose down`, which wait for
the end of commands that nothing kills. So `CommandNeverHolds` ends where the
second `up` begins.

`ci_action` uses `WF` of `Step`: each command of the action ends or is ended
by the runner, whose limit on a job is not modelled, and the last step runs,
as `if: always()` says. Nothing is assumed of the other job.

## The proofs

Each proof module states its invariant as a conjunction of named parts, each
with a comment that says it in words, and has one lemma or step per action.

`BootRunProofs` proves, for any sets of inputs, URLs and statuses that satisfy
the named assumptions of `BootRun`:

* `TypeCorrect`: `Spec => []TypeOK`.
* `SafetyCorrect`: the inductive invariant. `AttributedBoot` is not inductive:
  it follows from what each place of the code knows. The invariant says that
  an accepted `latest` of a poll of the application was live when it was
  answered or else the exit has been seen or will be by the next turn of the
  loop; that a verdict is only built where its conditions were read; and that
  the attestation is the verdict. Each action is one step of the proof.
* `AttributedBootCorrect` and `HostConsentCorrect`: two of the checked
  invariants, from `SafetyCorrect` and, for consent, from the refusals: a
  start-app or install step of the plan that the gate let through implies the
  acknowledgement (lemmas `GateMeans` and `PlannedHostStep`, about `UpGate`).
* `PromiseKept`: `Spec => Verdict!Spec`, the refinement. The initial states
  map to initial states, and every step to `RunHost`, `RunContainers`, `Hear`,
  `Refuse`, `Fail`, `Boot` or a stutter.

* `NoLeaderSurvivesCorrect`, from `LeaderInv`: where the process exists, and
  that its exit is known only once it happened.
* `ClassMatchesEvidenceCorrect`, from `ClassInv`: a failed verdict is backed by
  the steps observed before it (`Backed`) from where it is drawn, a poll that is
  over ran into its timeout, an exit or an accepted response, and a Compose
  application is only diagnosed after an unhealthy timeout.
* `OutcomeRecordedCorrect`, from `SafetyInv` with `DryRunInv` (who is past the
  gate is not dry), `CleanInv` (nothing was written or brought up before the
  step loop) and `PlannedInv` (no step of a refusal is observed while the run
  goes on).
* `BootedMeansEveryStepOkCorrect`, from `ProgressInv`: until the verdict the
  observed steps are the plan up to the current step, each a success.
* `BootedByThisRunCorrect`, under the hypothesis `QuietHost`, the four conditions
  above in terms of the constants (`boot_quiet` is such an instance). The
  invariant `QuietInv` follows the preflight: who listens (`ListenersInv`),
  which URLs a round may visit (`ReachInv`), that each candidate probed so far
  is free of foreign services and, past the preflight, every one is
  (`PreflightInv`), that the ports of a Compose application are its own once its
  first step succeeded (`BoundInv`), so that what is accepted is ours
  (`OursInv`).

`AgentRunProofs` proves, for any runs, processes, plans and bounds that satisfy
the assumptions of `AgentRun`, the five properties of `agent_chains`:

* `TypeCorrect`, from `TypeInv`: `TypeOK`, what each place of a job knows of its
  locals (`JobsOK`), and that the files are finitely many, no two of a run have
  one name and their time stamps are bounded (`FilesOK`). `FreeNameExists` shows
  by cardinality that a name is free.
* `BrokenIsFrozenCorrect`, an action property, from `TypeInv`: a step that
  touches a run is one of a process that is under way there, or one that finds
  a valid chain.
* `ImmutableReceiptsCorrect`, an action property, from `Exclusive` (two processes
  at one run leave a trace in `contended`) and `FreshNames` (the name under
  which a lone process writes next is not taken).
* `IdleChainValidCorrect`, from `AloneInv`: at each place of a lone job, what it
  holds is the valid chain as far as it got, its draft is later than every
  receipt, and the receipt it wrote extends the chain the summary still
  describes.
* `SummaryTruthfulCorrect`, from `HashInv` and `TruthInv`. A summary of a chain
  that broke says nothing of the receipts that are there, so the invariant does
  not speak of them: a summary, written or held, is true of every set of
  receipts of the run that links up to the hash it names last. `HashInv` makes
  this stable: the hash of a draft is mentioned nowhere, so a new receipt
  extends no chain but its own. `ChainPeels` takes the last receipt off such a
  chain and `TruthExtends` puts it on.

`RepairApplyProofs` proves, for any receipts that satisfy `ReceiptAssumption`
and any number of edits and faults:

* `TypeCorrect`: `Spec => []TypeOK`, with `LoopInv`: where each loop stands,
  and that `written` is a prefix of the changes.
* `AllOrNothingCorrect`: if no failing write truncates its file (`~TornWrites`),
  `Spec => []AllOrNothing`. The invariant `TreeInv` says what each place knows
  of an unedited tree: which preimages were seen, and that the first n changes
  are in place and the rest is as it was. `WriteExtends` and `UndoShrinks` are
  its two steps.
* `RefusalWritesNothingCorrect`: `Spec => []RefusalWritesNothing`; until the
  command writes, each edit changes at most one more file.

`RepairSafetyProofs` has no theorem of its own: it derives the order of the
risks, the class that each pattern of a command gives it (`FirstRule`,
`LeastRule`) and the assessment that follows.

`RepairFixProofs` proves, for any worlds, options, suggestions and number of
changes that satisfy the assumptions of `RepairFix` (they are of their kinds,
and `Later`, what a read may return after a change, is among the worlds):

* `ConsentedCommandCorrect`, from `ConsentInv`: until somebody interferes, what
  was shown is what a read would find now, and becomes the candidate that is
  executed; an approval exists outside batches only. The theorem is about
  playbooks and AIs: `repair_batch` shows that the registered remediations run
  their commands unasked.
* `NoStaleReceiptCorrect`, from `StaleInv`: where a repair is under way the
  receipt of the earlier one is gone.
* `ReceiptTellsTheTruthCorrect`, from `TruthInv`: what is known at each place of
  the approval, of the command's end, of the copy and of the second
  attestation, and that an own receipt exists only at the end, or in the
  clean-up after a registered remediation.
* `TypeCorrect`: `Spec => []TypeOK`, with the type of the failure read first.
* `PlaybooksAreSafeCorrect`: each candidate of the table, under every combination
  of facts its guard allows, passes the policy; one lemma per group of
  playbooks.
* `BootAttemptRecordedCorrect`, from `AttemptInv`: an attempt holds a candidate
  the policy accepts, and the second run it records is external only if the
  failure was. `RecordOwn` is the reason: such a receipt contradicts itself
  only over a healthy external URL. `BoxInv` says where no copy exists and
  where nothing of an earlier repair does, which is what a failed copy leaves.

`AgentJourneyProofs` proves, for any sights, tools, outcomes of `up`, URLs and
number of commands:

* `PlansAskFirstCorrect` and `FailsOnlyOverQuotesCorrect`, both from `LawfulPlan`:
  every step of every plan asks for approval or is the observation of a URL,
  and passes the validator unless that URL is quoted. One lemma per
  group of candidate actions.
* `EditedIsIgnoredCorrect`, from `UntrustedPlan`: `BuildAgentPlan` does not depend
  on an attestation that does not verify.
* `ExternalIsNotABootCorrect`, which is inductive as it stands.

`SigningProofs` proves, for any processes, keys, commands and bounds that
satisfy the four assumptions of `Signing`:

* `FilesCorrect`: the invariant `FilesInv`, of `Typing`, `Courses` (which kind
  of command may be where), `Disk` (what a whole file holds) and `Drafts` (what
  a process is about to write, and that it holds the key its draft is signed
  with). The key in memory matters: the one on disk may be another's by then.
* `ProofsIntactCorrect` and `TrustIsAskedCorrect` follow at once;
  `StrictAcceptanceCorrect` adds what a verification saw when it ended.

For the rest it adds `Noticed`: whatever two processes are inside of
together is in `raced`, so that outside of it a process that updates a file is
`Alone`. On it rest `KeysKeptCorrect` (`KeysInv`: a key that signed is current,
archived or dropped, or a lone rotation is just about to archive it),
`LatestProofCorrect` and `TrustKeptCorrect`, with their invariants `LatestInv`
and `TrustInv` of the same form.

`CiActionProofs` proves, for any number of uses, inputs, page size and number of
look-ups that satisfy the assumptions of `CiAction`:

* `TypeCorrect`: `Spec => []TypeOK`.
* `GreenIsEarnedCorrect` and `StagedIsOwnCorrect`, from `EvidenceInv`. A green
  outcome is far from what earned it, so the invariant follows the evidence:
  the attestation that was read is of this use and still there
  (`ReadIsOwn`), the entry and the receipt are of this use, and of its run if
  nothing went wrong (`EntryIsOwn`, `ReceiptIsOwn`), nothing is staged before
  the verdict (`StagedInTurn`), and an outcome follows a published verdict
  (`JudgedInTurn`). `JudgementIsSound` is the step from the verdict to its
  reasons.
* `StickyCommentIsOneCorrect`, from `StickyInv`: who saw no comment is right
  as long as the two jobs keep apart and every comment fits the page.

Only model-checked: the four properties under fairness (`ExitConcludes`,
`DeadlineHonoured`, `CommandNeverHolds`, `EveryUseIsJudged`), which are out of
the prover's reach along with `ENABLED`. Every other property of a passing run
is stated by a theorem. Induction over data and `RECURSIVE` operators are out of
reach too; no module here declares one. Where a sequence or a set had to be
followed, the proofs do it in the invariant (a prefix that grows by one step)
or over the natural numbers (the latest receipt of a chain).

What proving changed in the models. `BootedMeansEveryStepOk` compared the
observed steps with the listed plan and was false of a repository started by
`--command` alone, which no instance had; it now states the steps of a boot,
and `boot_quiet` has that input. `FailsOnlyOverQuotes` was a state predicate
that an edit of the attestation after the failure would have broken; it is now
about the failing step. Two `CASE` expressions with overlapping guards
(`Assess`, `PlanningStatus`) were made exclusive in the order of the code: TLC
takes the first, the semantics of TLA+ any.

What reading them again against the source changed. The steps a refusal
records, the classes a text alone can give, the commands of the registered
remediations, a copy that fails and a `docker compose down` that fails were
missing from the models, and properties held because of it; `OutcomeRecorded`,
`ClassMatchesEvidence`, `ConsentedCommand` and `BootAttemptRecorded` now say
what holds with them, and `CommandNeverHolds` replaced a property that assumed
an end of the second `up`.

## Not modelled

* `taxonomy.ts`, `diagnosis.ts`, `redact.ts`, and the patterns of
  `infer.ts`, `agent-plan.ts`, `repair-safety.ts` and `repair-playbooks.ts`:
  regular expressions over text. What they may find is an input of the models;
  whether they find the right thing is a property of strings.
* `diff.ts`, `receipt.ts`, `sbom.ts`, `platform.ts` and the printing of
  `cli.ts`: functions without state, of text to text.
* `remote.ts`: the validation of a URL and a clone; what follows from a remote
  source is in `UpGate`.
* Provenance by OIDC (`proof.ts`), which rests on a service that the code only
  asks.
* In the action: the branch for an external health check, a token of another
  account (whose comments would not be recognised), the upload of artifacts.
* The standalone recorder (`scripts/bootproof_up.mjs` and its companions), a
  demonstration beside the package. Its behaviour turns on when Node performs
  the `listen()` of a server that is closed at once, which its source does not
  settle.
* Packaging (`scripts/pack-smoke.mjs`, `scripts/fallback_*.js`).

## The plan

Done, in this order: `UpGate`, `BootRun`, `BootVerdict`, `BootRunProofs`,
`AgentRun`, `RepairApply`, `RepairApplyProofs`, `RepairSafety`,
`RepairPlaybooks`, `RepairFix`, `Signing`, `SigningProofs`, `AgentPlan`,
`AgentJourney`, `CiAction`, `CiActionProofs`, `RepairFixProofs`,
`RepairSafetyProofs`, `AgentJourneyProofs`, `AgentRunProofs`.

To come:

1. The safety that the liveness properties rest on, where the prover can say
   it: a step of `RepairFix` or `CiAction` never goes back to an earlier place,
   so that fairness alone is left to TLC.
2. An abstract specification of a receipt chain (append or break), which
   `AgentRun` implements for uncontended runs; `AloneInv` has most of the
   refinement.
3. The last attestation of `AgentJourney` as an instance of what `Signing` says of
   a whole file.
