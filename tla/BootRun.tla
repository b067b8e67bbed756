------------------------------- MODULE BootRun ------------------------------
(***************************************************************************)
(* One `bootproof up`: the step loop of run.ts over the process            *)
(* supervision, the health polling and the probes of exec.ts, on a host    *)
(* where the application, the services that were there before and the      *)
(* containers of an earlier run come and go between any two awaits.        *)
(*                                                                         *)
(* `pc` names the await (or the synchronous stretch before it) at which    *)
(* `up` is.  The event loop can only deliver the exit of the supervised    *)
(* process at an await, which is what makes the order of the checks in the *)
(* code matter.                                                            *)
(***************************************************************************)
EXTENDS UpGate

CONSTANTS
  InputSet,     (* the inputs this instance starts from                     *)
  Urls,         (* every URL that can be probed                             *)
  Inferred,     (* healthCandidates of an inferred application command      *)
  ComposeUrls,  (* composeHealthCandidates of the repository Compose file   *)
  Advertised,   (* the URLs the application may print                       *)
  OtherPort,    (* those on another port than the inferred health URL       *)
  ForeignUrls,  (* where a service BootProof did not start may listen       *)
  Statuses,     (* how a listener may answer                                *)
  ForeignStatuses, (* how a service BootProof did not start may answer      *)
  Churn,        (* foreign services may start and stop during the run       *)
  Leftover,     (* containers of an earlier run may still be serving        *)
  NoUrl         (* the URL of no evidence                                   *)

ASSUME InputAssumption == InputSet \subseteq {i \in Inputs : Inferable(i)}
ASSUME UrlAssumption ==
  /\ Inferred \cup ComposeUrls \cup Advertised \cup ForeignUrls \subseteq Urls
  /\ OtherPort \subseteq Advertised
  /\ NoUrl \notin Urls
ASSUME StatusAssumption ==
  /\ Statuses \subseteq {"accepted", "rejected", "error5xx", "hang", "stream"}
  /\ ForeignStatuses \subseteq Statuses
ASSUME SwitchAssumption == Churn \in BOOLEAN /\ Leftover \in BOOLEAN

VARIABLES
  inp,          (* the input of this run                                    *)
  pc,           (* where `up` is                                            *)
  step,         (* the index of the plan step                               *)
  phase,        (* who asks for the probes: preflight, app or compose       *)
  cands,        (* the candidates of the poll                               *)
  todo,         (* those this round has not probed yet                      *)
  probe,        (* the request in flight, then its answer                   *)
  latest,       (* latestResponse                                           *)
  late,         (* Date.now() - started >= timeoutMs                        *)
  timedOut,     (* the running command was sent SIGTERM                     *)
  observed,     (* the observed steps                                       *)
  verdict,      (* the attestation being built                              *)
  attestation,  (* .bootproof/attestation.json, as this run leaves it       *)
  wrote,        (* whether generated files were written                     *)
  leader,       (* the supervised process                                   *)
  group,        (* whether another process of its group is alive            *)
  exitSeen,     (* the variable `exit` of superviseApp is set               *)
  printed,      (* the URLs in app.output(), a tail of the output           *)
  server,       (* who listens at each URL, and how it answers              *)
  composeUp,    (* docker compose up -d was accepted                        *)
  occupied      (* history: where someone listened when the app started     *)

runVars == <<pc, step, phase, cands, todo, probe, latest, late, timedOut,
             observed, verdict, attestation, wrote, occupied>>
appVars == <<leader, group, exitSeen, printed>>
vars == <<inp, runVars, appVars, server, composeUp>>

-----------------------------------------------------------------------------
Owners == {"none", "app", "foreign", "compose", "leftover"}

Free == [owner |-> "none", status |-> "none"]
Listener(o, s) == [owner |-> o, status |-> s]

(* What a probe returns: the URL and the status of the HealthEvidence       *)
(* ("none" is a connection error or a timeout), and two facts the code does *)
(* not know: who answered, and whether the supervised process was running.  *)
Evidence(u, s, o, alive) ==
  [url |-> u, status |-> s, owner |-> o, live |-> alive]
NoEvidence == Evidence(NoUrl, "none", "none", FALSE)
Evidences == [url : Urls \cup {NoUrl}, status : Statuses \cup {"none", "sent"},
              owner : Owners, live : BOOLEAN]

Accepted(e) == e.status = "accepted"

(* An attestation, as far as the result block goes.                         *)
Result(v, c, e) == [result |-> v, class |-> c, evidence |-> e]
NoResult == Result("none", "none", NoEvidence)

FailureClasses == RefusalClasses \cup
  {"install_failed", "app_exited_early", "health_candidate_port_mismatch",
   "health_http_error", "health_check_timeout", "unknown_failure",
   "classified"}
Results == [result : {"none", "booted", "failed", "refused"},
            class : FailureClasses \cup {"none"}, evidence : Evidences]

(* The steps a refusal records are no steps of the plan that were run: they *)
(* go by their ids, the skipped preparation by what is said of it.          *)
RefusalSteps ==
  {"skipped-preparation", "package-manager-version", "health-preflight"}
ObservedSteps ==
  [kind : {"service", "install", "start-app", "health"} \cup RefusalSteps,
   ok : BOOLEAN]

PCs == {"gate", "preflighted", "write", "loop", "command", "poll", "probe",
        "await", "answered", "pause", "turn", "judge", "stop", "stopping",
        "diagnose-ps", "diagnose-logs", "attest", "done"}

Plan == PlanSteps(inp)
Kind == Plan[step]

(* plan.healthCandidates before anything ran.                               *)
Candidates ==
  IF RunsSourceCompose(inp) THEN ComposeUrls
  ELSE IF inp.facts.appCommand THEN Inferred
  ELSE IF inp.facts.composeHealth THEN ComposeUrls
  ELSE {}

(* Faulty variant: the poll is not told about the exit.                     *)
ShouldStopNever == FALSE

(* shouldStop: only the poll beside a supervised process has one.           *)
ShouldStop == phase = "app" /\ exitSeen

(* The candidates extractHealthCandidates finds in the output so far.       *)
OutputUrls == IF phase = "app" THEN printed ELSE {}

(* The awaits at which the event loop can run the 'exit' callback.          *)
Awaiting == pc \in {"await", "answered", "pause", "stopping"}

-----------------------------------------------------------------------------
Init ==
  /\ inp \in InputSet
  /\ pc = "gate" /\ step = 1 /\ phase = "preflight"
  /\ cands = {} /\ todo = {} /\ probe = NoEvidence /\ latest = NoEvidence
  /\ late = FALSE /\ timedOut = FALSE /\ observed = <<>>
  /\ verdict = NoResult /\ attestation = NoResult /\ wrote = FALSE
  /\ leader = "none" /\ group = FALSE /\ exitSeen = FALSE /\ printed = {}
  /\ composeUp = FALSE /\ occupied = {}
  /\ server \in [Urls -> {Free}
        \cup {Listener("foreign", s) : s \in ForeignStatuses}
        \cup {Listener("leftover", s) : s \in Statuses}]
  /\ \A u \in Urls :
        /\ server[u].owner = "foreign"  => u \in ForeignUrls
        /\ server[u].owner = "leftover" => Leftover /\ u \in ComposeUrls

-----------------------------------------------------------------------------
(* The gate.                                                                *)

(* The step a refusal records: the preparation that was not asked for, the  *)
(* version that `<package manager> --version` named, or the foreign answer. *)
StepOfRefusal(class) ==
  CASE class = "dependency_install_skipped" ->
         <<[kind |-> "skipped-preparation", ok |-> FALSE]>>
    [] class = "package_manager_version_mismatch" ->
         <<[kind |-> "package-manager-version", ok |-> FALSE]>>
    [] class = "health_preoccupied" ->
         <<[kind |-> "health-preflight", ok |-> FALSE]>>
    [] OTHER -> <<>>

(* Faulty variant: a refused dry run leaves an attestation.                 *)
GateRefuseRecorded(table) ==
  /\ Refuses(table)
  /\ attestation' = Result("refused", RefusalClass(table), NoEvidence)
  /\ observed' = StepOfRefusal(RefusalClass(table))
  /\ pc' = "done"
  /\ UNCHANGED <<inp, step, phase, cands, todo, probe, latest, late, timedOut,
                 verdict, wrote, occupied, appVars, server, composeUp>>

GateRefuse(table) ==
  /\ Refuses(table)
  /\ IF inp.opts.dryRun
       THEN attestation' = NoResult /\ UNCHANGED observed
       ELSE /\ attestation' = Result("refused", RefusalClass(table), NoEvidence)
            /\ observed' = StepOfRefusal(RefusalClass(table))
  /\ pc' = "done"
  /\ UNCHANGED <<inp, step, phase, cands, todo, probe, latest, late, timedOut,
                 verdict, wrote, occupied, appVars, server, composeUp>>

GateRefuseEarly == pc = "gate" /\ GateRefuse(EarlyRefusals(inp))

GateRefuseLate ==
  /\ pc = "gate" /\ ~Refuses(EarlyRefusals(inp)) /\ ~inp.opts.dryRun
  /\ GateRefuse(LateRefusals(inp))

DryRun ==
  /\ pc = "gate" /\ ~Refuses(EarlyRefusals(inp)) /\ inp.opts.dryRun
  /\ pc' = "done"
  /\ UNCHANGED <<inp, step, phase, cands, todo, probe, latest, late, timedOut,
                 observed, verdict, attestation, wrote, occupied, appVars,
                 server, composeUp>>

NeedsPreflight ==
  inp.opts.provider = "local" /\ HasCommand(inp) /\ Candidates # {}

GateOpen ==
  /\ pc = "gate" /\ ~inp.opts.dryRun
  /\ ~Refuses(EarlyRefusals(inp)) /\ ~Refuses(LateRefusals(inp))
  /\ IF NeedsPreflight
       THEN pc' = "probe" /\ todo' = Candidates
       ELSE pc' = "write" /\ UNCHANGED todo
  /\ UNCHANGED <<inp, step, phase, cands, probe, latest, late, timedOut,
                 observed, verdict, attestation, wrote, occupied, appVars,
                 server, composeUp>>

(* Any response at all, healthy or not, means the port is taken.            *)
PreflightRefuse ==
  /\ pc = "preflighted" /\ latest # NoEvidence
  /\ attestation' = Result("refused", "health_preoccupied", latest)
  /\ observed' = StepOfRefusal("health_preoccupied")
  /\ pc' = "done"
  /\ UNCHANGED <<inp, step, phase, cands, todo, probe, latest, late, timedOut,
                 verdict, wrote, occupied, appVars, server, composeUp>>

(* Faulty variant: only a healthy response counts as taken.                 *)
PreflightPassUnlessHealthy ==
  /\ pc = "preflighted" /\ ~Accepted(latest)
  /\ pc' = "write"
  /\ UNCHANGED <<inp, step, phase, cands, todo, probe, latest, late, timedOut,
                 observed, verdict, attestation, wrote, occupied, appVars,
                 server, composeUp>>

PreflightPass ==
  /\ pc = "preflighted" /\ latest = NoEvidence
  /\ pc' = "write"
  /\ UNCHANGED <<inp, step, phase, cands, todo, probe, latest, late, timedOut,
                 observed, verdict, attestation, wrote, occupied, appVars,
                 server, composeUp>>

WritePlanFiles ==
  /\ pc = "write"
  /\ wrote' = GeneratesFiles(inp)
  /\ pc' = "loop"
  /\ UNCHANGED <<inp, step, phase, cands, todo, probe, latest, late, timedOut,
                 observed, verdict, attestation, occupied, appVars, server,
                 composeUp>>

-----------------------------------------------------------------------------
(* Service, install and build steps: runToCompletion.                       *)

(* Faulty variant: any planned command is run to completion.                *)
StartCommandAny ==
  /\ pc = "loop" /\ step <= Len(Plan)
  /\ timedOut' = FALSE
  /\ pc' = "command"
  /\ UNCHANGED <<inp, step, phase, cands, todo, probe, latest, late, observed,
                 verdict, attestation, wrote, occupied, appVars, server,
                 composeUp>>

StartCommand ==
  /\ pc = "loop" /\ step <= Len(Plan) /\ Kind \in {"service", "install"}
  /\ timedOut' = FALSE
  /\ pc' = "command"
  /\ UNCHANGED <<inp, step, phase, cands, todo, probe, latest, late, observed,
                 verdict, attestation, wrote, occupied, appVars, server,
                 composeUp>>

(* The timer sends SIGTERM to the group and leaves the rest to 'close'.     *)
CommandTimesOut ==
  /\ pc = "command" /\ ~timedOut
  /\ timedOut' = TRUE
  /\ UNCHANGED <<inp, pc, step, phase, cands, todo, probe, latest, late,
                 observed, verdict, attestation, wrote, occupied, appVars,
                 server, composeUp>>

(* Only the preparation steps hold a timeout against a command that still   *)
(* managed to exit 0.                                                       *)
CommandOk(exitZero) == exitZero /\ (Kind = "install" => ~timedOut)

(* What classifyFailure finds in the text of a command or of the process:   *)
(* two of its rules give classes that the step loop gives for what it saw   *)
(* itself; "classified" stands for every other class of the taxonomy.       *)
ByText == {"classified", "health_http_error", "health_candidate_port_mismatch"}

(* `docker compose up -d` fails when a published port is taken by anybody   *)
(* else (the class service_port_allocated of the taxonomy).                 *)
PortsBindable == \A u \in ComposeUrls : server[u].owner # "foreign"

(* Faulty variant: a failed command does not end the run.                   *)
CommandClosesAndGoesOn(exitZero) ==
  /\ pc = "command"
  /\ Kind = "service" /\ exitZero => PortsBindable
  /\ observed' = Append(observed, [kind |-> Kind, ok |-> CommandOk(exitZero)])
  /\ composeUp' = (composeUp \/ (Kind = "service" /\ exitZero))
  /\ step' = step + 1 /\ pc' = "loop"
  /\ UNCHANGED <<inp, phase, cands, todo, probe, latest, late, timedOut,
                 verdict, attestation, wrote, occupied, appVars, server>>

CommandCloses(exitZero) ==
  LET ok == CommandOk(exitZero) IN
  /\ pc = "command"
  /\ Kind = "service" /\ exitZero => PortsBindable
  /\ observed' = Append(observed, [kind |-> Kind, ok |-> ok])
  /\ composeUp' = (composeUp \/ (Kind = "service" /\ ok))
  /\ IF ok
       THEN step' = step + 1 /\ pc' = "loop" /\ UNCHANGED verdict
       ELSE /\ \E c \in ByText \cup {IF Kind = "install" THEN "install_failed"
                                                      ELSE "unknown_failure"} :
                  verdict' = Result("failed", c, NoEvidence)
            /\ pc' = "attest" /\ UNCHANGED step
  /\ UNCHANGED <<inp, phase, cands, todo, probe, latest, late, timedOut,
                 attestation, wrote, occupied, appVars, server>>

(* The plan ran out without an app to supervise or a Compose application.   *)
FallThrough ==
  /\ pc = "loop"
  /\ \/ step > Len(Plan)
     \/ step <= Len(Plan) /\ Kind = "health" /\ ~RunsSourceCompose(inp)
  /\ verdict' = Result("failed", "orchestration_not_supported", NoEvidence)
  /\ pc' = "attest"
  /\ UNCHANGED <<inp, step, phase, cands, todo, probe, latest, late, timedOut,
                 observed, attestation, wrote, occupied, appVars, server,
                 composeUp>>

-----------------------------------------------------------------------------
(* Starting what will be polled.                                            *)

BeginPoll(ph) ==
  /\ phase' = ph /\ cands' = Candidates /\ latest' = NoEvidence
  /\ late' = FALSE /\ pc' = "poll"
  /\ UNCHANGED <<inp, step, todo, probe, timedOut, observed, verdict,
                 attestation, wrote, server, composeUp>>

StartApp ==
  /\ pc = "loop" /\ step <= Len(Plan) /\ Kind = "start-app"
  /\ leader' = "running"
  /\ occupied' = {u \in Urls : server[u] # Free}
  /\ BeginPoll("app")
  /\ UNCHANGED <<group, exitSeen, printed>>

StartComposePoll ==
  /\ pc = "loop" /\ step <= Len(Plan)
  /\ Kind = "health" /\ RunsSourceCompose(inp)
  /\ BeginPoll("compose")
  /\ UNCHANGED <<occupied, appVars>>

-----------------------------------------------------------------------------
(* pollHealthCandidates and probeHealthCandidatesOnce.  A round visits the  *)
(* candidates in any order; the code's is that of insertion.                *)

(* Faulty variant: a new round does not look at the clock.                  *)
PollRoundUntimed ==
  /\ pc = "poll" /\ ~ShouldStop
  /\ cands' = cands \cup OutputUrls
  /\ todo' = cands \cup OutputUrls
  /\ pc' = "probe"
  /\ UNCHANGED <<inp, step, phase, probe, latest, late, timedOut, observed,
                 verdict, attestation, wrote, occupied, appVars, server,
                 composeUp>>

PollRound ==
  /\ pc = "poll" /\ ~late /\ ~ShouldStop
  /\ cands' = cands \cup OutputUrls
  /\ todo' = cands \cup OutputUrls
  /\ pc' = "probe"
  /\ UNCHANGED <<inp, step, phase, probe, latest, late, timedOut, observed,
                 verdict, attestation, wrote, occupied, appVars, server,
                 composeUp>>

PollOver ==
  /\ pc = "poll" /\ (late \/ ShouldStop)
  /\ cands' = cands \cup OutputUrls
  /\ pc' = IF phase = "app" THEN "turn" ELSE "judge"
  /\ UNCHANGED <<inp, step, phase, todo, probe, latest, late, timedOut,
                 observed, verdict, attestation, wrote, occupied, appVars,
                 server, composeUp>>

SendProbe(u) ==
  /\ pc = "probe" /\ u \in todo /\ ~ShouldStop
  /\ probe' = Evidence(u, "sent", "none", FALSE)
  /\ todo' = todo \ {u}
  /\ pc' = "await"
  /\ UNCHANGED <<inp, step, phase, cands, latest, late, timedOut, observed,
                 verdict, attestation, wrote, occupied, appVars, server,
                 composeUp>>

RoundOver ==
  /\ pc = "probe" /\ (todo = {} \/ ShouldStop)
  /\ pc' = IF phase = "preflight" THEN "preflighted" ELSE "pause"
  /\ UNCHANGED <<inp, step, phase, cands, todo, probe, latest, late, timedOut,
                 observed, verdict, attestation, wrote, occupied, appVars,
                 server, composeUp>>

PauseOver ==
  /\ pc = "pause"
  /\ pc' = "poll"
  /\ UNCHANGED <<inp, step, phase, cands, todo, probe, latest, late, timedOut,
                 observed, verdict, attestation, wrote, occupied, appVars,
                 server, composeUp>>

(* The server answers, refuses the connection or, silent for 3 s, makes the *)
(* request time out.  A body that never ends ("stream") settles nothing.    *)
Answer ==
  LET s == server[probe.url] IN
  /\ pc = "await" /\ s.status # "stream"
  /\ probe' = Evidence(probe.url, IF s.status = "hang" THEN "none" ELSE s.status,
                       s.owner, leader = "running")
  /\ pc' = "answered"
  /\ UNCHANGED <<inp, step, phase, cands, todo, latest, late, timedOut,
                 observed, verdict, attestation, wrote, occupied, appVars,
                 server, composeUp>>

HandleAnswer ==
  /\ pc = "answered"
  /\ latest' = IF probe.status = "none" THEN latest ELSE probe
  /\ pc' = IF ~Accepted(probe) THEN "probe"
           ELSE IF phase = "preflight" THEN "preflighted"
           ELSE IF ShouldStop THEN "pause"
           ELSE IF phase = "app" THEN "turn" ELSE "judge"
  /\ UNCHANGED <<inp, step, phase, cands, todo, probe, late, timedOut,
                 observed, verdict, attestation, wrote, occupied, appVars,
                 server, composeUp>>

-----------------------------------------------------------------------------
(* The verdict on a supervised process.                                     *)

(* Faulty variant: no turn of the event loop before the check.              *)
LoopTurnSkipped ==
  /\ pc = "turn"
  /\ pc' = "judge"
  /\ UNCHANGED <<inp, step, phase, cands, todo, probe, latest, late, timedOut,
                 observed, verdict, attestation, wrote, occupied, appVars,
                 server, composeUp>>

(* `await setImmediate`: one turn of the event loop.  An exit that precedes *)
(* the answer reached the loop no later than the answer and is delivered;   *)
(* one that came after it may or may not be.                                *)
LoopTurn ==
  /\ pc = "turn"
  /\ \/ leader # "exited" /\ UNCHANGED exitSeen
     \/ leader = "exited" /\ exitSeen' = TRUE
     \/ /\ leader = "exited" /\ UNCHANGED exitSeen
        /\ Accepted(latest) => latest.live
  /\ pc' = "judge"
  /\ UNCHANGED <<inp, step, phase, cands, todo, probe, latest, late, timedOut,
                 observed, verdict, attestation, wrote, occupied, leader,
                 group, printed, server, composeUp>>

JudgeExited ==
  /\ pc = "judge" /\ phase = "app" /\ exitSeen
  /\ cands' = cands \cup printed
  /\ observed' = Append(observed, [kind |-> "start-app", ok |-> FALSE])
  /\ \E c \in ByText \cup {"app_exited_early"} :
        verdict' = Result("failed", c, latest)
  /\ pc' = "attest"     \* app.stop() returns at once: the leader is gone
  /\ UNCHANGED <<inp, step, phase, todo, probe, latest, late, timedOut,
                 attestation, wrote, occupied, appVars, server, composeUp>>

(* Faulty variant: a healthy response is a boot, exit or no exit.           *)
JudgeBootedAnyway ==
  /\ pc = "judge" /\ phase = "app" /\ Accepted(latest)
  /\ cands' = cands \cup printed
  /\ observed' = observed \o <<[kind |-> "start-app", ok |-> TRUE],
                               [kind |-> "health", ok |-> TRUE]>>
  /\ verdict' = Result("booted", "none", latest)
  /\ pc' = "stop"
  /\ UNCHANGED <<inp, step, phase, todo, probe, latest, late, timedOut,
                 attestation, wrote, occupied, appVars, server, composeUp>>

JudgeBooted ==
  /\ pc = "judge" /\ phase = "app" /\ ~exitSeen /\ Accepted(latest)
  /\ cands' = cands \cup printed
  /\ observed' = observed \o <<[kind |-> "start-app", ok |-> TRUE],
                               [kind |-> "health", ok |-> TRUE]>>
  /\ verdict' = Result("booted", "none", latest)
  /\ pc' = "stop"
  /\ UNCHANGED <<inp, step, phase, todo, probe, latest, late, timedOut,
                 attestation, wrote, occupied, appVars, server, composeUp>>

(* detectHealthCandidatePortMismatch over the discovered candidates.        *)
PortMismatch(cs) == Candidates # {} /\ (cs \ Candidates) \cap OtherPort # {}

(* Faulty variant: a 5xx response is left to the classifier.                *)
UnhealthyClassesByText(mismatch, e) ==
  IF mismatch THEN {"health_candidate_port_mismatch"}
  ELSE ByText \cup {"health_check_timeout"}

(* The class of an unhealthy application: what was seen comes before what   *)
(* the text of the evidence matches.                                        *)
UnhealthyClasses(mismatch, e) ==
  IF mismatch THEN {"health_candidate_port_mismatch"}
  ELSE IF e.status = "error5xx" THEN {"health_http_error"}
  ELSE ByText \cup {"health_check_timeout"}

(* Faulty variant: the unhealthy path forgets app.stop().                   *)
JudgeUnhealthyUnstopped ==
  /\ pc = "judge" /\ phase = "app" /\ ~exitSeen /\ ~Accepted(latest)
  /\ cands' = cands \cup printed
  /\ observed' = observed \o <<[kind |-> "start-app", ok |-> TRUE],
                               [kind |-> "health", ok |-> FALSE]>>
  /\ \E c \in UnhealthyClasses(PortMismatch(cands'), latest) :
        verdict' = Result("failed", c, latest)
  /\ pc' = "attest"
  /\ UNCHANGED <<inp, step, phase, todo, probe, latest, late, timedOut,
                 attestation, wrote, occupied, appVars, server, composeUp>>

JudgeUnhealthy ==
  /\ pc = "judge" /\ phase = "app" /\ ~exitSeen /\ ~Accepted(latest)
  /\ cands' = cands \cup printed
  /\ observed' = observed \o <<[kind |-> "start-app", ok |-> TRUE],
                               [kind |-> "health", ok |-> FALSE]>>
  /\ \E c \in UnhealthyClasses(PortMismatch(cands'), latest) :
        verdict' = Result("failed", c, latest)
  /\ pc' = "stop"
  /\ UNCHANGED <<inp, step, phase, todo, probe, latest, late, timedOut,
                 attestation, wrote, occupied, appVars, server, composeUp>>

(* app.stop(): SIGTERM to the group, then 'close' or, after 5 s, SIGKILL.   *)
StopSignal ==
  /\ pc = "stop"
  /\ pc' = "stopping"
  /\ UNCHANGED <<inp, step, phase, cands, todo, probe, latest, late, timedOut,
                 observed, verdict, attestation, wrote, occupied, appVars,
                 server, composeUp>>

(* 'close' follows the exit of the leader; a process of the group that      *)
(* holds none of its pipes is not waited for.                               *)
StopClosed ==
  /\ pc = "stopping" /\ leader = "exited"
  /\ exitSeen' = TRUE
  /\ pc' = "attest"
  /\ UNCHANGED <<inp, step, phase, cands, todo, probe, latest, late, timedOut,
                 observed, verdict, attestation, wrote, occupied, leader,
                 group, printed, server, composeUp>>

Vacated(owner) ==
  [u \in Urls |-> IF server[u].owner = owner THEN Free ELSE server[u]]

StopKilled ==
  /\ pc = "stopping"
  /\ leader' = "exited" /\ group' = FALSE
  /\ server' = Vacated("app")
  /\ pc' = "attest"
  /\ UNCHANGED <<inp, step, phase, cands, todo, probe, latest, late, timedOut,
                 observed, verdict, attestation, wrote, occupied, exitSeen,
                 printed, composeUp>>

-----------------------------------------------------------------------------
(* The verdict on a Compose application.                                    *)

ComposeBooted ==
  /\ pc = "judge" /\ phase = "compose" /\ Accepted(latest)
  /\ observed' = Append(observed, [kind |-> "health", ok |-> TRUE])
  /\ verdict' = Result("booted", "none", latest)
  /\ pc' = "attest"
  /\ UNCHANGED <<inp, step, phase, cands, todo, probe, latest, late, timedOut,
                 attestation, wrote, occupied, appVars, server, composeUp>>

ComposeUnhealthy ==
  /\ pc = "judge" /\ phase = "compose" /\ ~Accepted(latest)
  /\ observed' = Append(observed, [kind |-> "health", ok |-> FALSE])
  /\ pc' = "diagnose-ps"
  /\ UNCHANGED <<inp, step, phase, cands, todo, probe, latest, late, timedOut,
                 verdict, attestation, wrote, occupied, appVars, server,
                 composeUp>>

(* composeDiagnostics: `ps --all`, then `logs`; neither changes the class   *)
(* except through the text it adds.                                         *)
Diagnose(ok) ==
  /\ pc \in {"diagnose-ps", "diagnose-logs"}
  /\ observed' = Append(observed, [kind |-> "service", ok |-> ok])
  /\ IF pc = "diagnose-ps"
       THEN pc' = "diagnose-logs" /\ UNCHANGED verdict
       ELSE /\ pc' = "attest"
            /\ \E c \in UnhealthyClasses(FALSE, latest) :
                  verdict' = Result("failed", c, latest)
  /\ UNCHANGED <<inp, step, phase, cands, todo, probe, latest, late, timedOut,
                 attestation, wrote, occupied, appVars, server, composeUp>>

(* buildAttestation and writeAttestation.                                   *)
Attest ==
  /\ pc = "attest"
  /\ attestation' = verdict
  /\ pc' = "done"
  /\ UNCHANGED <<inp, step, phase, cands, todo, probe, latest, late, timedOut,
                 observed, verdict, wrote, occupied, appVars, server, composeUp>>

-----------------------------------------------------------------------------
(* The host.                                                                *)

EnvUnchanged == UNCHANGED <<inp, runVars>>

AppAlive == leader = "running" \/ group

AppListens(u, s) ==
  /\ AppAlive /\ server[u] = Free
  /\ server' = [server EXCEPT ![u] = Listener("app", s)]
  /\ EnvUnchanged /\ UNCHANGED <<appVars, composeUp>>

AppPrints(u) ==
  /\ AppAlive /\ u \in Advertised \ printed
  /\ printed' = printed \cup {u}
  /\ EnvUnchanged /\ UNCHANGED <<leader, group, exitSeen, server, composeUp>>

(* app.output() is the last 4000 characters.                                *)
OutputScrolls(u) ==
  /\ AppAlive /\ u \in printed
  /\ printed' = printed \ {u}
  /\ EnvUnchanged /\ UNCHANGED <<leader, group, exitSeen, server, composeUp>>

AppForks ==
  /\ leader = "running" /\ ~group
  /\ group' = TRUE
  /\ EnvUnchanged /\ UNCHANGED <<leader, exitSeen, printed, server, composeUp>>

LeaderExits ==
  /\ leader = "running"
  /\ leader' = "exited"
  /\ server' = IF group THEN server ELSE Vacated("app")
  /\ EnvUnchanged /\ UNCHANGED <<group, exitSeen, printed, composeUp>>

GroupExits ==
  /\ group
  /\ group' = FALSE
  /\ server' = IF leader = "running" THEN server ELSE Vacated("app")
  /\ EnvUnchanged /\ UNCHANGED <<leader, exitSeen, printed, composeUp>>

(* child.on("exit")                                                         *)
ExitDelivered ==
  /\ leader = "exited" /\ ~exitSeen /\ Awaiting
  /\ exitSeen' = TRUE
  /\ EnvUnchanged /\ UNCHANGED <<leader, group, printed, server, composeUp>>

StatusChanges(u, s) ==
  /\ server[u] # Free
  /\ server[u].owner = "foreign" => s \in ForeignStatuses
  /\ server' = [server EXCEPT ![u].status = s]
  /\ EnvUnchanged /\ UNCHANGED <<appVars, composeUp>>

ForeignStarts(u, s) ==
  /\ Churn /\ u \in ForeignUrls /\ server[u] = Free /\ s \in ForeignStatuses
  /\ server' = [server EXCEPT ![u] = Listener("foreign", s)]
  /\ EnvUnchanged /\ UNCHANGED <<appVars, composeUp>>

ForeignStops(u) ==
  /\ Churn /\ server[u].owner = "foreign"
  /\ server' = [server EXCEPT ![u] = Free]
  /\ EnvUnchanged /\ UNCHANGED <<appVars, composeUp>>

(* A container this run created binds its published port.  A container of   *)
(* an earlier run that `up -d` found running keeps it.                      *)
ComposeListens(u, s) ==
  /\ composeUp /\ u \in ComposeUrls /\ server[u] = Free
  /\ server' = [server EXCEPT ![u] = Listener("compose", s)]
  /\ EnvUnchanged /\ UNCHANGED <<appVars, composeUp>>

ComposeStops(u) ==
  /\ server[u].owner \in {"compose", "leftover"}
  /\ server' = [server EXCEPT ![u] = Free]
  /\ EnvUnchanged /\ UNCHANGED <<appVars, composeUp>>

DeadlinePasses ==
  /\ phase \in {"app", "compose"} /\ ~late
  /\ pc \in {"poll", "probe", "await", "answered", "pause"}
  /\ late' = TRUE
  /\ UNCHANGED <<inp, pc, step, phase, cands, todo, probe, latest, timedOut,
                 observed, verdict, attestation, wrote, occupied, appVars,
                 server, composeUp>>

-----------------------------------------------------------------------------
Up ==
  \/ GateRefuseEarly \/ GateRefuseLate \/ DryRun \/ GateOpen
  \/ PreflightRefuse \/ PreflightPass \/ WritePlanFiles
  \/ StartCommand \/ FallThrough \/ StartApp \/ StartComposePoll
  \/ PollRound \/ PollOver \/ RoundOver \/ PauseOver \/ HandleAnswer
  \/ \E u \in Urls : SendProbe(u)
  \/ LoopTurn \/ JudgeExited \/ JudgeBooted \/ JudgeUnhealthy
  \/ StopSignal \/ ComposeBooted \/ ComposeUnhealthy
  \/ \E ok \in BOOLEAN : Diagnose(ok)
  \/ Attest

Closes == \E exitZero \in BOOLEAN : CommandCloses(exitZero)

Host ==
  /\ pc \notin {"gate", "done"}
  /\ \/ \E u \in Urls, s \in Statuses :
           \/ AppListens(u, s) \/ StatusChanges(u, s)
           \/ ForeignStarts(u, s) \/ ComposeListens(u, s)
     \/ \E u \in Urls :
           AppPrints(u) \/ OutputScrolls(u) \/ ForeignStops(u) \/ ComposeStops(u)
     \/ AppForks \/ LeaderExits \/ GroupExits \/ ExitDelivered

(* `up` has returned: nothing of this run is left to happen.                *)
Returned == pc = "done" /\ UNCHANGED vars

Next ==
  \/ Up \/ Closes \/ CommandTimesOut \/ Answer \/ StopClosed \/ StopKilled
  \/ DeadlinePasses \/ Host \/ Returned

Spec == Init /\ [][Next]_vars

(* JavaScript runs on, an exit is delivered at one of the awaits (they come *)
(* and go, hence SF), a probe that has something to settle with settles,    *)
(* and a command that was sent SIGTERM ends.  Nothing says that the         *)
(* deadline of the poll comes.                                              *)
Fairness ==
  /\ WF_vars(Up) /\ WF_vars(Answer) /\ SF_vars(ExitDelivered)
  /\ WF_vars(CommandTimesOut) /\ WF_vars(Closes)
  /\ WF_vars(StopClosed \/ StopKilled)

FairSpec == Spec /\ Fairness

-----------------------------------------------------------------------------
(* Properties.                                                              *)

(* Every variable keeps to its type: what the fields of UpOutcome, of the   *)
(* HealthObservation and of the attestation may hold.                       *)
TypeOK ==
  /\ inp \in InputSet /\ pc \in PCs /\ step \in Nat \ {0}
  /\ phase \in {"preflight", "app", "compose"}
  /\ cands \subseteq Urls /\ todo \subseteq Urls
  /\ probe \in Evidences /\ latest \in Evidences
  /\ pc = "await" => probe.url \in Urls
  /\ pc = "command" => step <= Len(Plan) /\ Kind \in {"service", "install"}
  /\ late \in BOOLEAN /\ timedOut \in BOOLEAN
  /\ observed \in Seq(ObservedSteps)
  /\ verdict \in Results /\ attestation \in Results
  /\ wrote \in BOOLEAN /\ occupied \subseteq Urls
  /\ leader \in {"none", "running", "exited"} /\ group \in BOOLEAN
  /\ exitSeen \in BOOLEAN /\ printed \subseteq Advertised
  /\ server \in [Urls -> [owner : Owners, status : Statuses \cup {"none"}]]
  /\ composeUp \in BOOLEAN

Booted == attestation.result = "booted"

(* A boot of a supervised application rests on an accepted response given   *)
(* while the supervised process was running: the exit of the process before *)
(* that response always reaches the check that follows the poll, although   *)
(* the two are separate callbacks of the event loop (run.ts:554-612).       *)
AttributedBoot ==
  Booted /\ phase = "app" =>
    Accepted(attestation.evidence) /\ attestation.evidence.live

(* A boot means that every command of the plan was carried out in its order *)
(* and observed to succeed, then the health of what they started, and       *)
(* nothing else: no failed or timed-out preparation, no half-run plan       *)
(* (run.ts:506-616).  The health check is listed by the plan only where     *)
(* inference left a URL to poll (plan.ts:96-102), and is made either way.   *)
StepsOfBoot == ServiceSteps(inp) \o HostSteps(inp) \o <<"health">>
BootedMeansEveryStepOk ==
  Booted =>
    /\ [k \in DOMAIN observed |-> observed[k].kind] = StepsOfBoot
    /\ \A k \in DOMAIN observed : observed[k].ok

(* A command of this kind runs or has run.                                  *)
Begun(kind) ==
  \/ pc = "command" /\ Kind = kind
  \/ \E k \in DOMAIN observed : observed[k].kind = kind
HostRan == leader # "none" \/ Begun("install")

(* No command of the repository runs on the host unless the user gave       *)
(* --unsafe-local for the local provider, whatever the order of the         *)
(* refusals lets through; preparation also needs --install                  *)
(* (run.ts:340-383).                                                        *)
HostConsent ==
  /\ HostRan => Acknowledged(inp)
  /\ Begun("install") => inp.opts.install

(* A dry run leaves nothing behind: no process, no file, no attestation.    *)
(* Any other run that ends leaves an attestation, a refusal included; a     *)
(* refusal comes before anything of the plan was started or written, and    *)
(* the steps it records are the reasons it was made for, never one that     *)
(* succeeded; only a refusal records such a step (run.ts:285-442).          *)
OutcomeRecorded ==
  pc = "done" =>
    /\ inp.opts.dryRun <=> attestation = NoResult
    /\ inp.opts.dryRun \/ attestation.result = "refused" =>
          /\ leader = "none" /\ ~composeUp /\ ~wrote
          /\ \A k \in DOMAIN observed :
                observed[k].kind \in RefusalSteps /\ ~observed[k].ok
    /\ attestation.result # "refused" =>
          \A k \in DOMAIN observed : observed[k].kind \notin RefusalSteps

(* A step of this kind is observed to have failed.                          *)
Lost(kind) ==
  \E k \in DOMAIN observed : observed[k].kind = kind /\ ~observed[k].ok

(* The class of a failure goes with what was observed, whatever the output  *)
(* says: an early exit and a failed installation are reported over the step *)
(* that failed; a timeout only after the whole timeout, over no 5xx         *)
(* response; a 5xx response of an application that kept running is never    *)
(* reported as anything but an HTTP error or a port mismatch; and an        *)
(* accepted response is a failure only where the application was seen to    *)
(* exit (run.ts:506-706).                                                   *)
ClassMatchesEvidence ==
  attestation.result = "failed" =>
    LET r == attestation IN
    /\ r.class = "install_failed" => Lost("install")
    /\ r.class = "app_exited_early" => exitSeen /\ Lost("start-app")
    /\ r.class = "health_check_timeout" =>
          late /\ Lost("health") /\ r.evidence.status # "error5xx"
    /\ r.evidence.status = "error5xx" /\ ~Lost("start-app") =>
          r.class \in {"health_http_error", "health_candidate_port_mismatch"}
    /\ Accepted(r.evidence) => Lost("start-app")

(* When `up` returns, the process it supervised is gone: stop() ran before  *)
(* the attestation on every path that started one, and waited for 'close'   *)
(* or killed the group (run.ts:601-656, exec.ts:195-203).                   *)
NoLeaderSurvives == pc = "done" => leader # "running"

(* A boot is evidence about what this run started: with no service that     *)
(* comes up meanwhile, none at a URL that only the output advertises, none  *)
(* that is silent at first and no container left from before, the response  *)
(* came from the application or the containers of this run                  *)
(* (run.ts:412-439).                                                        *)
BootedByThisRun == Booted => attestation.evidence.owner \in {"app", "compose"}

(* The exit of the supervised process ends the run by itself: the poll      *)
(* notices it between two requests and does not sit out the timeout         *)
(* (exec.ts:340-371).                                                       *)
ExitConcludes == leader = "exited" ~> pc = "done"

(* docs/HONESTY_CONTRACT.md:27 "Pre-existing responders are refused          *)
(* (`health_preoccupied`)": no boot rests on a URL at which something was   *)
(* already listening when the application was started.                      *)
PreexistingRefused ==
  Booted => attestation.evidence.url \notin occupied

(* Past its timeout the verification of health ends, and with it the run,   *)
(* whatever the processes do: between two requests the poll looks at the    *)
(* clock, and stop() gives up after five seconds.  src/cli.ts:150           *)
(* "--timeout <ms>            health verification timeout (default 60000)". *)
DeadlineHonoured == late ~> pc = "done"
-----------------------------------------------------------------------------
(* The promise this keeps.                                                  *)

Ran == IF HostRan THEN "host"
       ELSE IF Begun("service") THEN "containers" ELSE "nothing"

Supports(e) == Accepted(e) /\ (phase = "app" => e.live)

Verdict == INSTANCE BootVerdict WITH
  consent <- Acknowledged(inp),
  ran     <- Ran,
  heard   <- phase # "preflight" /\ Supports(latest),
  report  <- attestation.result

(* The step loop implements the abstract run: it refuses only before it ran *)
(* anything, runs on the host only with consent, concludes "booted" only    *)
(* while the last response supports it, and concludes once                  *)
(* (run.ts:222-710).                                                        *)
KeepsPromise == Verdict!Spec
=============================================================================
