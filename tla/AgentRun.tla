------------------------------ MODULE AgentRun ------------------------------
(***************************************************************************)
(* The receipt chains under .bootproof/agent-runs (agent-run.ts): several   *)
(* bootproof processes create runs and append to them, each by a sequence   *)
(* of file operations that the others may interleave with and that a crash  *)
(* may cut short, in the middle of a write too.                             *)
(*                                                                         *)
(* The hash of a receipt is a fresh number: different receipts hash         *)
(* differently.  What a receipt says is kept as far as the summary derives  *)
(* something from it.                                                       *)
(***************************************************************************)
EXTENDS Naturals, Sequences, FiniteSets

CONSTANTS
  Procs,        (* the processes                                            *)
  Runs,         (* run ids, in the order of their names                     *)
  Plans,        (* plans: a sequence of candidates each                     *)
  Entries,      (* what an append may record: [kind, says]                  *)
  MaxReceipt,   (* bound: receipts ever written                             *)
  Times,        (* bound: what the clock may show                           *)
  MaxCrash      (* bound: crashes                                           *)

ASSUME RunsAssumption == Runs \subseteq Nat
ASSUME BoundAssumption ==
  MaxReceipt \in Nat /\ Times \subseteq Nat /\ MaxCrash \in Nat

VARIABLES
  made,      (* the run directories that exist                              *)
  files,     (* the receipt files: a set of [run, name, body]               *)
  summary,   (* final-summary.json of each run                              *)
  job,       (* what each process is doing                                  *)
  now,       (* the clock of the machine; it may be set back                *)
  next,      (* the next fresh hash                                         *)
  crashes,
  contended  (* history: runs two processes were at work on at once         *)

vars == <<made, files, summary, job, now, next, crashes, contended>>

-----------------------------------------------------------------------------
NoHash == 0
Outcomes == {"external", "orchestrated", "failed"}

(* approvalStatus; "approved" stands for not_required and declined too,     *)
(* which a summary treats alike.                                            *)
Approvals == {"blocked", "pending", "approved"}

Receipt(h, p, t, k, e) ==
  [hash |-> h, prev |-> p, ts |-> t, kind |-> k, says |-> e]

(* What an action receipt says: the approval and whether it was executed;   *)
(* what a verification says: its outcome.                                   *)
ActionSays(a, x) == [approval |-> a, executed |-> x, outcome |-> "none"]
VerificationSays(o) == [approval |-> "approved", executed |-> FALSE, outcome |-> o]
Nothing == ActionSays("approved", FALSE)

Kinds == {"initial", "plan", "action", "verification"}
Says == [approval : Approvals, executed : BOOLEAN,
         outcome : Outcomes \cup {"none"}]
Receipts == [hash : 1..MaxReceipt, prev : 0..MaxReceipt, ts : Nat,
             kind : Kinds, says : Says]

(* A candidate of a plan: its approval, and whether it asks for one, which  *)
(* one that is blocked for a reason given may do.                           *)
Candidate(a, asks) == [approval |-> a, asks |-> asks]
PlanCandidates ==
  {c \in [approval : Approvals, asks : BOOLEAN] :
     /\ c.approval = "pending" => c.asks
     /\ c.approval = "approved" => ~c.asks}

ASSUME InputAssumption ==
  /\ \A plan \in Plans : plan \in Seq(PlanCandidates)
  /\ \A e \in Entries :
       \/ \E a \in Approvals, x \in BOOLEAN :
            e = [kind |-> "action", says |-> ActionSays(a, x)]
       \/ \E o \in Outcomes :
            e = [kind |-> "verification", says |-> VerificationSays(o)]

TornReceipt == Receipt(1, NoHash, 0, "torn", Nothing)

(* The name of a receipt file; only actions and verifications carry a       *)
(* timestamp and a number in theirs.                                        *)
Name(k, t, n) == [kind |-> k, ts |-> t, n |-> n]
InitialName == Name("initial", 0, 0)
PlanName    == Name("plan", 0, 0)
Names == [kind : Kinds, ts : Nat, n : Nat]

File(r, nm, b) == [run |-> r, name |-> nm, body |-> b]

Statuses == {"planned", "stopped_blocked", "stopped_for_approval",
             "awaiting_verification", "verified_external_health",
             "verified_bootproof_orchestrated", "verification_failed"}
Summaries ==
  [state : {"written"}, last : 1..MaxReceipt, count : Nat, status : Statuses,
   onlyPlanned : BOOLEAN, orchestrated : BOOLEAN, external : BOOLEAN,
   verified : BOOLEAN, forApproval : BOOLEAN, dueBlocked : BOOLEAN]
Missing == [state |-> "missing"]
Torn == [state |-> "torn"]

Idle == [at |-> "idle"]

-----------------------------------------------------------------------------
(* readAgentRun.                                                            *)

FilesOf(r)    == {f \in files : f.run = r}
ReceiptsOf(r) == {f.body : f \in FilesOf(r)}
Exists(r, nm) == \E f \in FilesOf(r) : f.name = nm

Latest(R) == CHOOSE x \in R : \A y \in R : y.ts <= x.ts

(* Sorted by timestamp, every receipt links to the one before it.  Two with *)
(* one timestamp were both written over the same predecessor, so the second *)
(* of them never links, whichever comes first.                              *)
Linked(R) ==
  /\ \A x, y \in R : x.ts = y.ts => x = y
  /\ \A x \in R :
       LET before == {y \in R : y.ts < x.ts} IN
       x.prev = IF before = {} THEN NoHash ELSE Latest(before).hash

Readable(r, s) ==
  /\ s.state = "written"
  /\ Exists(r, InitialName) /\ Exists(r, PlanName)
  /\ TornReceipt \notin ReceiptsOf(r)

(* chainValid, given the summary that was read.                             *)
Valid(r, s) ==
  LET R == ReceiptsOf(r) IN
  /\ Linked(R)
  /\ s.last = Latest(R).hash
  /\ s.count = Cardinality(FilesOf(r))

ChainValid(r) == Readable(r, summary[r]) /\ Valid(r, summary[r])

(* latestAgentRunId: the name decides, not whether the run is complete.     *)
LatestRun == CHOOSE r \in made : \A q \in made : q <= r

Bigger(a, b) == IF a >= b THEN a ELSE b

(* Faulty variant: the clock is trusted.                                    *)
NextTimestampByClock(R) == now

(* nextReceiptTimestamp                                                     *)
NextTimestamp(R) == Bigger(now, Latest(R).ts + 1)

-----------------------------------------------------------------------------
Init ==
  /\ made = {} /\ files = {} /\ summary = [r \in Runs |-> Missing]
  /\ job = [p \in Procs |-> Idle]
  /\ now \in Times /\ next = 1 /\ crashes = 0 /\ contended = {}

WorksOn(p, r) == job[p] # Idle /\ job[p].run = r

Step(p, j) ==
  /\ job' = [job EXCEPT ![p] = j]
  /\ contended' = contended \cup
       {r \in Runs : j # Idle /\ j.run = r /\ \E q \in Procs \ {p} : WorksOn(q, r)}

(* Writing over an existing file replaces it.                               *)
Put(r, nm, b) ==
  files' = {f \in files : ~(f.run = r /\ f.name = nm)} \cup {File(r, nm, b)}

-----------------------------------------------------------------------------
(* createAgentRun                                                           *)

(* Faulty variant: an existing directory is used again.                     *)
CreateRunAgain(p, r, plan) ==
  /\ job[p] = Idle
  /\ next + 1 + Len(plan) <= MaxReceipt
  /\ made' = made \cup {r}
  /\ Step(p, [at |-> "creating", run |-> r, plan |-> plan, created |-> now,
              written |-> 0, last |-> NoHash])
  /\ UNCHANGED <<files, summary, now, next, crashes>>

(* A run id starts with the creation time and ends in a fingerprint: with   *)
(* a clock that may be set back, a new run can sort anywhere.               *)
CreateRun(p, r, plan) ==
  /\ job[p] = Idle /\ r \notin made
  /\ next + 1 + Len(plan) <= MaxReceipt
  /\ made' = made \cup {r}
  /\ Step(p, [at |-> "creating", run |-> r, plan |-> plan, created |-> now,
              written |-> 0, last |-> NoHash])
  /\ UNCHANGED <<files, summary, now, next, crashes>>

(* The initial receipt, the plan and one receipt for each candidate, a      *)
(* millisecond apart by construction.                                       *)
CreationReceipt(j, h) ==
  LET k == j.written IN
  Receipt(h, j.last, j.created + k,
          IF k = 0 THEN "initial" ELSE IF k = 1 THEN "plan" ELSE "action",
          IF k < 2 THEN Nothing ELSE ActionSays(j.plan[k - 1].approval, FALSE))

CreationName(j) ==
  LET k == j.written IN
  IF k = 0 THEN InitialName
  ELSE IF k = 1 THEN PlanName
  ELSE Name("action", j.created + k, k - 1)

Creating(p) == job[p].at = "creating"
Planned(j) == 2 + Len(j.plan)

WriteCreationReceipt(p) ==
  LET j == job[p] IN
  /\ Creating(p) /\ j.written < Planned(j) /\ next <= MaxReceipt
  /\ Put(j.run, CreationName(j), CreationReceipt(j, next))
  /\ next' = next + 1
  /\ Step(p, [j EXCEPT !.written = @ + 1, !.last = next])
  /\ UNCHANGED <<made, summary, now, crashes>>

(* planningStatus: a blocked candidate outranks a pending one.              *)
PlanBlocked(plan) == \E k \in DOMAIN plan : plan[k].approval = "blocked"
PlanPending(plan) == \E k \in DOMAIN plan : plan[k].asks

WriteCreationSummary(p) ==
  LET j == job[p] IN
  /\ Creating(p) /\ j.written = Planned(j)
  /\ summary' = [summary EXCEPT ![j.run] =
       [state |-> "written", last |-> j.last, count |-> j.written,
        status |-> IF PlanBlocked(j.plan) THEN "stopped_blocked"
                   ELSE IF PlanPending(j.plan) THEN "stopped_for_approval"
                   ELSE "planned",
        onlyPlanned |-> TRUE, orchestrated |-> FALSE, external |-> FALSE,
        verified |-> FALSE, forApproval |-> PlanPending(j.plan),
        dueBlocked |-> PlanBlocked(j.plan)]]
  /\ Step(p, Idle)
  /\ UNCHANGED <<made, files, now, next, crashes>>

-----------------------------------------------------------------------------
(* appendAgentActionReceipt and appendAgentVerification.                    *)

(* The command line appends to the latest run and does nothing without one; *)
(* an action is appended to a run its caller names.                         *)
StartAppend(p, r, kind, says) ==
  /\ job[p] = Idle /\ r \in made
  /\ kind = "verification" => r = LatestRun
  /\ Step(p, [at |-> "opening", run |-> r, kind |-> kind, says |-> says])
  /\ UNCHANGED <<made, files, summary, now, next, crashes>>

At(p, where) == job[p].at = where

(* A missing or torn summary throws.                                        *)
ReadSummary(p) ==
  LET j == job[p]
      s == summary[j.run]
  IN
  /\ At(p, "opening")
  /\ Step(p, IF s.state # "written" THEN Idle
             ELSE [at |-> "reading", run |-> j.run, kind |-> j.kind,
                   says |-> j.says, read |-> s])
  /\ UNCHANGED <<made, files, summary, now, next, crashes>>

ActionNumber(R) == Cardinality({x \in R : x.kind = "action"}) + 1

(* A missing or torn receipt throws, and so does a chain that is not valid. *)
ReadReceiptsThrows(p) ==
  LET j == job[p] IN
  /\ At(p, "reading")
  /\ ~(Readable(j.run, j.read) /\ Valid(j.run, j.read))
  /\ Step(p, Idle)
  /\ UNCHANGED <<made, files, summary, now, next, crashes>>

(* Faulty variant: the validity of the chain is not asked for.              *)
ReadReceiptsUnchecked(p) ==
  LET j == job[p]
      R == ReceiptsOf(j.run)
      n == IF j.kind = "action" THEN ActionNumber(R) ELSE 0
  IN
  /\ At(p, "reading") /\ Readable(j.run, j.read) /\ next <= MaxReceipt
  /\ next' = next + 1
  /\ Step(p, [at |-> "naming", run |-> j.run, read |-> j.read,
              receipt |-> Receipt(next, j.read.last, NextTimestamp(R), j.kind,
                                  j.says),
              name |-> Name(j.kind, NextTimestamp(R), n)])
  /\ UNCHANGED <<made, files, summary, now, crashes>>

(* The receipt is drafted over the summary that was read, one write before  *)
(* the receipts were.                                                       *)
ReadReceipts(p) ==
  LET j == job[p]
      R == ReceiptsOf(j.run)
      t == NextTimestamp(R)
      n == IF j.kind = "action" THEN ActionNumber(R) ELSE 0
  IN
  /\ At(p, "reading")
  /\ Readable(j.run, j.read) /\ Valid(j.run, j.read)
  /\ next <= MaxReceipt
  /\ next' = next + 1
  /\ Step(p, [at |-> "naming", run |-> j.run, read |-> j.read,
              receipt |-> Receipt(next, j.read.last, t, j.kind, j.says),
              name |-> Name(j.kind, t, n)])
  /\ UNCHANGED <<made, files, summary, now, crashes>>

(* A verification takes the first suffix that no file has yet; an action    *)
(* takes the name it computed.                                              *)
ChooseName(p) ==
  LET j == job[p]
      free == {n \in 0..Cardinality(FilesOf(j.run)) :
                 ~Exists(j.run, Name("verification", j.name.ts, n))}
      first == CHOOSE n \in free : \A m \in free : n <= m
  IN
  /\ At(p, "naming")
  /\ Step(p, [j EXCEPT !.at = "writing",
              !.name.n = IF j.name.kind = "action" THEN @ ELSE first])
  /\ UNCHANGED <<made, files, summary, now, next, crashes>>

WriteReceipt(p) ==
  LET j == job[p] IN
  /\ At(p, "writing")
  /\ Put(j.run, j.name, j.receipt)
  /\ Step(p, [at |-> "summarising", run |-> j.run, read |-> j.read,
              receipt |-> j.receipt])
  /\ UNCHANGED <<made, summary, now, next, crashes>>

(* Faulty variant: the approval is stored as the status.                    *)
ActionStatusByApproval(s, e) == e.approval

ActionStatus(s, e) ==
  CASE e.approval = "blocked" -> "stopped_blocked"
    [] e.approval = "pending" -> "stopped_for_approval"
    [] e.approval = "approved" /\ e.executed -> "awaiting_verification"
    [] OTHER -> s.status

(* Faulty variant: an action leaves the verdict of the run as it was.       *)
AfterActionStillVerified(s, e) ==
  [s EXCEPT !.status = ActionStatus(s, e),
            !.onlyPlanned = @ /\ ~e.executed,
            !.forApproval = e.approval = "pending",
            !.dueBlocked = e.approval = "blocked"]

(* The ownership flags of an earlier verification stay.                     *)
AfterAction(s, e) ==
  [s EXCEPT !.status = ActionStatus(s, e),
            !.onlyPlanned = @ /\ ~e.executed,
            !.forApproval = e.approval = "pending",
            !.dueBlocked = e.approval = "blocked",
            !.verified = FALSE]

AfterVerification(s, e) ==
  LET ok == e.outcome # "failed" IN
  [s EXCEPT !.status = CASE e.outcome = "external" -> "verified_external_health"
                         [] e.outcome = "orchestrated" ->
                              "verified_bootproof_orchestrated"
                         [] OTHER -> "verification_failed",
            !.orchestrated = e.outcome = "orchestrated",
            !.external = e.outcome = "external",
            !.onlyPlanned = FALSE,
            !.forApproval = @ /\ ~ok,
            !.dueBlocked = @ /\ ~ok,
            !.verified = ok]

WriteSummary(p) ==
  LET j == job[p]
      e == j.receipt.says
      s == IF j.receipt.kind = "action" THEN AfterAction(j.read, e)
                                        ELSE AfterVerification(j.read, e)
  IN
  /\ At(p, "summarising")
  /\ summary' = [summary EXCEPT ![j.run] =
                   [s EXCEPT !.last = j.receipt.hash, !.count = @ + 1]]
  /\ Step(p, Idle)
  /\ UNCHANGED <<made, files, now, next, crashes>>

-----------------------------------------------------------------------------
(* The environment.                                                         *)

(* A process dies between two file operations.                              *)
Crash(p) ==
  /\ job[p] # Idle /\ crashes < MaxCrash
  /\ crashes' = crashes + 1
  /\ Step(p, Idle)
  /\ UNCHANGED <<made, files, summary, now, next>>

(* It dies inside writeFileSync, which truncates the file before it writes. *)
(* (A reader that meets the file half written by a live process fails as it *)
(* does here, and retries nothing.)                                         *)
CrashInReceipt(p) ==
  LET j == job[p] IN
  /\ crashes < MaxCrash
  /\ \/ /\ At(p, "writing")
        /\ Put(j.run, j.name, TornReceipt)
     \/ /\ Creating(p) /\ j.written < Planned(j)
        /\ Put(j.run, CreationName(j), TornReceipt)
  /\ crashes' = crashes + 1
  /\ Step(p, Idle)
  /\ UNCHANGED <<made, summary, now, next>>

CrashInSummary(p) ==
  LET j == job[p] IN
  /\ crashes < MaxCrash
  /\ At(p, "summarising") \/ (Creating(p) /\ j.written = Planned(j))
  /\ summary' = [summary EXCEPT ![j.run] = Torn]
  /\ crashes' = crashes + 1
  /\ Step(p, Idle)
  /\ UNCHANGED <<made, files, now, next>>

(* The clock advances, or somebody sets it.                                 *)
Clock ==
  /\ now' \in Times \ {now}
  /\ UNCHANGED <<made, files, summary, job, next, crashes, contended>>

Create(p) == \E r \in Runs, plan \in Plans : CreateRun(p, r, plan)

Extend(p) ==
  \E r \in Runs, e \in Entries : StartAppend(p, r, e.kind, e.says)

Next ==
  \/ \E p \in Procs :
       \/ Create(p) \/ WriteCreationReceipt(p) \/ WriteCreationSummary(p)
       \/ Extend(p) \/ ReadSummary(p) \/ ReadReceiptsThrows(p)
       \/ ReadReceipts(p) \/ ChooseName(p) \/ WriteReceipt(p)
       \/ WriteSummary(p)
       \/ Crash(p) \/ CrashInReceipt(p) \/ CrashInSummary(p)
  \/ Clock

Spec == Init /\ [][Next]_vars

-----------------------------------------------------------------------------
(* What every reader of a run relies on.                                    *)

(* The files, the summaries and the hashes are of their kinds, and a        *)
(* summary exists for made runs only.                                       *)
TypeOK ==
  /\ made \subseteq Runs
  /\ files \subseteq [run : made, name : Names, body : Receipts \cup {TornReceipt}]
  /\ summary \in [Runs -> Summaries \cup {Missing, Torn}]
  /\ \A r \in Runs \ made : summary[r] = Missing
  /\ DOMAIN job = Procs
  /\ now \in Times /\ next \in 1..MaxReceipt + 1 /\ crashes \in 0..MaxCrash

(* While the chain of a run is valid its summary tells the truth about it,  *)
(* whatever processes appended at once and wherever one died: it says       *)
(* verified exactly when the last receipt is a verification that succeeded, *)
(* names the ownership of that verification, and says only planned exactly  *)
(* when no receipt records an execution or a verification                   *)
(* (agent-run.ts:500-533, 575-613).                                         *)
SummaryTruthful ==
  \A r \in made : ChainValid(r) =>
    LET R == ReceiptsOf(r)
        e == Latest(R)
        s == summary[r]
        success == e.kind = "verification" /\ e.says.outcome # "failed"
    IN
    /\ s.verified <=> success
    /\ success => s.external = (e.says.outcome = "external")
                   /\ s.orchestrated = (e.says.outcome = "orchestrated")
    /\ s.onlyPlanned <=>
         \A x \in R : x.kind # "verification" /\ ~x.says.executed

(* Without a crash, a run that no two processes were at work on at once has *)
(* a valid chain whenever nobody is at work on it, however the clock is     *)
(* set: nextReceiptTimestamp keeps the receipts in the order in which they  *)
(* were linked (agent-run.ts:394-402).                                      *)
IdleChainValid ==
  crashes = 0 =>
    \A r \in made \ contended : (\A p \in Procs : ~WorksOn(p, r)) => ChainValid(r)

(* Nor does anything replace a complete receipt there, also where a process *)
(* dies: "Each immutable receipt contains its own SHA-256 hash and the      *)
(* previous receipt hash" (docs/AGENT_RUN_RECEIPTS.md:14).                  *)
ImmutableReceipts ==
  [][{f \in files : f.body # TornReceipt /\ f.run \notin contended'}
       \subseteq files']_vars

(* A run whose chain is broken (a creation or an append was cut short, or   *)
(* two appends forked it) and over which no append is under way: none has   *)
(* passed the check of the chain and none holds a summary that has been     *)
(* replaced since.  An append that does hold one may pass the check after   *)
(* the chain broke, for it judges the summary it read.                      *)
UnderWay(p, r) ==
  LET j == job[p] IN
  /\ j.at \notin {"idle", "opening"} /\ j.run = r
  /\ j.at = "reading" => j.read # summary[r]
Broken(r) ==
  r \in made /\ ~ChainValid(r) /\ \A p \in Procs : ~UnderWay(p, r)

(* A broken run stays broken, with all of its evidence: nothing adds to it, *)
(* repairs it or makes it look valid (agent-run.ts:469, 544).               *)
BrokenIsFrozen ==
  [][\A r \in made : Broken(r) =>
       Broken(r)' /\ FilesOf(r)' = FilesOf(r) /\ summary'[r] = summary[r]]_vars
=============================================================================
