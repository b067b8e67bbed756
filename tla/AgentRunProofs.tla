--------------------------- MODULE AgentRunProofs ---------------------------
(* Proofs of the safety properties of AgentRun, for any processes, runs,    *)
(* plans, entries and clock.                                                *)
EXTENDS AgentRun, FiniteSetTheorems, WellFoundedInduction, TLAPS

-----------------------------------------------------------------------------
(* The least number of a set, the greatest of a bounded one, and the latest *)
(* of a set of receipts.                                                    *)

LEMMA LeastExists ==
  ASSUME NEW S \in SUBSET Nat, S # {}
  PROVE  \E n \in S : \A m \in S : n <= m
<1>1. PICK n \in S : \A m \in S : ~ (<<m, n>> \in OpToRel(<, Nat))
  BY WFMin, NatLessThanWellFounded
<1>2. \A m \in S : ~ (m < n)
  BY <1>1 DEF OpToRel
<1> QED  BY <1>2

LEMMA GreatestExists ==
  ASSUME NEW S \in SUBSET Nat, S # {}, NEW b \in Nat, \A n \in S : n <= b
  PROVE  \E n \in S : \A m \in S : m <= n
<1> DEFINE Bounds == {c \in Nat : \A n \in S : n <= c}
<1>1. PICK c \in Bounds : \A d \in Bounds : c <= d
  BY LeastExists
<1>2. CASE c \in S
  BY <1>1, <1>2
<1>3. CASE c \notin S
  <2>1. \A n \in S : n < c
    BY <1>1, <1>3
  <2>2. c > 0
    <3>1. PICK n \in S : TRUE
      OBVIOUS
    <3> QED  BY <1>1, <2>1, <3>1
  <2>3. c - 1 \in Bounds
    BY <1>1, <2>1, <2>2
  <2>4. c <= c - 1
    <3> HIDE DEF Bounds
    <3> QED  BY <1>1, <2>3
  <2> QED  BY <1>1, <2>4
<1> QED  BY <1>2, <1>3

(* What Latest chooses from a set of receipts whose timestamps are bounded. *)
LEMMA LatestExists ==
  ASSUME NEW R, R # {}, \A x \in R : x.ts \in Nat,
         NEW b \in Nat, \A x \in R : x.ts <= b
  PROVE  /\ Latest(R) \in R
         /\ \A y \in R : y.ts <= Latest(R).ts
<1> DEFINE Stamps == {x.ts : x \in R}
<1>1. PICK t \in Stamps : \A u \in Stamps : u <= t
  <2>1. Stamps \in SUBSET Nat /\ Stamps # {} /\ \A u \in Stamps : u <= b
    OBVIOUS
  <2> HIDE DEF Stamps
  <2> QED  BY <2>1, GreatestExists
<1>2. \E x \in R : \A y \in R : y.ts <= x.ts
  BY <1>1
<1> QED  BY <1>2 DEF Latest

(* Where no two receipts have one timestamp, the latest is the one that no  *)
(* other is later than.                                                     *)
LEMMA LatestIs ==
  ASSUME NEW R, \A x \in R : x.ts \in Nat, \A x, y \in R : x.ts = y.ts => x = y,
         NEW x \in R, \A y \in R : y.ts <= x.ts
  PROVE  Latest(R) = x
<1>1. /\ Latest(R) \in R
      /\ \A y \in R : y.ts <= Latest(R).ts
  BY DEF Latest
<1> QED  BY <1>1

-----------------------------------------------------------------------------
(* What each process is doing.                                              *)

Parts == {"action", "verification"}

CreatingJobs ==
  [at : {"creating"}, run : Runs, plan : Plans, created : Nat, written : Nat,
   last : 0..MaxReceipt]
OpeningJobs == [at : {"opening"}, run : Runs, kind : Parts, says : Says]
ReadingJobs ==
  [at : {"reading"}, run : Runs, kind : Parts, says : Says, read : Summaries]
DraftingJobs ==
  [at : {"naming", "writing"}, run : Runs, read : Summaries,
   receipt : Receipts, name : Names]
ClosingJobs ==
  [at : {"summarising"}, run : Runs, read : Summaries, receipt : Receipts]

Drafting(j) == j.at \in {"naming", "writing"}
Closing(j)  == j.at = "summarising"

(* A creation holds the hash of the last receipt it wrote; an append holds  *)
(* a receipt that links to the summary it read, under a name of the         *)
(* receipt's own kind and timestamp.                                        *)
CreatingOK(j) ==
  j \in CreatingJobs /\ j.written <= Planned(j) /\ (j.last = NoHash <=> j.written = 0)
DraftingOK(j) ==
  /\ j \in DraftingJobs
  /\ j.receipt.kind \in Parts /\ j.receipt.prev = j.read.last
  /\ j.name.kind = j.receipt.kind /\ j.name.ts = j.receipt.ts /\ j.name.ts > 0
ClosingOK(j) ==
  j \in ClosingJobs /\ j.receipt.kind \in Parts /\ j.receipt.prev = j.read.last

JobOK(j) ==
  \/ j = Idle
  \/ CreatingOK(j)
  \/ j \in OpeningJobs
  \/ j \in ReadingJobs
  \/ DraftingOK(j)
  \/ ClosingOK(j)

(* Nobody works on a run whose directory does not exist.                    *)
JobsOK ==
  /\ DOMAIN job = Procs
  /\ \A p \in Procs : JobOK(job[p])
  /\ \A p \in Procs : job[p] # Idle => job[p].run \in made

(* No two files of a run have one name, a name that has a timestamp has     *)
(* that of the receipt, and timestamps are bounded, so that a set of        *)
(* receipts that is not empty has a latest.                                 *)
FileOK(f) == f.body # TornReceipt => f.name.ts \in {0, f.body.ts}
Bounded == \E b \in Nat : \A f \in files : f.body.ts <= b
FilesOK ==
  /\ IsFiniteSet(files)
  /\ \A f \in files : FileOK(f)
  /\ \A f, g \in files : f.run = g.run /\ f.name = g.name => f = g
  /\ Bounded

TypeInv == TypeOK /\ JobsOK /\ FilesOK

-----------------------------------------------------------------------------
(* The files of a run.                                                      *)

Bodies == Receipts \cup {TornReceipt}
FileType == [run : made, name : Names, body : Bodies]

LEMMA BodyFacts ==
  /\ TornReceipt \notin Receipts
  /\ \A b \in Bodies : b.ts \in Nat
  /\ \A b \in Bodies : b # TornReceipt => b \in Receipts
<1>1. TornReceipt.kind = "torn" /\ TornReceipt.ts = 0
  BY DEF TornReceipt, Receipt
<1>2. \A b \in Receipts : b.kind # "torn" /\ b.ts \in Nat
  BY DEF Receipts, Kinds
<1> QED  BY <1>1, <1>2 DEF Bodies

LEMMA FilesTyped ==
  ASSUME TypeOK
  PROVE  /\ files \subseteq FileType
         /\ \A r \in Runs : \A x \in ReceiptsOf(r) : x \in Bodies /\ x.ts \in Nat
         /\ \A f \in files : f.run \in made /\ f.name \in Names /\ f.body \in Bodies
<1>1. files \subseteq FileType
  BY DEF TypeOK, FileType, Bodies
<1>2. \A f \in files : f.run \in made /\ f.name \in Names /\ f.body \in Bodies
  BY <1>1 DEF FileType
<1> QED  BY <1>1, <1>2, BodyFacts DEF ReceiptsOf, FilesOf

(* Of the receipts of a run, any that exist have a latest.                  *)
LEMMA LatestOf ==
  ASSUME TypeInv, NEW r \in Runs, NEW C \in SUBSET ReceiptsOf(r), C # {}
  PROVE  /\ Latest(C) \in C
         /\ \A y \in C : y.ts <= Latest(C).ts
<1>1. PICK b \in Nat : \A f \in files : f.body.ts <= b
  BY DEF TypeInv, FilesOK, Bounded
<1>2. \A x \in C : x.ts \in Nat /\ x.ts <= b
  BY <1>1, FilesTyped DEF TypeInv, ReceiptsOf, FilesOf
<1> QED  BY <1>2, LatestExists

LEMMA FilesFinite ==
  ASSUME FilesOK, NEW r
  PROVE  IsFiniteSet(FilesOf(r)) /\ Cardinality(FilesOf(r)) \in Nat
<1>1. FilesOf(r) \in SUBSET files
  BY DEF FilesOf
<1> QED  BY <1>1, FS_Subset, FS_CardinalityType DEF FilesOK

-----------------------------------------------------------------------------
(* What a step shares with the others.                                      *)

LEMMA StepJob ==
  ASSUME JobsOK, NEW p \in Procs, NEW j, Step(p, j)
  PROVE  /\ DOMAIN job' = Procs
         /\ job'[p] = j
         /\ \A q \in Procs \ {p} : job'[q] = job[q]
BY DEF JobsOK, Step

LEMMA StepKeepsJobsOK ==
  ASSUME JobsOK, NEW p \in Procs, NEW j, Step(p, j), JobOK(j),
         made \subseteq made', j # Idle => j.run \in made'
  PROVE  JobsOK'
<1>1. DOMAIN job' = Procs /\ job'[p] = j /\ \A q \in Procs \ {p} : job'[q] = job[q]
  BY StepJob
<1>2. ASSUME NEW q \in Procs
      PROVE  JobOK(job'[q]) /\ (job'[q] # Idle => job'[q].run \in made')
  <2> HIDE DEF JobOK
  <2>1. CASE q = p
    BY <1>1, <2>1
  <2>2. CASE q # p
    BY <1>1, <2>2 DEF JobsOK
  <2> QED  BY <2>1, <2>2
<1> HIDE DEF JobOK
<1> QED  BY <1>1, <1>2 DEF JobsOK

(* A process at work works on a run that exists.                            *)
LEMMA RunOfJob ==
  ASSUME TypeInv, NEW p \in Procs, job[p] # Idle
  PROVE  job[p].run \in made /\ job[p].run \in Runs
BY DEF TypeInv, JobsOK, TypeOK

(* One job at a time, by where it is.                                       *)
LEMMA JobAt ==
  ASSUME TypeInv, NEW p \in Procs
  PROVE  /\ Creating(p) => CreatingOK(job[p])
         /\ At(p, "opening") => job[p] \in OpeningJobs
         /\ At(p, "reading") => job[p] \in ReadingJobs
         /\ Drafting(job[p]) => DraftingOK(job[p])
         /\ Closing(job[p]) => ClosingOK(job[p])
         /\ At(p, "idle") <=> job[p] = Idle
         /\ job[p].at \in {"idle", "creating", "opening", "reading", "naming",
                            "writing", "summarising"}
<1>1. Idle.at = "idle"
  BY DEF Idle
<1>2. JobOK(job[p])
  BY DEF TypeInv, JobsOK
<1> QED
  BY <1>1, <1>2
  DEF JobOK, Creating, At, Drafting, Closing, CreatingOK, DraftingOK, ClosingOK,
      CreatingJobs, OpeningJobs, ReadingJobs, DraftingJobs, ClosingJobs

(* A file put in its place.                                                 *)
LEMMA PutFiles ==
  ASSUME TypeInv, NEW r \in made, NEW nm \in Names, NEW b \in Bodies,
         Put(r, nm, b), UNCHANGED made
  PROVE  /\ files' \subseteq FileType'
         /\ IsFiniteSet(files')
         /\ \A f, g \in files' : f.run = g.run /\ f.name = g.name => f = g
         /\ Bounded'
         /\ \A f \in files' : f \in files \/ f = File(r, nm, b)
<1> DEFINE new  == File(r, nm, b)
           kept == {f \in files : ~(f.run = r /\ f.name = nm)}
<1>1. files' = kept \cup {new}
  BY DEF Put
<1>2. new.run = r /\ new.name = nm /\ new.body = b /\ new \in FileType
  BY DEF File, FileType
<1>3. files' \subseteq FileType'
  <2>1. kept \subseteq FileType
    BY FilesTyped DEF TypeInv
  <2>2. FileType' = FileType
    BY DEF FileType
  <2> QED  BY <1>1, <1>2, <2>1, <2>2
<1>4. IsFiniteSet(files')
  <2>1. IsFiniteSet(kept)
    BY FS_Subset DEF TypeInv, FilesOK
  <2> HIDE DEF kept, new
  <2> QED  BY <1>1, <2>1, FS_AddElement
<1>5. \A f, g \in files' : f.run = g.run /\ f.name = g.name => f = g
  <2>1. \A f, g \in kept : f.run = g.run /\ f.name = g.name => f = g
    BY DEF TypeInv, FilesOK
  <2>2. \A f \in kept : ~(f.run = new.run /\ f.name = new.name)
    BY <1>2
  <2> HIDE DEF kept, new
  <2> QED  BY <1>1, <2>1, <2>2
<1>6. Bounded'
  <2>1. PICK c \in Nat : \A f \in files : f.body.ts <= c
    BY DEF TypeInv, FilesOK, Bounded
  <2>2. b.ts \in Nat
    BY BodyFacts
  <2>3. PICK d \in Nat : c <= d /\ b.ts <= d
    <3>1. CASE c <= b.ts
      BY <2>2, <3>1
    <3>2. CASE ~(c <= b.ts)
      BY <2>2, <3>2
    <3> QED  BY <3>1, <3>2
  <2>4. \A f \in files : f.body.ts \in Nat
    BY FilesTyped, BodyFacts DEF TypeInv
  <2>5. \A f \in files' : f.body.ts <= d
    BY <1>1, <1>2, <2>1, <2>3, <2>4
  <2> QED  BY <2>5 DEF Bounded
<1> QED  BY <1>1, <1>3, <1>4, <1>5, <1>6

(* What a step without a new file keeps of them.                            *)
LEMMA SameFiles ==
  ASSUME TypeInv, UNCHANGED files, made \subseteq made'
  PROVE  files' \subseteq FileType' /\ FilesOK'
<1>1. files' \subseteq FileType'
  BY FilesTyped DEF TypeInv, FileType
<1>2. Bounded'
  BY DEF TypeInv, FilesOK, Bounded
<1> QED  BY <1>1, <1>2 DEF TypeInv, FilesOK

LEMMA PutFilesOK ==
  ASSUME TypeInv, NEW r \in made, NEW nm \in Names, NEW b \in Bodies,
         Put(r, nm, b), UNCHANGED made, FileOK(File(r, nm, b))
  PROVE  files' \subseteq FileType' /\ FilesOK'
<1>1. \A f \in files : FileOK(f)
  BY DEF TypeInv, FilesOK
<1>2. /\ files' \subseteq FileType'
      /\ IsFiniteSet(files')
      /\ \A f, g \in files' : f.run = g.run /\ f.name = g.name => f = g
      /\ Bounded'
      /\ \A f \in files' : f \in files \/ f = File(r, nm, b)
  BY PutFiles
<1>3. \A f \in files' : FileOK(f)
  <2> HIDE DEF FileOK
  <2> QED  BY <1>1, <1>2
<1> QED  BY <1>2, <1>3 DEF FilesOK

-----------------------------------------------------------------------------
(* Every value is of its kind.                                              *)

LEMMA SummaryAfterIsTyped ==
  ASSUME NEW s \in Summaries, NEW e \in Receipts, e.kind \in Parts
  PROVE  LET t == IF e.kind = "action" THEN AfterAction(s, e.says)
                                       ELSE AfterVerification(s, e.says)
         IN  [t EXCEPT !.last = e.hash, !.count = @ + 1] \in Summaries
<1>1. e.says \in Says /\ e.hash \in 1..MaxReceipt
  BY DEF Receipts
<1>2. e.says.approval \in Approvals /\ e.says.executed \in BOOLEAN
  BY <1>1 DEF Says
<1>3. ActionStatus(s, e.says) \in Statuses
  BY <1>2 DEF ActionStatus, Statuses, Approvals, Summaries
<1>4. AfterAction(s, e.says) \in Summaries
  BY <1>2, <1>3 DEF AfterAction, Summaries
<1>5. AfterVerification(s, e.says) \in Summaries
  BY DEF AfterVerification, Summaries, Statuses
<1>6. \A t \in Summaries : [t EXCEPT !.last = e.hash, !.count = @ + 1] \in Summaries
  <2>1. \A t \in Summaries, n \in Nat : [t EXCEPT !.last = e.hash, !.count = n] \in Summaries
    BY <1>1 DEF Summaries
  <2>2. \A t \in Summaries : t.count + 1 \in Nat
    BY DEF Summaries
  <2> QED  BY <2>1, <2>2
<1> QED  BY <1>4, <1>5, <1>6

(* What the summary after an append says.                                   *)
LEMMA SummaryAfterSays ==
  ASSUME NEW s \in Summaries, NEW e \in Receipts
  PROVE  LET t == IF e.kind = "action" THEN AfterAction(s, e.says)
                                       ELSE AfterVerification(s, e.says)
             u == [t EXCEPT !.last = e.hash, !.count = @ + 1]
         IN
         /\ u.state = "written" /\ u.last = e.hash /\ u.count = s.count + 1
         /\ e.kind = "action" =>
              u.verified = FALSE /\ u.onlyPlanned = (s.onlyPlanned /\ ~e.says.executed)
         /\ e.kind # "action" =>
              /\ u.verified = (e.says.outcome # "failed") /\ u.onlyPlanned = FALSE
              /\ u.external = (e.says.outcome = "external")
              /\ u.orchestrated = (e.says.outcome = "orchestrated")
<1>1. CASE e.kind = "action"
  <2>1. PICK st : st = ActionStatus(s, e.says)
    OBVIOUS
  <2>2. AfterAction(s, e.says) =
          [s EXCEPT !.status = st, !.onlyPlanned = @ /\ ~e.says.executed,
                    !.forApproval = e.says.approval = "pending",
                    !.dueBlocked = e.says.approval = "blocked", !.verified = FALSE]
    BY <2>1 DEF AfterAction
  <2> QED  BY <1>1, <2>2 DEF Summaries
<1>2. CASE e.kind # "action"
  BY <1>2 DEF AfterVerification, Summaries
<1> QED  BY <1>1, <1>2

LEMMA PlanTyped ==
  ASSUME NEW plan \in Plans
  PROVE  /\ Len(plan) \in Nat
         /\ plan \in Seq(PlanCandidates)
         /\ \A k \in 1..Len(plan) : plan[k].approval \in Approvals
BY InputAssumption DEF PlanCandidates

LEMMA CreationReceiptTyped ==
  ASSUME NEW j, CreatingOK(j), j.written < Planned(j), NEW h \in 1..MaxReceipt
  PROVE  /\ CreationReceipt(j, h) \in Receipts
         /\ CreationName(j) \in Names
         /\ CreationReceipt(j, h).hash = h /\ CreationReceipt(j, h).prev = j.last
         /\ CreationReceipt(j, h).ts = j.created + j.written
         /\ CreationReceipt(j, h).kind \notin {"verification", "torn"}
         /\ CreationReceipt(j, h).says = ActionSays(CreationReceipt(j, h).says.approval, FALSE)
         /\ CreationName(j).ts \in {0, CreationReceipt(j, h).ts}
<1> DEFINE k == j.written
           a == IF k < 2 THEN "approved" ELSE j.plan[k - 1].approval
           kind == IF k = 0 THEN "initial" ELSE IF k = 1 THEN "plan" ELSE "action"
           says == ActionSays(a, FALSE)
           t == j.created + k
<1>1. /\ j.plan \in Plans /\ j.created \in Nat /\ k \in Nat /\ j.last \in 0..MaxReceipt
      /\ k < 2 + Len(j.plan)
  BY DEF CreatingOK, CreatingJobs, Planned
<1>2. a \in Approvals
  <2>1. CASE k < 2
    BY <2>1 DEF Approvals
  <2>2. CASE ~(k < 2)
    <3>1. k - 1 \in 1..Len(j.plan)
      BY <1>1, <2>2, PlanTyped
    <3> QED  BY <1>1, <2>2, <3>1, PlanTyped
  <2> QED  BY <2>1, <2>2
<1>3. CreationReceipt(j, h) =
        [hash |-> h, prev |-> j.last, ts |-> t, kind |-> kind, says |-> says]
  BY DEF CreationReceipt, Receipt, Nothing
<1>4. kind \in Kinds /\ kind \notin {"verification", "torn"}
  BY DEF Kinds
<1>5. says \in Says /\ says.approval = a /\ says = ActionSays(says.approval, FALSE)
  BY <1>2 DEF ActionSays, Says
<1>6. t \in Nat
  BY <1>1
<1>7. CreationName(j) \in Names /\ CreationName(j).ts \in {0, t}
  BY <1>1 DEF CreationName, InitialName, PlanName, Name, Names, Kinds
<1> DEFINE b == CreationReceipt(j, h)
<1> HIDE DEF a, kind, says, t, b
<1>8. b = [hash |-> h, prev |-> j.last, ts |-> t, kind |-> kind, says |-> says]
  BY <1>3 DEF b
<1>9. b \in Receipts
  BY <1>1, <1>4, <1>5, <1>6, <1>8 DEF Receipts
<1>10. /\ b.hash = h /\ b.prev = j.last /\ b.ts = t /\ b.kind = kind /\ b.says = says
  BY <1>8
<1> QED  BY <1>4, <1>5, <1>7, <1>9, <1>10 DEF b, t

LEMMA SameTypes ==
  ASSUME TypeInv, JobsOK', UNCHANGED <<made, files, summary>>,
         now' \in Times, next' \in 1..MaxReceipt + 1, crashes' \in 0..MaxCrash
  PROVE  TypeInv'
<1>2. FilesOK' /\ files' \subseteq FileType'
  BY SameFiles
<1>3. TypeOK'
  BY <1>2 DEF TypeInv, TypeOK, JobsOK, FileType, Bodies
<1> QED  BY <1>2, <1>3 DEF TypeInv

LEMMA IdleJob == JobOK(Idle)
BY DEF JobOK

LEMMA EndsIdle ==
  ASSUME TypeInv, NEW p \in Procs, Step(p, Idle), made \subseteq made'
  PROVE  JobsOK'
BY IdleJob, StepKeepsJobsOK DEF TypeInv

LEMMA TypeInit == Init => TypeInv
<1> SUFFICES ASSUME Init PROVE TypeInv
  OBVIOUS
<1>1. TypeOK
  BY BoundAssumption DEF Init, TypeOK
<1>2. JobsOK
  BY IdleJob DEF Init, JobsOK
<1>3. FilesOK
  BY FS_EmptySet DEF Init, FilesOK, Bounded
<1> QED  BY <1>1, <1>2, <1>3 DEF TypeInv

LEMMA TypeCreateRun ==
  ASSUME TypeInv, NEW p \in Procs, NEW r \in Runs, NEW plan \in Plans,
         CreateRun(p, r, plan)
  PROVE  TypeInv'
<1> DEFINE j == [at |-> "creating", run |-> r, plan |-> plan, created |-> now,
                 written |-> 0, last |-> NoHash]
<1>1. j.run = r /\ JobOK(j)
  <2>1. now \in Nat /\ Len(plan) \in Nat
    BY PlanTyped, BoundAssumption DEF TypeInv, TypeOK
  <2>2. CreatingOK(j)
    BY <2>1, BoundAssumption DEF CreatingOK, CreatingJobs, NoHash, Planned
  <2> QED  BY <2>2 DEF JobOK
<1>2. Step(p, j) /\ made' = made \cup {r} /\ UNCHANGED <<files, summary, now, next, crashes>>
  BY DEF CreateRun
<1> HIDE DEF j
<1>3. JobsOK'
  BY <1>1, <1>2, StepKeepsJobsOK DEF TypeInv
<1>5. FilesOK' /\ files' \subseteq FileType'
  BY <1>2, SameFiles
<1>6. TypeOK'
  BY <1>2, <1>3, <1>5 DEF TypeInv, TypeOK, JobsOK, FileType, Bodies
<1> QED  BY <1>3, <1>5, <1>6 DEF TypeInv

LEMMA TypeWriteCreationReceipt ==
  ASSUME TypeInv, NEW p \in Procs, WriteCreationReceipt(p)
  PROVE  TypeInv'
<1> DEFINE j == job[p]
           k == [j EXCEPT !.written = @ + 1, !.last = next]
           b == CreationReceipt(j, next)
<1>1. /\ Creating(p) /\ j.written < Planned(j) /\ next \in 1..MaxReceipt
      /\ Put(j.run, CreationName(j), b)
      /\ next' = next + 1 /\ Step(p, k) /\ UNCHANGED <<made, summary, now, crashes>>
  BY BoundAssumption DEF WriteCreationReceipt, TypeInv, TypeOK
<1>2. CreatingOK(j)
  BY <1>1, JobAt
<1>3. CreatingOK(k) /\ k.run = j.run
  <2>1. j.plan \in Plans /\ j.written \in Nat
    BY <1>2 DEF CreatingOK, CreatingJobs
  <2>2. Len(j.plan) \in Nat
    BY <2>1, PlanTyped
  <2>3. k \in CreatingJobs
    <3>1. next \in 0..MaxReceipt /\ j.written + 1 \in Nat
      BY <1>1, <2>1, BoundAssumption
    <3>2. \A x \in CreatingJobs, w \in Nat, h \in 0..MaxReceipt :
            [x EXCEPT !.written = w, !.last = h] \in CreatingJobs
      BY DEF CreatingJobs
    <3> QED  BY <1>2, <3>1, <3>2 DEF CreatingOK
  <2> QED  BY <1>1, <1>2, <2>1, <2>2, <2>3 DEF CreatingOK, CreatingJobs, Planned, NoHash
<1>4. j # Idle
  BY <1>1 DEF Creating, Idle
<1>5. JobsOK'
  <2> HIDE DEF k
  <2>1. JobOK(k) /\ j.run \in made
    BY <1>3, <1>4, RunOfJob DEF JobOK
  <2> QED  BY <1>1, <1>3, <2>1, StepKeepsJobsOK DEF TypeInv
<1>6. FilesOK' /\ files' \subseteq FileType'
  <2>1. /\ b \in Bodies /\ CreationName(j) \in Names
        /\ CreationName(j).ts \in {0, b.ts}
    BY <1>1, <1>2, CreationReceiptTyped DEF Bodies
  <2> HIDE DEF b
  <2>2. FileOK(File(j.run, CreationName(j), b))
    BY <2>1 DEF FileOK, File
  <2>3. j.run \in made
    BY <1>4, RunOfJob
  <2> HIDE DEF j
  <2> QED  BY <1>1, <2>1, <2>2, <2>3, PutFilesOK
<1>7. TypeOK'
  <2> HIDE DEF j, k, b
  <2> QED  BY <1>1, <1>5, <1>6, BoundAssumption DEF TypeInv, TypeOK, JobsOK, FileType, Bodies
<1> QED  BY <1>5, <1>6, <1>7 DEF TypeInv

(* A step that writes a summary.                                            *)
LEMMA SummaryTypes ==
  ASSUME TypeInv, JobsOK', UNCHANGED <<made, files, now, next>>,
         NEW r \in made, NEW s \in Summaries \cup {Torn},
         summary' = [summary EXCEPT ![r] = s], crashes' \in 0..MaxCrash
  PROVE  TypeInv'
<1>1. FilesOK' /\ files' \subseteq FileType'
  BY SameFiles
<1>2. /\ summary' \in [Runs -> Summaries \cup {Missing, Torn}]
      /\ \A q \in Runs \ made : summary'[q] = Missing
  BY DEF TypeInv, TypeOK
<1>3. TypeOK'
  BY <1>1, <1>2 DEF TypeInv, TypeOK, JobsOK, FileType, Bodies
<1> QED  BY <1>1, <1>3 DEF TypeInv

(* A step that writes a receipt, or leaves a torn one.                      *)
LEMMA ReceiptTypes ==
  ASSUME TypeInv, JobsOK', UNCHANGED <<made, summary, now, next>>,
         NEW r \in made, NEW nm \in Names, NEW b \in Bodies, Put(r, nm, b),
         FileOK(File(r, nm, b)), crashes' \in 0..MaxCrash
  PROVE  TypeInv'
<1>1. FilesOK' /\ files' \subseteq FileType'
  BY PutFilesOK
<1>2. TypeOK'
  BY <1>1 DEF TypeInv, TypeOK, JobsOK, FileType, Bodies
<1> QED  BY <1>1, <1>2 DEF TypeInv

LEMMA PlannedSummaryTyped ==
  ASSUME NEW j, CreatingOK(j), j.written = Planned(j), NEW st \in Statuses,
         NEW a \in BOOLEAN, NEW b \in BOOLEAN
  PROVE  [state |-> "written", last |-> j.last, count |-> j.written,
          status |-> st, onlyPlanned |-> TRUE, orchestrated |-> FALSE,
          external |-> FALSE, verified |-> FALSE, forApproval |-> a,
          dueBlocked |-> b] \in Summaries
<1>1. j.plan \in Plans /\ j.written \in Nat /\ j.last \in 0..MaxReceipt
  BY DEF CreatingOK, CreatingJobs
<1>2. j.written # 0
  BY <1>1, PlanTyped DEF Planned
<1>3. j.last \in 1..MaxReceipt
  <2>1. j.last # 0
    BY <1>2 DEF CreatingOK, NoHash
  <2> QED  BY <1>1, <2>1, BoundAssumption
<1> QED  BY <1>1, <1>3 DEF Summaries

LEMMA TypeWriteCreationSummary ==
  ASSUME TypeInv, NEW p \in Procs, WriteCreationSummary(p)
  PROVE  TypeInv'
<1> DEFINE j == job[p]
           st == IF PlanBlocked(j.plan) THEN "stopped_blocked"
                 ELSE IF PlanPending(j.plan) THEN "stopped_for_approval"
                 ELSE "planned"
           s == [state |-> "written", last |-> j.last, count |-> j.written,
                 status |-> st, onlyPlanned |-> TRUE, orchestrated |-> FALSE,
                 external |-> FALSE, verified |-> FALSE,
                 forApproval |-> PlanPending(j.plan),
                 dueBlocked |-> PlanBlocked(j.plan)]
<1>1. /\ Creating(p) /\ j.written = Planned(j)
      /\ summary' = [summary EXCEPT ![j.run] = s]
      /\ Step(p, Idle) /\ UNCHANGED <<made, files, now, next, crashes>>
  BY DEF WriteCreationSummary
<1>2. CreatingOK(j) /\ j # Idle
  BY <1>1, JobAt DEF Creating, Idle
<1>3. s \in Summaries
  <2>1. st \in Statuses /\ PlanPending(j.plan) \in BOOLEAN /\ PlanBlocked(j.plan) \in BOOLEAN
    BY DEF Statuses, PlanPending, PlanBlocked
  <2> HIDE DEF st
  <2> QED  BY <1>1, <1>2, <2>1, PlannedSummaryTyped
<1>4. JobsOK'
  BY <1>1, EndsIdle
<1>5. j.run \in made
  BY <1>2, RunOfJob
<1>6. crashes' \in 0..MaxCrash
  BY <1>1 DEF TypeInv, TypeOK
<1> HIDE DEF s, j
<1> QED  BY <1>1, <1>3, <1>4, <1>5, <1>6, SummaryTypes

LEMMA TypeStartAppend ==
  ASSUME TypeInv, NEW p \in Procs, NEW r \in Runs, NEW e \in Entries,
         StartAppend(p, r, e.kind, e.says)
  PROVE  TypeInv'
<1> DEFINE j == [at |-> "opening", run |-> r, kind |-> e.kind, says |-> e.says]
<1>1. /\ r \in made /\ Step(p, j) /\ UNCHANGED <<made, files, summary, now, next, crashes>>
  BY DEF StartAppend
<1>2. e.kind \in Parts /\ e.says \in Says
  <2>1. CASE \E a \in Approvals, x \in BOOLEAN :
               e = [kind |-> "action", says |-> ActionSays(a, x)]
    BY <2>1 DEF Parts, Says, ActionSays
  <2>2. CASE \E o \in Outcomes :
               e = [kind |-> "verification", says |-> VerificationSays(o)]
    BY <2>2 DEF Parts, Says, VerificationSays, Approvals
  <2> QED  BY <2>1, <2>2, InputAssumption
<1>3. JobOK(j) /\ j.run = r
  BY <1>2 DEF JobOK, OpeningJobs
<1> HIDE DEF j
<1>4. JobsOK'
  BY <1>1, <1>3, StepKeepsJobsOK DEF TypeInv
<1> QED  BY <1>1, <1>4, SameTypes DEF TypeInv, TypeOK

LEMMA TypeReadSummary ==
  ASSUME TypeInv, NEW p \in Procs, ReadSummary(p)
  PROVE  TypeInv'
<1> DEFINE j == job[p]
           s == summary[j.run]
           k == [at |-> "reading", run |-> j.run, kind |-> j.kind,
                 says |-> j.says, read |-> s]
<1>1. /\ At(p, "opening") /\ Step(p, IF s.state # "written" THEN Idle ELSE k)
      /\ UNCHANGED <<made, files, summary, now, next, crashes>>
  BY DEF ReadSummary
<1>2. j \in OpeningJobs /\ j # Idle
  BY <1>1, JobAt DEF At, Idle
<1>3. JobsOK'
  <2>1. CASE s.state # "written"
    <3>1. Step(p, Idle)
      BY <1>1, <2>1
    <3> QED  BY <1>1, <3>1, EndsIdle
  <2>2. CASE s.state = "written"
    <3>1. Step(p, k)
      BY <1>1, <2>2
    <3>2. s \in Summaries
      <4>1. s \in Summaries \cup {Missing, Torn}
        BY <1>2 DEF TypeInv, TypeOK, OpeningJobs
      <4> QED  BY <2>2, <4>1 DEF Missing, Torn
    <3>3. JobOK(k) /\ k.run = j.run
      <4> HIDE DEF s
      <4> QED  BY <1>2, <3>2 DEF OpeningJobs, ReadingJobs, JobOK
    <3>4. j.run \in made
      BY <1>2, RunOfJob
    <3> HIDE DEF k, j
    <3> QED  BY <1>1, <3>1, <3>3, <3>4, StepKeepsJobsOK DEF TypeInv
  <2> QED  BY <2>1, <2>2
<1> QED  BY <1>1, <1>3, SameTypes DEF TypeInv, TypeOK

LEMMA TypeReadReceiptsThrows ==
  ASSUME TypeInv, NEW p \in Procs, ReadReceiptsThrows(p)
  PROVE  TypeInv'
<1>1. Step(p, Idle) /\ UNCHANGED <<made, files, summary, now, next, crashes>>
  BY DEF ReadReceiptsThrows
<1>2. JobsOK'
  BY <1>1, EndsIdle
<1> QED  BY <1>1, <1>2, SameTypes DEF TypeInv, TypeOK

(* The timestamp of the next receipt is later than that of every other.     *)
LEMMA NextTimestampIsLater ==
  ASSUME TypeInv, NEW r \in Runs, ReceiptsOf(r) # {}
  PROVE  LET t == NextTimestamp(ReceiptsOf(r)) IN
         t \in Nat /\ t > 0 /\ \A x \in ReceiptsOf(r) : x.ts < t
<1> DEFINE R == ReceiptsOf(r)
<1>1. Latest(R) \in R /\ \A y \in R : y.ts <= Latest(R).ts
  BY LatestOf
<1>2. \A x \in R : x.ts \in Nat
  BY FilesTyped DEF TypeInv
<1>3. now \in Nat
  BY BoundAssumption DEF TypeInv, TypeOK
<1> HIDE DEF R
<1>4. LET t == NextTimestamp(R) IN t \in Nat /\ t >= Latest(R).ts + 1
  BY <1>1, <1>2, <1>3 DEF NextTimestamp, Bigger
<1> QED  BY <1>1, <1>2, <1>4 DEF R

LEMMA ActionNumberTyped ==
  ASSUME FilesOK, NEW r
  PROVE  ActionNumber(ReceiptsOf(r)) \in Nat
<1> DEFINE F == FilesOf(r)
           R == {x \in ReceiptsOf(r) : x.kind = "action"}
           g == [x \in R |-> CHOOSE f \in F : f.body = x]
<1>1. \A x \in R : g[x] \in F /\ g[x].body = x
  BY DEF ReceiptsOf
<1>2. g \in Injection(R, F)
  <2>1. g \in [R -> F]
    BY <1>1
  <2>2. \A x, y \in R : g[x] = g[y] => x = y
    BY <1>1
  <2> QED  BY <2>1, <2>2 DEF Injection, IsInjective
<1>3. IsFiniteSet(R)
  <2> HIDE DEF g, R
  <2> QED  BY <1>2, FilesFinite, FS_Injection
<1> QED  BY <1>3, FS_CardinalityType DEF ActionNumber

LEMMA ReadableHasReceipts ==
  ASSUME NEW r, NEW s, Readable(r, s)
  PROVE  ReceiptsOf(r) # {}
BY DEF Readable, Exists, ReceiptsOf

LEMMA TypeReadReceipts ==
  ASSUME TypeInv, NEW p \in Procs, ReadReceipts(p)
  PROVE  TypeInv'
<1> DEFINE j == job[p]
           R == ReceiptsOf(j.run)
           t == NextTimestamp(R)
           n == IF j.kind = "action" THEN ActionNumber(R) ELSE 0
           b == Receipt(next, j.read.last, t, j.kind, j.says)
           k == [at |-> "naming", run |-> j.run, read |-> j.read, receipt |-> b,
                 name |-> Name(j.kind, t, n)]
<1>1. /\ At(p, "reading") /\ Readable(j.run, j.read) /\ next \in 1..MaxReceipt
      /\ next' = next + 1 /\ Step(p, k)
      /\ UNCHANGED <<made, files, summary, now, crashes>>
  BY BoundAssumption DEF ReadReceipts, TypeInv, TypeOK
<1>2. j \in ReadingJobs /\ j # Idle
  BY <1>1, JobAt DEF At, Idle
<1>3. j.run \in made /\ j.run \in Runs
  BY <1>2, RunOfJob
<1>4. t \in Nat /\ t > 0
  BY <1>1, <1>3, ReadableHasReceipts, NextTimestampIsLater
<1>5. n \in Nat
  BY <1>3, ActionNumberTyped DEF TypeInv
<1>6. b \in Receipts /\ b.prev = j.read.last /\ b.kind = j.kind /\ b.ts = t
  <2>1. j.read.last \in 0..MaxReceipt /\ j.kind \in Kinds /\ j.says \in Says
    BY <1>2 DEF ReadingJobs, Summaries, Parts, Kinds
  <2>2. b = [hash |-> next, prev |-> j.read.last, ts |-> t, kind |-> j.kind, says |-> j.says]
    BY DEF Receipt
  <2> HIDE DEF b, t, j
  <2> QED  BY <1>1, <1>4, <2>1, <2>2 DEF Receipts
<1>7. Name(j.kind, t, n) \in Names
  <2>1. j.kind \in Kinds
    BY <1>2 DEF ReadingJobs, Parts, Kinds
  <2> HIDE DEF j, t, n
  <2> QED  BY <1>4, <1>5, <2>1 DEF Name, Names
<1>8. JobOK(k) /\ k.run = j.run
  <2>1. j.run \in Runs /\ j.read \in Summaries /\ j.kind \in Parts
    BY <1>2 DEF ReadingJobs
  <2> HIDE DEF j, b, t, n
  <2>2. k \in DraftingJobs
    BY <1>6, <1>7, <2>1 DEF DraftingJobs
  <2>3. DraftingOK(k)
    BY <1>4, <1>6, <2>1, <2>2 DEF DraftingOK, Name
  <2> QED  BY <2>3 DEF JobOK
<1> HIDE DEF k
<1>9. JobsOK'
  BY <1>1, <1>3, <1>8, StepKeepsJobsOK DEF TypeInv
<1>10. now' \in Times /\ crashes' \in 0..MaxCrash /\ next' \in 1..MaxReceipt + 1
  BY <1>1, BoundAssumption DEF TypeInv, TypeOK
<1> QED  BY <1>1, <1>9, <1>10, SameTypes

(* More names than a run has files cannot all be taken.                     *)
LEMMA FreeNameExists ==
  ASSUME FilesOK, NEW r, NEW t
  PROVE  \E n \in 0..Cardinality(FilesOf(r)) : ~Exists(r, Name("verification", t, n))
<1> DEFINE F == FilesOf(r)
           N == 0..Cardinality(F)
           nm(n) == Name("verification", t, n)
           g == [n \in N |-> CHOOSE f \in F : f.name = nm(n)]
<1> SUFFICES ASSUME \A n \in N : Exists(r, nm(n)) PROVE FALSE
  OBVIOUS
<1>1. \A n \in N : g[n] \in F /\ g[n].name = nm(n)
  BY DEF Exists
<1>2. \A m, n \in N : g[m] = g[n] => m = n
  <2>1. \A n : nm(n).n = n
    BY DEF Name
  <2> HIDE DEF g, nm, N
  <2> QED  BY <1>1, <2>1
<1>3. IsFiniteSet(F) /\ Cardinality(F) \in Nat
  BY FilesFinite
<1>4. IsFiniteSet(N) /\ Cardinality(F) < Cardinality(N)
  BY <1>3, FS_Interval
<1>5. g \in [N -> F]
  BY <1>1
<1> HIDE DEF g, N, F
<1> QED  BY <1>2, <1>3, <1>4, <1>5, FS_PigeonHole

(* The name a draft is written under, whatever kind it is of.               *)
Chosen(j, k) ==
  /\ k = [at |-> "writing", run |-> j.run, read |-> j.read, receipt |-> j.receipt,
          name |-> Name(j.name.kind, j.name.ts, k.name.n)]
  /\ k.name.n \in Nat
  /\ j.name.kind = "action" => k.name = j.name
  /\ j.name.kind # "action" => ~Exists(j.run, Name("verification", j.name.ts, k.name.n))

LEMMA ChooseNameChooses ==
  ASSUME TypeInv, NEW p \in Procs, ChooseName(p)
  PROVE  \E k : /\ At(p, "naming") /\ Step(p, k) /\ Chosen(job[p], k)
                /\ UNCHANGED <<made, files, summary, now, next, crashes>>
<1> DEFINE j == job[p]
           free == {n \in 0..Cardinality(FilesOf(j.run)) :
                      ~Exists(j.run, Name("verification", j.name.ts, n))}
           first == CHOOSE n \in free : \A m \in free : n <= m
           n1 == IF j.name.kind = "action" THEN j.name.n ELSE first
           k == [j EXCEPT !.at = "writing",
                          !.name.n = IF j.name.kind = "action" THEN @ ELSE first]
<1>1. /\ At(p, "naming") /\ Step(p, k)
      /\ UNCHANGED <<made, files, summary, now, next, crashes>>
  BY DEF ChooseName
<1>2. DraftingOK(j)
  BY <1>1, JobAt DEF At, Drafting
<1>3. first \in free
  <2>1. free # {}
    BY FreeNameExists DEF TypeInv
  <2>2. free \in SUBSET Nat
    BY FilesFinite DEF TypeInv
  <2> HIDE DEF free
  <2>3. \E n \in free : \A m \in free : n <= m
    BY <2>1, <2>2, LeastExists
  <2> QED  BY <2>3
<1>4. first \in Nat /\ ~Exists(j.run, Name("verification", j.name.ts, first))
  BY <1>3, FilesFinite DEF TypeInv
<1> HIDE DEF first
<1>5. j.name \in Names /\ j.name = Name(j.name.kind, j.name.ts, j.name.n)
  <2>1. j.name \in Names
    BY <1>2 DEF DraftingOK, DraftingJobs
  <2> HIDE DEF j
  <2> QED  BY <2>1 DEF Names, Name
<1>6. n1 \in Nat
  BY <1>4, <1>5 DEF Names
<1>7. k = [at |-> "writing", run |-> j.run, read |-> j.read, receipt |-> j.receipt,
           name |-> Name(j.name.kind, j.name.ts, n1)]
  <2>1. j \in DraftingJobs
    BY <1>2 DEF DraftingOK
  <2> HIDE DEF j
  <2>2. [j.name EXCEPT !.n = n1] = Name(j.name.kind, j.name.ts, n1)
    BY <1>5 DEF Names, Name
  <2>3. k = [j EXCEPT !.at = "writing", !.name = [j.name EXCEPT !.n = n1]]
    BY <2>1, <1>5 DEF DraftingJobs, Names
  <2> HIDE DEF k, n1
  <2> QED  BY <2>1, <2>2, <2>3 DEF DraftingJobs
<1>8. k.name.n = n1
  <2> HIDE DEF k
  <2> QED  BY <1>7 DEF Name
<1>9. j.name.kind = "action" => k.name = j.name
  <2> HIDE DEF k
  <2> QED  BY <1>5, <1>7 DEF Name
<1>10. Chosen(j, k)
  <2> HIDE DEF k, j
  <2> QED  BY <1>4, <1>6, <1>7, <1>8, <1>9 DEF Chosen
<1> HIDE DEF k
<1> QED  BY <1>1, <1>10

LEMMA ChosenOK ==
  ASSUME NEW j, NEW k, DraftingOK(j), Chosen(j, k)
  PROVE  /\ DraftingOK(k) /\ k.at = "writing" /\ k.run = j.run /\ k.read = j.read
         /\ k.receipt = j.receipt
         /\ k.name.kind = j.name.kind /\ k.name.ts = j.name.ts
<1>1. /\ k.at = "writing" /\ k.run = j.run /\ k.read = j.read
      /\ k.receipt = j.receipt /\ k.name = Name(j.name.kind, j.name.ts, k.name.n)
      /\ k.name.n \in Nat
  BY DEF Chosen
<1>2. k.name.kind = j.name.kind /\ k.name.ts = j.name.ts
  BY <1>1 DEF Name
<1>3. k.name \in Names
  BY <1>1 DEF DraftingOK, DraftingJobs, Names, Name
<1>4. k \in DraftingJobs
  <2> DEFINE nm == k.name
  <2>1. k = [at |-> "writing", run |-> j.run, read |-> j.read, receipt |-> j.receipt,
             name |-> nm]
    BY <1>1 DEF Chosen
  <2> HIDE DEF nm
  <2>2. nm \in Names
    BY <1>3 DEF nm
  <2> QED  BY <2>1, <2>2 DEF DraftingOK, DraftingJobs
<1> QED  BY <1>1, <1>2, <1>4 DEF DraftingOK

LEMMA TypeChooseName ==
  ASSUME TypeInv, NEW p \in Procs, ChooseName(p)
  PROVE  TypeInv'
<1>1. PICK k : /\ At(p, "naming") /\ Step(p, k) /\ Chosen(job[p], k)
               /\ UNCHANGED <<made, files, summary, now, next, crashes>>
  BY ChooseNameChooses
<1>2. DraftingOK(job[p]) /\ job[p] # Idle
  BY <1>1, JobAt DEF At, Drafting, Idle
<1>3. JobOK(k) /\ k.run \in made
  <2>1. DraftingOK(k) /\ k.run = job[p].run
    BY <1>1, <1>2, ChosenOK
  <2> QED  BY <1>2, <2>1, RunOfJob DEF JobOK
<1>4. JobsOK'
  BY <1>1, <1>3, StepKeepsJobsOK DEF TypeInv
<1> QED  BY <1>1, <1>4, SameTypes DEF TypeInv, TypeOK

LEMMA TypeWriteReceipt ==
  ASSUME TypeInv, NEW p \in Procs, WriteReceipt(p)
  PROVE  TypeInv'
<1> DEFINE j == job[p]
           k == [at |-> "summarising", run |-> j.run, read |-> j.read,
                 receipt |-> j.receipt]
<1>1. /\ At(p, "writing") /\ Put(j.run, j.name, j.receipt) /\ Step(p, k)
      /\ UNCHANGED <<made, summary, now, next, crashes>>
  BY DEF WriteReceipt
<1>2. DraftingOK(j) /\ j # Idle
  BY <1>1, JobAt DEF At, Drafting, Idle
<1>3. j.run \in made
  BY <1>2, RunOfJob
<1> HIDE DEF j
<1>4. JobOK(k) /\ k.run = j.run
  BY <1>2 DEF DraftingOK, DraftingJobs, ClosingOK, ClosingJobs, JobOK
<1> HIDE DEF k
<1>5. JobsOK'
  BY <1>1, <1>3, <1>4, StepKeepsJobsOK DEF TypeInv
<1>6. /\ j.name \in Names /\ j.receipt \in Bodies
      /\ FileOK(File(j.run, j.name, j.receipt))
  BY <1>2 DEF DraftingOK, DraftingJobs, Bodies, FileOK, File
<1>7. crashes' \in 0..MaxCrash
  BY <1>1 DEF TypeInv, TypeOK
<1> QED  BY <1>1, <1>3, <1>5, <1>6, <1>7, ReceiptTypes

LEMMA TypeWriteSummary ==
  ASSUME TypeInv, NEW p \in Procs, WriteSummary(p)
  PROVE  TypeInv'
<1> DEFINE j == job[p]
           e == j.receipt
           s == IF e.kind = "action" THEN AfterAction(j.read, e.says)
                                     ELSE AfterVerification(j.read, e.says)
           t == [s EXCEPT !.last = e.hash, !.count = @ + 1]
<1>1. /\ At(p, "summarising") /\ summary' = [summary EXCEPT ![j.run] = t]
      /\ Step(p, Idle) /\ UNCHANGED <<made, files, now, next, crashes>>
  BY DEF WriteSummary
<1>2. ClosingOK(j) /\ j # Idle
  BY <1>1, JobAt DEF At, Closing, Idle
<1>3. t \in Summaries
  <2>1. j.read \in Summaries /\ e \in Receipts /\ e.kind \in Parts
    BY <1>2 DEF ClosingOK, ClosingJobs
  <2> HIDE DEF e
  <2> QED  BY <2>1, SummaryAfterIsTyped
<1>4. j.run \in made /\ crashes' \in 0..MaxCrash
  BY <1>1, <1>2, RunOfJob DEF TypeInv, TypeOK
<1>5. JobsOK'
  BY <1>1, EndsIdle
<1> HIDE DEF t, j
<1> QED  BY <1>1, <1>3, <1>4, <1>5, SummaryTypes

LEMMA TypeCrash ==
  ASSUME TypeInv, NEW p \in Procs, Crash(p)
  PROVE  TypeInv'
<1>1. Step(p, Idle) /\ UNCHANGED <<made, files, summary, now, next>>
  BY DEF Crash
<1>2. crashes' \in 0..MaxCrash
  BY BoundAssumption DEF Crash, TypeInv, TypeOK
<1>3. JobsOK'
  BY <1>1, EndsIdle
<1> QED  BY <1>1, <1>2, <1>3, SameTypes DEF TypeInv, TypeOK

LEMMA TypeCrashInReceipt ==
  ASSUME TypeInv, NEW p \in Procs, CrashInReceipt(p)
  PROVE  TypeInv'
<1>1. Step(p, Idle) /\ UNCHANGED <<made, summary, now, next>>
  BY DEF CrashInReceipt
<1>2. crashes' \in 0..MaxCrash
  BY BoundAssumption DEF CrashInReceipt, TypeInv, TypeOK
<1>3. JobsOK'
  BY <1>1, EndsIdle
<1>4. TornReceipt \in Bodies /\ \A r, nm : FileOK(File(r, nm, TornReceipt))
  BY DEF Bodies, FileOK, File
<1>5. CASE At(p, "writing") /\ Put(job[p].run, job[p].name, TornReceipt)
  <2>1. DraftingOK(job[p]) /\ job[p] # Idle
    BY <1>5, JobAt DEF At, Drafting, Idle
  <2>2. job[p].run \in made /\ job[p].name \in Names
    BY <2>1, RunOfJob DEF DraftingOK, DraftingJobs
  <2> QED  BY <1>1, <1>2, <1>3, <1>4, <1>5, <2>2, ReceiptTypes
<1>6. CASE /\ Creating(p) /\ job[p].written < Planned(job[p])
           /\ Put(job[p].run, CreationName(job[p]), TornReceipt)
  <2>1. CreatingOK(job[p]) /\ job[p] # Idle
    BY <1>6, JobAt DEF Creating, Idle
  <2>2. job[p].run \in made
    BY <2>1, RunOfJob
  <2>3. CreationName(job[p]) \in Names
    BY <2>1 DEF CreatingOK, CreatingJobs, CreationName, InitialName, PlanName, Name,
                Names, Kinds
  <2> QED  BY <1>1, <1>2, <1>3, <1>4, <1>6, <2>2, <2>3, ReceiptTypes
<1> QED  BY <1>5, <1>6 DEF CrashInReceipt

LEMMA TypeCrashInSummary ==
  ASSUME TypeInv, NEW p \in Procs, CrashInSummary(p)
  PROVE  TypeInv'
<1>1. /\ Step(p, Idle) /\ UNCHANGED <<made, files, now, next>>
      /\ summary' = [summary EXCEPT ![job[p].run] = Torn]
      /\ job[p] # Idle
  BY DEF CrashInSummary, At, Creating, Idle
<1>2. crashes' \in 0..MaxCrash
  BY BoundAssumption DEF CrashInSummary, TypeInv, TypeOK
<1>3. JobsOK'
  BY <1>1, EndsIdle
<1>4. job[p].run \in made
  BY <1>1, RunOfJob
<1> QED  BY <1>1, <1>2, <1>3, <1>4, SummaryTypes

LEMMA TypeClock ==
  ASSUME TypeInv, Clock
  PROVE  TypeInv'
<1>1. UNCHANGED <<made, files, summary, job, next, crashes, contended>> /\ now' \in Times
  BY DEF Clock
<1>2. JobsOK'
  BY <1>1 DEF TypeInv, JobsOK
<1> QED  BY <1>1, <1>2, SameTypes DEF TypeInv, TypeOK

LEMMA TypeNext == TypeInv /\ [Next]_vars => TypeInv'
<1> SUFFICES ASSUME TypeInv, [Next]_vars PROVE TypeInv'
  OBVIOUS
<1>1. ASSUME NEW p \in Procs, Create(p) PROVE TypeInv'
  BY <1>1, TypeCreateRun DEF Create
<1>2. ASSUME NEW p \in Procs, Extend(p) PROVE TypeInv'
  BY <1>2, TypeStartAppend DEF Extend
<1>3. CASE UNCHANGED vars
  <2>1. JobsOK'
    BY <1>3 DEF vars, TypeInv, JobsOK
  <2> QED  BY <1>3, <2>1, SameTypes DEF vars, TypeInv, TypeOK
<1> QED
  BY <1>1, <1>2, <1>3, TypeWriteCreationReceipt, TypeWriteCreationSummary,
     TypeReadSummary, TypeReadReceiptsThrows, TypeReadReceipts, TypeChooseName,
     TypeWriteReceipt, TypeWriteSummary, TypeCrash, TypeCrashInReceipt,
     TypeCrashInSummary, TypeClock
  DEF Next

LEMMA TypeInvHolds == Spec => []TypeInv
<1> QED  BY TypeInit, TypeNext, PTL DEF Spec

(* Whatever processes do at once and wherever one dies, every value is of   *)
(* its kind (agent-run.ts:277-613).                                         *)
THEOREM TypeCorrect == Spec => []TypeOK
<1>1. TypeInv => TypeOK
  BY DEF TypeInv
<1> QED  BY <1>1, TypeInvHolds, PTL

-----------------------------------------------------------------------------
(* A broken run is left as it is.                                           *)

LEMMA PutElsewhere ==
  ASSUME NEW q, NEW r, q # r, NEW nm, NEW b, Put(q, nm, b)
  PROVE  FilesOf(r)' = FilesOf(r)
BY DEF Put, FilesOf, File

(* A chain is judged by the files and the summary of its run alone.         *)
LEMMA ChainOfSame ==
  ASSUME NEW r, FilesOf(r)' = FilesOf(r), summary'[r] = summary[r]
  PROVE  ChainValid(r)' <=> ChainValid(r)
<1>1. ReceiptsOf(r)' = ReceiptsOf(r)
  BY DEF ReceiptsOf
<1>2. \A nm : Exists(r, nm)' <=> Exists(r, nm)
  BY DEF Exists
<1>3. \A s : Readable(r, s)' <=> Readable(r, s)
  BY <1>1, <1>2 DEF Readable
<1>4. \A s : Valid(r, s)' <=> Valid(r, s)
  BY <1>1 DEF Valid
<1> QED  BY <1>3, <1>4 DEF ChainValid

Frozen(r) ==
  Broken(r) =>
    Broken(r)' /\ FilesOf(r)' = FilesOf(r) /\ summary'[r] = summary[r]

LEMMA StaysFrozen ==
  ASSUME NEW r, Broken(r), r \in made', FilesOf(r)' = FilesOf(r),
         summary'[r] = summary[r],
         \A p \in Procs : job'[p] = job[p] \/ ~UnderWay(p, r)'
  PROVE  Frozen(r)
<1>1. ~ChainValid(r)'
  BY ChainOfSame DEF Broken
<1>2. \A p \in Procs : ~UnderWay(p, r)'
  BY DEF Broken, UnderWay
<1> QED  BY <1>1, <1>2 DEF Broken, Frozen

(* One process goes on to `j`, on another run or without an append.         *)
LEMMA FrozenByStep ==
  ASSUME TypeInv, NEW r, Broken(r), made \subseteq made', FilesOf(r)' = FilesOf(r),
         summary'[r] = summary[r], NEW p \in Procs, NEW j, Step(p, j),
         \/ j.at \in {"idle", "opening"}
         \/ j.run # r
         \/ j.at = "reading" /\ j.read = summary[r]
  PROVE  Frozen(r)
<1>1. job'[p] = j /\ \A q \in Procs \ {p} : job'[q] = job[q]
  BY StepJob DEF TypeInv
<1>2. ~UnderWay(p, r)'
  BY <1>1 DEF UnderWay
<1>3. r \in made'
  BY DEF Broken
<1>4. \A q \in Procs : job'[q] = job[q] \/ ~UnderWay(q, r)'
  BY <1>1, <1>2
<1> QED  BY <1>3, <1>4, StaysFrozen

(* Who passed the check of the chain works on another run.                  *)
LEMMA WorksElsewhere ==
  ASSUME NEW r, Broken(r), NEW p \in Procs,
         job[p].at \in {"creating", "naming", "writing", "summarising"}
  PROVE  job[p].run # r
BY DEF Broken, UnderWay

LEMMA FrozenNext ==
  ASSUME TypeInv, NEW r \in made, Broken(r), [Next]_vars
  PROVE  Frozen(r)
<1> r \in Runs
  BY DEF TypeInv, TypeOK
<1>0. Idle.at = "idle"
  BY DEF Idle
<1>1. ASSUME NEW p \in Procs, NEW q \in Runs, NEW plan \in Plans, CreateRun(p, q, plan)
      PROVE  Frozen(r)
  <2> DEFINE j == [at |-> "creating", run |-> q, plan |-> plan, created |-> now,
                   written |-> 0, last |-> NoHash]
  <2>1. /\ q # r /\ Step(p, j) /\ made \subseteq made'
        /\ FilesOf(r)' = FilesOf(r) /\ summary'[r] = summary[r]
    BY <1>1 DEF CreateRun, FilesOf
  <2>2. j.run # r
    BY <2>1
  <2> HIDE DEF j
  <2> QED  BY <2>1, <2>2, FrozenByStep
<1>2. ASSUME NEW p \in Procs, WriteCreationReceipt(p) PROVE Frozen(r)
  <2> DEFINE k == [job[p] EXCEPT !.written = @ + 1, !.last = next]
  <2>1. /\ Creating(p) /\ Put(job[p].run, CreationName(job[p]), CreationReceipt(job[p], next))
        /\ Step(p, k) /\ UNCHANGED <<made, summary>>
    BY <1>2 DEF WriteCreationReceipt
  <2>2. job[p].run # r
    BY <2>1, WorksElsewhere DEF Creating
  <2>3. k.run = job[p].run
    BY <2>1, JobAt DEF CreatingOK, CreatingJobs
  <2>4. FilesOf(r)' = FilesOf(r)
    BY <2>1, <2>2, PutElsewhere
  <2> HIDE DEF k
  <2> QED  BY <2>1, <2>2, <2>3, <2>4, FrozenByStep
<1>3. ASSUME NEW p \in Procs, WriteCreationSummary(p) PROVE Frozen(r)
  <2>1. Creating(p) /\ Step(p, Idle) /\ UNCHANGED <<made, files>>
    BY <1>3 DEF WriteCreationSummary
  <2>2. job[p].run # r
    BY <2>1, WorksElsewhere DEF Creating
  <2>3. summary'[r] = summary[r]
    BY <1>3, <2>2 DEF WriteCreationSummary, TypeInv, TypeOK
  <2>4. FilesOf(r)' = FilesOf(r)
    BY <2>1 DEF FilesOf
  <2> QED  BY <1>0, <2>1, <2>3, <2>4, FrozenByStep
<1>4. ASSUME NEW p \in Procs, NEW q \in Runs, NEW e \in Entries,
             StartAppend(p, q, e.kind, e.says)
      PROVE  Frozen(r)
  <2> DEFINE j == [at |-> "opening", run |-> q, kind |-> e.kind, says |-> e.says]
  <2>1. Step(p, j) /\ UNCHANGED <<made, files, summary>> /\ j.at = "opening"
    BY <1>4 DEF StartAppend
  <2>2. FilesOf(r)' = FilesOf(r)
    BY <2>1 DEF FilesOf
  <2> HIDE DEF j
  <2> QED  BY <2>1, <2>2, FrozenByStep
<1>5. ASSUME NEW p \in Procs, ReadSummary(p) PROVE Frozen(r)
  <2> DEFINE s == summary[job[p].run]
             k == [at |-> "reading", run |-> job[p].run, kind |-> job[p].kind,
                   says |-> job[p].says, read |-> s]
  <2>1. /\ Step(p, IF s.state # "written" THEN Idle ELSE k)
        /\ UNCHANGED <<made, files, summary>>
    BY <1>5 DEF ReadSummary
  <2>2. FilesOf(r)' = FilesOf(r)
    BY <2>1 DEF FilesOf
  <2>3. k.at = "reading" /\ k.run = job[p].run /\ k.read = s
    OBVIOUS
  <2>4. CASE s.state # "written"
    <3>1. Step(p, Idle)
      BY <2>1, <2>4
    <3> QED  BY <1>0, <2>1, <2>2, <3>1, FrozenByStep
  <2>5. CASE s.state = "written"
    <3>1. Step(p, k)
      BY <2>1, <2>5
    <3>2. k.run # r \/ (k.at = "reading" /\ k.read = summary[r])
      BY <2>3
    <3> HIDE DEF k
    <3> QED  BY <2>1, <2>2, <3>1, <3>2, FrozenByStep
  <2> QED  BY <2>4, <2>5
<1>6. ASSUME NEW p \in Procs, ReadReceiptsThrows(p) PROVE Frozen(r)
  <2>1. Step(p, Idle) /\ UNCHANGED <<made, files, summary>>
    BY <1>6 DEF ReadReceiptsThrows
  <2>2. FilesOf(r)' = FilesOf(r)
    BY <2>1 DEF FilesOf
  <2> QED  BY <1>0, <2>1, <2>2, FrozenByStep
<1>7. ASSUME NEW p \in Procs, ReadReceipts(p) PROVE Frozen(r)
  <2>1. /\ At(p, "reading") /\ Readable(job[p].run, job[p].read)
        /\ Valid(job[p].run, job[p].read) /\ UNCHANGED <<made, files, summary>>
    BY <1>7 DEF ReadReceipts
  <2>2. job[p].run # r
    BY <2>1 DEF Broken, UnderWay, At, ChainValid
  <2>3. PICK k : Step(p, k) /\ k.run = job[p].run
    BY <1>7 DEF ReadReceipts
  <2>4. FilesOf(r)' = FilesOf(r)
    BY <2>1 DEF FilesOf
  <2> QED  BY <2>1, <2>2, <2>3, <2>4, FrozenByStep
<1>8. ASSUME NEW p \in Procs, ChooseName(p) PROVE Frozen(r)
  <2>1. PICK k : /\ At(p, "naming") /\ Step(p, k) /\ Chosen(job[p], k)
                 /\ UNCHANGED <<made, files, summary, now, next, crashes>>
    BY <1>8, ChooseNameChooses
  <2>2. job[p].run # r
    BY <2>1, WorksElsewhere DEF At
  <2>3. k.run = job[p].run
    BY <2>1 DEF Chosen
  <2>4. FilesOf(r)' = FilesOf(r)
    BY <2>1 DEF FilesOf
  <2> QED  BY <2>1, <2>2, <2>3, <2>4, FrozenByStep
<1>9. ASSUME NEW p \in Procs, WriteReceipt(p) PROVE Frozen(r)
  <2>1. /\ At(p, "writing") /\ Put(job[p].run, job[p].name, job[p].receipt)
        /\ UNCHANGED <<made, summary>>
    BY <1>9 DEF WriteReceipt
  <2>2. job[p].run # r
    BY <2>1, WorksElsewhere DEF At
  <2>3. PICK k : Step(p, k) /\ k.run = job[p].run
    BY <1>9 DEF WriteReceipt
  <2>4. FilesOf(r)' = FilesOf(r)
    BY <2>1, <2>2, PutElsewhere
  <2> QED  BY <2>1, <2>2, <2>3, <2>4, FrozenByStep
<1>10. ASSUME NEW p \in Procs, WriteSummary(p) PROVE Frozen(r)
  <2>1. At(p, "summarising") /\ Step(p, Idle) /\ UNCHANGED <<made, files>>
    BY <1>10 DEF WriteSummary
  <2>2. job[p].run # r
    BY <2>1, WorksElsewhere DEF At
  <2>3. summary'[r] = summary[r]
    BY <1>10, <2>2 DEF WriteSummary, TypeInv, TypeOK
  <2>4. FilesOf(r)' = FilesOf(r)
    BY <2>1 DEF FilesOf
  <2> QED  BY <1>0, <2>1, <2>3, <2>4, FrozenByStep
<1>11. ASSUME NEW p \in Procs, Crash(p) PROVE Frozen(r)
  <2>1. Step(p, Idle) /\ UNCHANGED <<made, files, summary>>
    BY <1>11 DEF Crash
  <2>2. FilesOf(r)' = FilesOf(r)
    BY <2>1 DEF FilesOf
  <2> QED  BY <1>0, <2>1, <2>2, FrozenByStep
<1>12. ASSUME NEW p \in Procs, CrashInReceipt(p) PROVE Frozen(r)
  <2>1. /\ Step(p, Idle) /\ UNCHANGED <<made, summary>>
        /\ job[p].at \in {"writing", "creating"}
        /\ \E nm : Put(job[p].run, nm, TornReceipt)
    BY <1>12 DEF CrashInReceipt, At, Creating
  <2>2. job[p].run # r
    BY <2>1, WorksElsewhere
  <2>3. FilesOf(r)' = FilesOf(r)
    BY <2>1, <2>2, PutElsewhere
  <2> QED  BY <1>0, <2>1, <2>3, FrozenByStep
<1>13. ASSUME NEW p \in Procs, CrashInSummary(p) PROVE Frozen(r)
  <2>1. /\ Step(p, Idle) /\ UNCHANGED <<made, files>>
        /\ job[p].at \in {"summarising", "creating"}
    BY <1>13 DEF CrashInSummary, At, Creating
  <2>2. job[p].run # r
    BY <2>1, WorksElsewhere
  <2>3. summary'[r] = summary[r]
    BY <1>13, <2>2 DEF CrashInSummary, TypeInv, TypeOK
  <2>4. FilesOf(r)' = FilesOf(r)
    BY <2>1 DEF FilesOf
  <2> QED  BY <1>0, <2>1, <2>3, <2>4, FrozenByStep
<1>14. CASE Clock \/ UNCHANGED vars
  <2>1. FilesOf(r)' = FilesOf(r) /\ UNCHANGED <<made, job, summary>>
    BY <1>14 DEF Clock, vars, FilesOf
  <2> QED  BY <2>1, StaysFrozen
<1> QED
  BY <1>1, <1>2, <1>3, <1>4, <1>5, <1>6, <1>7, <1>8, <1>9, <1>10, <1>11, <1>12,
     <1>13, <1>14
  DEF Next, Create, Extend

(* Nothing adds to a broken run, repairs it or makes it look valid          *)
(* (agent-run.ts:469, 544), for any number of processes and runs.           *)
THEOREM BrokenIsFrozenCorrect == Spec => BrokenIsFrozen
<1>1. TypeInv /\ [Next]_vars =>
        [\A r \in made : Broken(r) =>
           Broken(r)' /\ FilesOf(r)' = FilesOf(r) /\ summary'[r] = summary[r]]_vars
  BY FrozenNext DEF Frozen
<1> QED  BY <1>1, TypeInvHolds, PTL DEF Spec, BrokenIsFrozen

-----------------------------------------------------------------------------
(* A step of one process.                                                   *)

Acts(p) ==
  \/ Create(p) \/ WriteCreationReceipt(p) \/ WriteCreationSummary(p)
  \/ Extend(p) \/ ReadSummary(p) \/ ReadReceiptsThrows(p)
  \/ ReadReceipts(p) \/ ChooseName(p) \/ WriteReceipt(p)
  \/ WriteSummary(p)
  \/ Crash(p) \/ CrashInReceipt(p) \/ CrashInSummary(p)

(* It goes on to one other job, on the run it was at work on if there was   *)
(* one, writes to that run alone, and is not alone there without a trace.   *)
Frame(p) ==
  /\ \A q \in Procs \ {p} : job'[q] = job[q]
  /\ \A r \in Runs : ~WorksOn(p, r) =>
       FilesOf(r)' = FilesOf(r) /\ summary'[r] = summary[r]
  /\ job[p] # Idle => job'[p] = Idle \/ job'[p].run = job[p].run
  /\ made \subseteq made' /\ contended \subseteq contended'
  /\ \A r \in Runs, q \in Procs \ {p} : WorksOn(p, r)' /\ WorksOn(q, r) => r \in contended'
  /\ crashes' >= crashes

LEMMA FrameOfStep ==
  ASSUME TypeInv, NEW p \in Procs, NEW j, Step(p, j),
         job[p] # Idle => j = Idle \/ j.run = job[p].run,
         \A r \in Runs : ~WorksOn(p, r) =>
           FilesOf(r)' = FilesOf(r) /\ summary'[r] = summary[r],
         made \subseteq made', crashes' \in {crashes, crashes + 1}
  PROVE  Frame(p)
<1>1. job'[p] = j /\ \A q \in Procs \ {p} : job'[q] = job[q]
  BY StepJob DEF TypeInv
<1>2. contended' = contended \cup
        {r \in Runs : j # Idle /\ j.run = r /\ \E q \in Procs \ {p} : WorksOn(q, r)}
  BY DEF Step
<1>3. \A r \in Runs : WorksOn(p, r)' <=> j # Idle /\ j.run = r
  BY <1>1 DEF WorksOn, Idle
<1>4. \A r \in Runs, q \in Procs \ {p} : WorksOn(p, r)' /\ WorksOn(q, r) => r \in contended'
  BY <1>2, <1>3
<1>5. crashes' >= crashes
  BY BoundAssumption DEF TypeInv, TypeOK
<1> QED  BY <1>1, <1>2, <1>4, <1>5 DEF Frame

LEMMA FrameOfActs ==
  ASSUME TypeInv, NEW p \in Procs, Acts(p)
  PROVE  Frame(p)
<1> DEFINE Own == \A r \in Runs : ~WorksOn(p, r) =>
                    FilesOf(r)' = FilesOf(r) /\ summary'[r] = summary[r]
<1>a. UNCHANGED <<files, summary>> => Own
  BY DEF FilesOf
<1>b. ASSUME NEW nm, NEW b, Put(job[p].run, nm, b), job[p] # Idle, UNCHANGED summary
      PROVE  Own
  <2> SUFFICES ASSUME NEW r \in Runs, ~WorksOn(p, r) PROVE FilesOf(r)' = FilesOf(r)
    BY <1>b
  <2>1. job[p].run # r
    BY <1>b DEF WorksOn
  <2> QED  BY <1>b, <2>1, PutElsewhere
<1>c. ASSUME NEW s, summary' = [summary EXCEPT ![job[p].run] = s], job[p] # Idle,
             UNCHANGED files
      PROVE  Own
  BY <1>c DEF FilesOf, WorksOn, TypeInv, TypeOK
<1> HIDE DEF Own
<1>d. ASSUME NEW j, Step(p, j), job[p] # Idle => j = Idle \/ j.run = job[p].run, Own,
             made \subseteq made', crashes' \in {crashes, crashes + 1}
      PROVE  Frame(p)
  BY <1>d, FrameOfStep DEF Own
<1>1. CASE Create(p)
  <2>1. PICK j : Step(p, j) /\ job[p] = Idle /\ made \subseteq made'
                 /\ UNCHANGED <<files, summary, crashes>>
    BY <1>1 DEF Create, CreateRun
  <2> QED  BY <2>1, <1>a, <1>d
<1>2. CASE WriteCreationReceipt(p)
  <2> DEFINE k == [job[p] EXCEPT !.written = @ + 1, !.last = next]
  <2>1. /\ Creating(p) /\ Put(job[p].run, CreationName(job[p]), CreationReceipt(job[p], next))
        /\ Step(p, k) /\ UNCHANGED <<made, summary, crashes>>
    BY <1>2 DEF WriteCreationReceipt
  <2>2. job[p] # Idle /\ k.run = job[p].run
    BY <2>1, JobAt DEF Creating, Idle, CreatingOK, CreatingJobs
  <2> HIDE DEF k
  <2>3. Own
    BY <2>1, <2>2, <1>b
  <2> QED  BY <2>1, <2>2, <2>3, <1>d
<1>3. CASE WriteCreationSummary(p)
  <2>1. /\ job[p] # Idle /\ Step(p, Idle) /\ UNCHANGED <<made, files, crashes>>
    BY <1>3 DEF WriteCreationSummary, Creating, Idle
  <2>2. \E s : summary' = [summary EXCEPT ![job[p].run] = s]
    BY <1>3, Zenon DEF WriteCreationSummary
  <2>3. Own
    BY <2>1, <2>2, <1>c
  <2> QED  BY <2>1, <2>3, <1>d
<1>4. CASE Extend(p)
  <2>1. PICK j : Step(p, j) /\ job[p] = Idle /\ UNCHANGED <<made, files, summary, crashes>>
    BY <1>4 DEF Extend, StartAppend
  <2> QED  BY <2>1, <1>a, <1>d
<1>5. CASE ReadSummary(p)
  <2>1. PICK j : /\ Step(p, j) /\ (j = Idle \/ j.run = job[p].run)
                 /\ UNCHANGED <<made, files, summary, crashes>>
    BY <1>5 DEF ReadSummary
  <2> QED  BY <2>1, <1>a, <1>d
<1>6. CASE ReadReceiptsThrows(p)
  <2>1. Step(p, Idle) /\ UNCHANGED <<made, files, summary, crashes>>
    BY <1>6 DEF ReadReceiptsThrows
  <2> QED  BY <2>1, <1>a, <1>d
<1>7. CASE ReadReceipts(p)
  <2>1. PICK j : /\ Step(p, j) /\ j.run = job[p].run
                 /\ UNCHANGED <<made, files, summary, crashes>>
    BY <1>7 DEF ReadReceipts
  <2> QED  BY <2>1, <1>a, <1>d
<1>8. CASE ChooseName(p)
  <2>1. PICK k : /\ Step(p, k) /\ Chosen(job[p], k)
                 /\ UNCHANGED <<made, files, summary, now, next, crashes>>
    BY <1>8, ChooseNameChooses
  <2>2. k.run = job[p].run
    BY <2>1 DEF Chosen
  <2> QED  BY <2>1, <2>2, <1>a, <1>d
<1>9. CASE WriteReceipt(p)
  <2>1. PICK k : Step(p, k) /\ k.run = job[p].run
    BY <1>9 DEF WriteReceipt
  <2>2. /\ job[p] # Idle /\ Put(job[p].run, job[p].name, job[p].receipt)
        /\ UNCHANGED <<made, summary, crashes>>
    BY <1>9 DEF WriteReceipt, At, Idle
  <2>3. Own
    BY <2>2, <1>b
  <2> QED  BY <2>1, <2>2, <2>3, <1>d
<1>10. CASE WriteSummary(p)
  <2>1. /\ job[p] # Idle /\ Step(p, Idle) /\ UNCHANGED <<made, files, crashes>>
    BY <1>10 DEF WriteSummary, At, Idle
  <2>2. \E s : summary' = [summary EXCEPT ![job[p].run] = s]
    BY <1>10, Zenon DEF WriteSummary
  <2>3. Own
    BY <2>1, <2>2, <1>c
  <2> QED  BY <2>1, <2>3, <1>d
<1>11. CASE Crash(p)
  <2>1. Step(p, Idle) /\ UNCHANGED <<made, files, summary>> /\ crashes' = crashes + 1
    BY <1>11 DEF Crash
  <2> QED  BY <2>1, <1>a, <1>d
<1>12. CASE CrashInReceipt(p)
  <2>1. /\ job[p] # Idle /\ Step(p, Idle) /\ UNCHANGED <<made, summary>>
        /\ \E nm : Put(job[p].run, nm, TornReceipt)
        /\ crashes' = crashes + 1
    BY <1>12 DEF CrashInReceipt, At, Creating, Idle
  <2>2. Own
    BY <2>1, <1>b
  <2> QED  BY <2>1, <2>2, <1>d
<1>13. CASE CrashInSummary(p)
  <2>1. /\ job[p] # Idle /\ Step(p, Idle) /\ UNCHANGED <<made, files>>
        /\ summary' = [summary EXCEPT ![job[p].run] = Torn]
        /\ crashes' = crashes + 1
    BY <1>13 DEF CrashInSummary, At, Creating, Idle
  <2>2. Own
    BY <2>1, <1>c
  <2> QED  BY <2>1, <2>2, <1>d
<1> QED
  BY <1>1, <1>2, <1>3, <1>4, <1>5, <1>6, <1>7, <1>8, <1>9, <1>10, <1>11, <1>12, <1>13
  DEF Acts

LEMMA StepsAre == [Next]_vars => (\E p \in Procs : Acts(p)) \/ Clock \/ UNCHANGED vars
BY DEF Next, Acts

-----------------------------------------------------------------------------
(* Two processes at work on one run at once leave a trace in `contended`.   *)

Exclusive ==
  \A p, q \in Procs, r \in Runs :
    p # q /\ WorksOn(p, r) /\ WorksOn(q, r) => r \in contended

LEMMA ExclusiveNext ==
  ASSUME TypeInv, Exclusive, [Next]_vars
  PROVE  Exclusive'
<1>1. ASSUME NEW p \in Procs, Acts(p)
      PROVE  Exclusive'
  <2>1. Frame(p)
    BY <1>1, FrameOfActs
  <2> SUFFICES ASSUME NEW q \in Procs, NEW s \in Procs, NEW r \in Runs, q # s,
                      WorksOn(q, r)', WorksOn(s, r)'
               PROVE  r \in contended'
    BY DEF Exclusive
  <2>2. \A u \in Procs \ {p} : WorksOn(u, r)' <=> WorksOn(u, r)
    BY <2>1 DEF Frame, WorksOn
  <2>3. CASE q # p /\ s # p
    BY <2>1, <2>2, <2>3 DEF Exclusive, Frame
  <2>4. CASE q = p \/ s = p
    BY <2>1, <2>2, <2>4 DEF Frame
  <2> QED  BY <2>3, <2>4
<1>2. CASE Clock \/ UNCHANGED vars
  BY <1>2 DEF Clock, vars, Exclusive, WorksOn
<1> QED  BY <1>1, <1>2, StepsAre

(* Who is at work on a run that stays uncontended is the only one to touch  *)
(* it.                                                                      *)
LEMMA OthersApart ==
  ASSUME TypeInv, Exclusive, NEW p \in Procs, Acts(p), NEW q \in Procs \ {p},
         NEW r \in Runs, WorksOn(q, r), r \notin contended'
  PROVE  /\ job'[q] = job[q]
         /\ FilesOf(r)' = FilesOf(r)
         /\ summary'[r] = summary[r]
<1>1. Frame(p)
  BY FrameOfActs
<1>2. ~WorksOn(p, r)
  BY <1>1 DEF Exclusive, Frame
<1> QED  BY <1>1, <1>2 DEF Frame

-----------------------------------------------------------------------------
(* The name under which a process will write next is not taken.             *)

Taken(j, f) ==
  \/ f.name = InitialName /\ j.written > 0
  \/ f.name = PlanName /\ j.written > 1
  \/ f.name.kind = "action" /\ f.name.n + 1 < j.written
FreshFor(j, F) ==
  /\ j.at = "creating" => \A f \in F : Taken(j, f)
  /\ Drafting(j) => \A f \in F : f.name.ts # j.name.ts
Fresh(p) ==
  \A r \in Runs : WorksOn(p, r) /\ r \notin contended => FreshFor(job[p], FilesOf(r))
FreshNames == \A p \in Procs : Fresh(p)

LEMMA CreationNameIsFree ==
  ASSUME NEW j, CreatingOK(j), j.at = "creating", NEW f, Taken(j, f)
  PROVE  f.name # CreationName(j)
<1>1. j.written \in Nat
  BY DEF CreatingOK, CreatingJobs
<1>2. CASE j.written = 0
  BY <1>2 DEF Taken, CreationName, InitialName, PlanName, Name
<1>3. CASE j.written = 1
  BY <1>3 DEF Taken, CreationName, InitialName, PlanName, Name
<1>4. CASE j.written > 1
  <2>1. CreationName(j) = Name("action", j.created + j.written, j.written - 1)
    BY <1>1, <1>4 DEF CreationName
  <2>2. CreationName(j).kind = "action" /\ CreationName(j).n = j.written - 1
    BY <2>1 DEF Name
  <2>3. InitialName.kind # "action" /\ PlanName.kind # "action"
    BY DEF InitialName, PlanName, Name
  <2>4. CASE f.name = CreationName(j) /\ f.name.kind = "action" /\ f.name.n + 1 < j.written
    BY <1>1, <2>2, <2>4
  <2> QED  BY <2>2, <2>3, <2>4 DEF Taken
<1> QED  BY <1>1, <1>2, <1>3, <1>4

LEMMA TakenAfter ==
  ASSUME NEW j, CreatingOK(j), NEW k, k.written = j.written + 1, NEW f,
         f.name \in Names, Taken(j, f) \/ f.name = CreationName(j)
  PROVE  Taken(k, f)
<1>1. j.written \in Nat
  BY DEF CreatingOK, CreatingJobs
<1>2. CASE Taken(j, f)
  <2>1. f.name.n \in Nat
    BY DEF Names
  <2> QED  BY <1>1, <1>2, <2>1 DEF Taken
<1>3. CASE f.name = CreationName(j)
  <2>1. CASE j.written = 0
    BY <1>3, <2>1 DEF Taken, CreationName
  <2>2. CASE j.written = 1
    BY <1>3, <2>2 DEF Taken, CreationName
  <2>3. CASE j.written > 1
    <3>1. f.name = Name("action", j.created + j.written, j.written - 1)
      BY <1>1, <1>3, <2>3 DEF CreationName
    <3>2. f.name.kind = "action" /\ f.name.n = j.written - 1
      BY <3>1 DEF Name
    <3> QED  BY <1>1, <3>2 DEF Taken
  <2> QED  BY <1>1, <2>1, <2>2, <2>3
<1> QED  BY <1>2, <1>3

(* A draft is later than every receipt, so that no file has its name.       *)
LEMMA LaterIsFresh ==
  ASSUME TypeInv, NEW r \in Runs, TornReceipt \notin ReceiptsOf(r),
         NEW t \in Nat, t > 0, \A x \in ReceiptsOf(r) : x.ts < t
  PROVE  \A f \in FilesOf(r) : f.name.ts # t
<1> SUFFICES ASSUME NEW f \in FilesOf(r) PROVE f.name.ts # t
  OBVIOUS
<1>1. f.body \in ReceiptsOf(r) /\ f \in files
  BY DEF ReceiptsOf, FilesOf
<1>2. f.name.ts \in {0, f.body.ts} /\ f.body.ts \in Nat
  BY <1>1, FilesTyped DEF TypeInv, FilesOK, FileOK
<1> QED  BY <1>1, <1>2

LEMMA FreshInit == Init => FreshNames /\ Exclusive
BY DEF Init, FreshNames, Fresh, Exclusive, WorksOn

LEMMA FreshCreateRun ==
  ASSUME TypeInv, NEW p \in Procs, Create(p)
  PROVE  Fresh(p)'
<1>1. PICK r \in Runs, plan \in Plans : CreateRun(p, r, plan)
  BY DEF Create
<1> DEFINE j == [at |-> "creating", run |-> r, plan |-> plan, created |-> now,
                 written |-> 0, last |-> NoHash]
<1>2. r \notin made /\ Step(p, j) /\ UNCHANGED files
  BY <1>1 DEF CreateRun
<1>3. j.at = "creating" /\ j.run = r
  OBVIOUS
<1> HIDE DEF j
<1>4. job'[p] = j
  BY <1>2, StepJob DEF TypeInv
<1>5. FilesOf(r)' = {}
  BY <1>2, FilesTyped DEF FilesOf, TypeInv
<1> QED  BY <1>3, <1>4, <1>5 DEF Fresh, FreshFor, Drafting, WorksOn

LEMMA FreshWriteCreationReceipt ==
  ASSUME TypeInv, NEW p \in Procs, Fresh(p), Frame(p), WriteCreationReceipt(p)
  PROVE  Fresh(p)'
<1> DEFINE k == [job[p] EXCEPT !.written = @ + 1, !.last = next]
<1>1. /\ Creating(p) /\ Step(p, k) /\ UNCHANGED made
      /\ Put(job[p].run, CreationName(job[p]), CreationReceipt(job[p], next))
  BY DEF WriteCreationReceipt
<1>2. CreatingOK(job[p]) /\ job[p] # Idle
  BY <1>1, JobAt DEF Creating, Idle
<1>3. PICK j : j = job[p]
  OBVIOUS
<1>4. k.run = j.run /\ k.at = "creating" /\ k.written = j.written + 1
  BY <1>2, <1>3 DEF CreatingOK, CreatingJobs
<1>5. job'[p] = k
  <2> HIDE DEF k
  <2> QED  BY <1>1, StepJob DEF TypeInv
<1> HIDE DEF k
<1> SUFFICES ASSUME j.run \in Runs, j.run \notin contended'
             PROVE  FreshFor(k, FilesOf(j.run)')
  BY <1>4, <1>5 DEF Fresh, WorksOn
<1>6. \A f \in FilesOf(j.run) : Taken(j, f)
  BY <1>1, <1>2, <1>3 DEF Fresh, FreshFor, Frame, Creating, WorksOn
<1>7. \A f \in FilesOf(j.run)' : f \in FilesOf(j.run) \/ f.name = CreationName(j)
  BY <1>1, <1>3 DEF Put, FilesOf, File
<1>8. CreationName(j) \in Names
  BY <1>2, <1>3 DEF CreatingOK, CreatingJobs, CreationName, InitialName, PlanName,
              Name, Names, Kinds
<1>9. \A f \in FilesOf(j.run) : f.name \in Names
  BY FilesTyped DEF TypeInv, FilesOf
<1>10. \A f \in FilesOf(j.run)' : Taken(k, f)
  BY <1>2, <1>3, <1>4, <1>6, <1>7, <1>8, <1>9, TakenAfter
<1> QED  BY <1>4, <1>10 DEF FreshFor, Drafting

LEMMA FreshReadReceipts ==
  ASSUME TypeInv, NEW p \in Procs, ReadReceipts(p)
  PROVE  Fresh(p)'
<1>1. At(p, "reading") /\ Readable(job[p].run, job[p].read) /\ UNCHANGED files
  BY DEF ReadReceipts
<1>2. PICK r \in Runs : r = job[p].run
  BY <1>1, RunOfJob DEF At, Idle
<1>3. PICK t : t = NextTimestamp(ReceiptsOf(r))
  OBVIOUS
<1>4. PICK k : Step(p, k) /\ k.run = r /\ k.at = "naming" /\ k.name.ts = t
  BY <1>2, <1>3 DEF ReadReceipts, Name
<1>5. job'[p] = k
  BY <1>4, StepJob DEF TypeInv
<1>6. TornReceipt \notin ReceiptsOf(r) /\ ReceiptsOf(r) # {}
  BY <1>1, <1>2, ReadableHasReceipts DEF Readable
<1>7. t \in Nat /\ t > 0 /\ \A x \in ReceiptsOf(r) : x.ts < t
  BY <1>3, <1>6, NextTimestampIsLater
<1>8. \A f \in FilesOf(r) : f.name.ts # t
  BY <1>6, <1>7, LaterIsFresh
<1>9. FilesOf(r)' = FilesOf(r)
  BY <1>1 DEF FilesOf
<1> QED  BY <1>4, <1>5, <1>8, <1>9 DEF Fresh, FreshFor, WorksOn

LEMMA FreshChooseName ==
  ASSUME TypeInv, NEW p \in Procs, Fresh(p), Frame(p), ChooseName(p)
  PROVE  Fresh(p)'
<1>1. PICK k : /\ At(p, "naming") /\ Step(p, k) /\ Chosen(job[p], k)
               /\ UNCHANGED <<made, files, summary, now, next, crashes>>
  BY ChooseNameChooses
<1>2. DraftingOK(job[p]) /\ job[p] # Idle /\ Drafting(job[p])
  BY <1>1, JobAt DEF At, Drafting, Idle
<1>3. k.at = "writing" /\ k.run = job[p].run /\ k.name.ts = job[p].name.ts
  BY <1>1, <1>2, ChosenOK
<1>4. job'[p] = k
  BY <1>1, StepJob DEF TypeInv
<1>5. \A r \in Runs : FilesOf(r)' = FilesOf(r)
  BY <1>1 DEF FilesOf
<1>6. contended \subseteq contended'
  BY DEF Frame
<1> SUFFICES ASSUME NEW r \in Runs, r = job[p].run, r \notin contended'
             PROVE  FreshFor(k, FilesOf(r))
  BY <1>3, <1>4, <1>5 DEF Fresh, WorksOn
<1>7. \A f \in FilesOf(r) : f.name.ts # job[p].name.ts
  BY <1>2, <1>6 DEF Fresh, FreshFor, WorksOn
<1> QED  BY <1>3, <1>7 DEF FreshFor

(* No other step leaves a process with a name to write under.               *)
LEMMA FreshElse ==
  ASSUME TypeInv, NEW p \in Procs, NEW j, Step(p, j),
         j.at \in {"idle", "opening", "reading", "summarising"}
  PROVE  Fresh(p)'
<1>1. job'[p] = j
  BY StepJob DEF TypeInv
<1> QED  BY <1>1 DEF Fresh, FreshFor, Drafting, WorksOn

LEMMA FreshNext ==
  ASSUME TypeInv, Exclusive, FreshNames, [Next]_vars
  PROVE  FreshNames'
<1>1. ASSUME NEW p \in Procs, Acts(p)
      PROVE  FreshNames'
  <2>1. Frame(p) /\ Fresh(p)
    BY <1>1, FrameOfActs DEF FreshNames
  <2>2. ASSUME NEW q \in Procs \ {p} PROVE Fresh(q)'
    <3>1. Fresh(q) /\ contended \subseteq contended' /\ job'[q] = job[q]
      BY <2>1 DEF FreshNames, Frame
    <3> SUFFICES ASSUME NEW r \in Runs, WorksOn(q, r), r \notin contended'
                 PROVE  FreshFor(job[q], FilesOf(r)')
      BY <3>1 DEF Fresh, WorksOn
    <3>2. FilesOf(r)' = FilesOf(r)
      BY <1>1, OthersApart
    <3> QED  BY <3>1, <3>2 DEF Fresh
  <2>3. Fresh(p)'
    <3>0. Idle.at = "idle"
      BY DEF Idle
    <3>1. CASE Extend(p)
      <4>1. PICK j : Step(p, j) /\ j.at = "opening"
        BY <3>1 DEF Extend, StartAppend
      <4> QED  BY <4>1, FreshElse
    <3>2. CASE ReadSummary(p)
      <4>1. PICK j : Step(p, j) /\ j.at \in {"idle", "reading"}
        BY <3>0, <3>2 DEF ReadSummary
      <4> QED  BY <4>1, FreshElse
    <3>3. CASE WriteReceipt(p)
      <4>1. PICK j : Step(p, j) /\ j.at = "summarising"
        BY <3>3 DEF WriteReceipt
      <4> QED  BY <4>1, FreshElse
    <3>4. CASE \/ WriteCreationSummary(p) \/ ReadReceiptsThrows(p) \/ WriteSummary(p)
               \/ Crash(p) \/ CrashInReceipt(p) \/ CrashInSummary(p)
      <4>1. Step(p, Idle)
        BY <3>4 DEF WriteCreationSummary, ReadReceiptsThrows, WriteSummary, Crash,
                    CrashInReceipt, CrashInSummary
      <4> QED  BY <3>0, <4>1, FreshElse
    <3> QED
      BY <1>1, <2>1, <3>1, <3>2, <3>3, <3>4, FreshCreateRun,
         FreshWriteCreationReceipt, FreshReadReceipts, FreshChooseName DEF Acts
  <2> QED  BY <2>2, <2>3 DEF FreshNames
<1>2. CASE Clock \/ UNCHANGED vars
  BY <1>2 DEF Clock, vars, FreshNames, Fresh, FilesOf, WorksOn
<1> QED  BY <1>1, <1>2, StepsAre

-----------------------------------------------------------------------------
(* Receipts are immutable.                                                  *)

Kept == {f \in files : f.body # TornReceipt /\ f.run \notin contended'} \subseteq files'

(* Nothing is replaced where no file has the name.                          *)
LEMMA PutKeeps ==
  ASSUME NEW r, NEW nm, NEW b, Put(r, nm, b),
         r \notin contended' => \A f \in FilesOf(r) : f.name # nm
  PROVE  Kept
BY DEF Put, FilesOf, Kept

LEMMA KeptNext ==
  ASSUME TypeInv, FreshNames, [Next]_vars
  PROVE  Kept
<1>1. ASSUME NEW p \in Procs, Acts(p)
      PROVE  Kept
  <2>1. contended \subseteq contended' /\ Fresh(p)
    BY <1>1, FrameOfActs DEF Frame, FreshNames
  <2>2. CASE Creating(p) /\ \E b : Put(job[p].run, CreationName(job[p]), b)
    <3>1. CreatingOK(job[p]) /\ job[p] # Idle /\ job[p].run \in Runs
      BY <2>2, JobAt, RunOfJob DEF Creating, Idle
    <3>2. ASSUME job[p].run \notin contended'
          PROVE  \A f \in FilesOf(job[p].run) : f.name # CreationName(job[p])
      <4>1. \A f \in FilesOf(job[p].run) : Taken(job[p], f)
        BY <2>1, <2>2, <3>1, <3>2 DEF Fresh, FreshFor, Creating, WorksOn
      <4> QED  BY <2>2, <3>1, <4>1, CreationNameIsFree DEF Creating
    <3> QED  BY <2>2, <3>2, PutKeeps
  <2>3. CASE At(p, "writing") /\ \E b : Put(job[p].run, job[p].name, b)
    <3>1. Drafting(job[p]) /\ job[p] # Idle /\ job[p].run \in Runs
      BY <2>3, RunOfJob DEF At, Drafting, Idle
    <3>2. ASSUME job[p].run \notin contended'
          PROVE  \A f \in FilesOf(job[p].run) : f.name # job[p].name
      BY <2>1, <3>1, <3>2 DEF Fresh, FreshFor, WorksOn
    <3> QED  BY <2>3, <3>2, PutKeeps
  <2>4. CASE UNCHANGED files
    BY <2>4 DEF Kept
  <2>5. \/ UNCHANGED files
        \/ Creating(p) /\ \E b : Put(job[p].run, CreationName(job[p]), b)
        \/ At(p, "writing") /\ \E b : Put(job[p].run, job[p].name, b)
    <3>1. WriteCreationReceipt(p) => Creating(p) /\ \E b : Put(job[p].run, CreationName(job[p]), b)
      BY DEF WriteCreationReceipt
    <3>2. WriteReceipt(p) => At(p, "writing") /\ \E b : Put(job[p].run, job[p].name, b)
      BY DEF WriteReceipt
    <3>3. CrashInReceipt(p) =>
            \/ Creating(p) /\ \E b : Put(job[p].run, CreationName(job[p]), b)
            \/ At(p, "writing") /\ \E b : Put(job[p].run, job[p].name, b)
      BY DEF CrashInReceipt
    <3>4. \/ Create(p) \/ WriteCreationSummary(p) \/ Extend(p) \/ ReadSummary(p)
          \/ ReadReceiptsThrows(p) \/ ReadReceipts(p) \/ ChooseName(p)
          \/ WriteSummary(p) \/ Crash(p) \/ CrashInSummary(p)
          => UNCHANGED files
      BY DEF Create, CreateRun, WriteCreationSummary, Extend, StartAppend, ReadSummary,
             ReadReceiptsThrows, ReadReceipts, ChooseName, WriteSummary, Crash,
             CrashInSummary
    <3> QED  BY <1>1, <3>1, <3>2, <3>3, <3>4 DEF Acts
  <2> QED  BY <2>2, <2>3, <2>4, <2>5
<1>2. CASE Clock \/ UNCHANGED vars
  BY <1>2 DEF Clock, vars, Kept
<1> QED  BY <1>1, <1>2, StepsAre

LEMMA NamesInvHolds == Spec => [](TypeInv /\ Exclusive /\ FreshNames)
<1>1. Init => TypeInv /\ Exclusive /\ FreshNames
  BY TypeInit, FreshInit
<1>2. TypeInv /\ Exclusive /\ FreshNames /\ [Next]_vars =>
        (TypeInv /\ Exclusive /\ FreshNames)'
  BY TypeNext, ExclusiveNext, FreshNext
<1> QED  BY <1>1, <1>2, PTL DEF Spec

(* Where no two processes were at work at once nothing ever replaces a      *)
(* complete receipt, also where one dies in a write                         *)
(* (docs/AGENT_RUN_RECEIPTS.md:14, agent-run.ts:394-402, 560-573).          *)
THEOREM ImmutableReceiptsCorrect == Spec => ImmutableReceipts
<1>1. TypeInv /\ Exclusive /\ FreshNames /\ [Next]_vars =>
        [{f \in files : f.body # TornReceipt /\ f.run \notin contended'}
           \subseteq files']_vars
  BY KeptNext DEF Kept
<1> QED  BY <1>1, NamesInvHolds, PTL DEF Spec, ImmutableReceipts

-----------------------------------------------------------------------------
(* A chain that nobody contends for is valid.                               *)

Newest(x, R) == x \in R /\ \A y \in R : y.ts <= x.ts

(* A receipt that is later than all and names the newest extends a chain.   *)
LEMMA LinkedExtends ==
  ASSUME NEW R, \A x \in R : x.ts \in Nat, Linked(R),
         NEW e, e.ts \in Nat, \A x \in R : x.ts < e.ts,
         \/ R = {} /\ e.prev = NoHash
         \/ \E x \in R : Newest(x, R) /\ e.prev = x.hash
  PROVE  Linked(R \cup {e}) /\ Newest(e, R \cup {e})
<1> DEFINE Q == R \cup {e}
           Before(S, x) == {y \in S : y.ts < x.ts}
           Prev(S, x) == IF Before(S, x) = {} THEN NoHash ELSE Latest(Before(S, x)).hash
<1>1. \A x, y \in R : x.ts = y.ts => x = y
  BY DEF Linked
<1>2. \A x \in R : x.prev = Prev(R, x)
  BY DEF Linked
<1>3. \A x, y \in Q : x.ts = y.ts => x = y
  BY <1>1
<1>4. ASSUME NEW x \in R PROVE x.prev = Prev(Q, x)
  <2>1. Before(Q, x) = Before(R, x)
    OBVIOUS
  <2> HIDE DEF Before
  <2> QED  BY <1>2, <2>1
<1>5. e.prev = Prev(Q, e)
  <2>1. Before(Q, e) = R
    OBVIOUS
  <2> HIDE DEF Before
  <2>2. CASE R = {} /\ e.prev = NoHash
    BY <2>1, <2>2
  <2>3. CASE \E x \in R : Newest(x, R) /\ e.prev = x.hash
    <3>1. PICK x \in R : (\A y \in R : y.ts <= x.ts) /\ e.prev = x.hash
      BY <2>3 DEF Newest
    <3>2. Latest(R) = x
      BY <1>1, <3>1, LatestIs
    <3> QED  BY <2>1, <3>1, <3>2
  <2> QED  BY <2>2, <2>3
<1>6. Linked(Q)
  <2> HIDE DEF Before
  <2>1. \A x \in Q : x.prev = Prev(Q, x)
    BY <1>4, <1>5
  <2> QED  BY <1>3, <2>1 DEF Linked, Before
<1>7. Newest(e, Q)
  BY DEF Newest
<1> QED  BY <1>6, <1>7

(* A file under a new name is one more.                                     *)
LEMMA PutNew ==
  ASSUME TypeInv, NEW r \in Runs, NEW nm, NEW b, Put(r, nm, b),
         \A f \in FilesOf(r) : f.name # nm
  PROVE  /\ ReceiptsOf(r)' = ReceiptsOf(r) \cup {b}
         /\ Cardinality(FilesOf(r))' = Cardinality(FilesOf(r)) + 1
         /\ Exists(r, nm)'
         /\ \A m : Exists(r, m) => Exists(r, m)'
<1> DEFINE new == File(r, nm, b)
<1>1. new.run = r /\ new.name = nm /\ new.body = b
  BY DEF File
<1> HIDE DEF new
<1>2. FilesOf(r)' = FilesOf(r) \cup {new}
  BY <1>1 DEF Put, FilesOf, new
<1>3. new \notin FilesOf(r)
  BY <1>1
<1>4. Cardinality(FilesOf(r) \cup {new}) = Cardinality(FilesOf(r)) + 1
  BY <1>3, FilesFinite, FS_AddElement DEF TypeInv
<1>5. ReceiptsOf(r)' = ReceiptsOf(r) \cup {b}
  BY <1>1, <1>2 DEF ReceiptsOf
<1>6. \A m : Exists(r, m) => Exists(r, m)'
  BY <1>2 DEF Exists
<1>7. Exists(r, nm)'
  BY <1>1, <1>2 DEF Exists
<1> QED  BY <1>2, <1>4, <1>5, <1>6, <1>7

(* A creation that wrote `n` receipts, the last with hash `h`, since `t`.    *)
Begun(r, n, h, t) ==
  LET R == ReceiptsOf(r) IN
  /\ Linked(R) /\ TornReceipt \notin R
  /\ Cardinality(FilesOf(r)) = n
  /\ n = 0 => R = {}
  /\ n > 0 => Exists(r, InitialName) /\ \E x \in R : Newest(x, R) /\ x.hash = h
  /\ n > 1 => Exists(r, PlanName)
  /\ \A x \in R : x.ts < t + n

(* An append that wrote `e` over the summary `s`.                            *)
Appended(r, s, e) ==
  /\ Readable(r, s) /\ Linked(ReceiptsOf(r)) /\ Newest(e, ReceiptsOf(r))
  /\ Cardinality(FilesOf(r)) = s.count + 1

AloneOn(p, r) ==
  /\ Creating(p) => Begun(r, job[p].written, job[p].last, job[p].created)
  /\ At(p, "opening") => ChainValid(r)
  /\ At(p, "reading") => ChainValid(r) /\ job[p].read = summary[r]
  /\ Drafting(job[p]) =>
       /\ ChainValid(r) /\ job[p].read = summary[r]
       /\ \A x \in ReceiptsOf(r) : x.ts < job[p].receipt.ts
  /\ Closing(job[p]) =>
       job[p].read = summary[r] /\ Appended(r, job[p].read, job[p].receipt)

(* Without a crash, and where no two processes were at work at once.        *)
Unoccupied(r) == \A p \in Procs : ~WorksOn(p, r)
AloneInv ==
  crashes = 0 =>
    \A r \in made \ contended :
      /\ Unoccupied(r) => ChainValid(r)
      /\ \A p \in Procs : WorksOn(p, r) => AloneOn(p, r)

LEMMA ValidHasNewest ==
  ASSUME TypeInv, NEW r \in Runs, ChainValid(r)
  PROVE  \E x \in ReceiptsOf(r) : Newest(x, ReceiptsOf(r)) /\ x.hash = summary[r].last
<1>1. ReceiptsOf(r) # {}
  BY ReadableHasReceipts DEF ChainValid
<1>2. /\ Latest(ReceiptsOf(r)) \in ReceiptsOf(r)
      /\ \A y \in ReceiptsOf(r) : y.ts <= Latest(ReceiptsOf(r)).ts
  BY <1>1, LatestOf
<1> QED  BY <1>2 DEF ChainValid, Valid, Newest

(* What the step of a process finds on a run that stays uncontended.        *)
Alone(p, r) ==
  /\ r \in made => (Unoccupied(r) => ChainValid(r))
  /\ WorksOn(p, r) => AloneOn(p, r)
Onward(p, r) ==
  /\ ~WorksOn(p, r)' => ChainValid(r)'
  /\ WorksOn(p, r)' => AloneOn(p, r)'

LEMMA SameChain ==
  ASSUME NEW r, UNCHANGED <<files, summary>>
  PROVE  /\ FilesOf(r)' = FilesOf(r) /\ ReceiptsOf(r)' = ReceiptsOf(r)
         /\ summary'[r] = summary[r] /\ ChainValid(r)' = ChainValid(r)
         /\ \A m : Exists(r, m)' <=> Exists(r, m)
BY DEF ReceiptsOf, FilesOf, ChainValid, Readable, Valid, Exists

LEMMA OnwardIdle ==
  ASSUME TypeInv, NEW p \in Procs, NEW r, Step(p, Idle), ChainValid(r)'
  PROVE  Onward(p, r)
<1>1. job'[p] = Idle
  BY StepJob DEF TypeInv
<1> QED  BY <1>1 DEF Onward, WorksOn

LEMMA AloneCreateRun ==
  ASSUME TypeInv, NEW p \in Procs, NEW r \in Runs, NEW plan \in Plans, CreateRun(p, r, plan)
  PROVE  Onward(p, r)
<1> DEFINE j == [at |-> "creating", run |-> r, plan |-> plan, created |-> now,
                 written |-> 0, last |-> NoHash]
<1>1. r \notin made /\ Step(p, j) /\ UNCHANGED <<files, summary>>
  BY DEF CreateRun
<1>2. j.at = "creating" /\ j.run = r /\ j.written = 0 /\ j # Idle
  BY DEF Idle
<1> HIDE DEF j
<1>3. job'[p] = j
  BY <1>1, StepJob DEF TypeInv
<1>4. FilesOf(r)' = {} /\ ReceiptsOf(r)' = {}
  BY <1>1, FilesTyped DEF FilesOf, ReceiptsOf, TypeInv
<1>5. Linked({})
  BY DEF Linked
<1>6. Cardinality({}) = 0
  BY FS_EmptySet
<1>7. \A h, t : Begun(r, 0, h, t)'
  BY <1>4, <1>5, <1>6 DEF Begun
<1> QED  BY <1>2, <1>3, <1>7 DEF Onward, AloneOn, WorksOn, Creating, At, Drafting, Closing

LEMMA AloneWriteCreationReceipt ==
  ASSUME TypeInv, NEW p \in Procs, NEW r \in Runs, WorksOn(p, r), r \notin contended,
         Alone(p, r), Fresh(p), WriteCreationReceipt(p)
  PROVE  Onward(p, r)
<1> DEFINE k == [job[p] EXCEPT !.written = @ + 1, !.last = next]
<1>1. PICK j : j = job[p]
  OBVIOUS
<1>2. PICK h, b : h = next /\ b = CreationReceipt(j, h)
  OBVIOUS
<1>3. /\ Creating(p) /\ Step(p, k) /\ j.run = r /\ j.written < Planned(j)
      /\ Put(r, CreationName(j), b) /\ h \in 1..MaxReceipt
  BY <1>1, <1>2, BoundAssumption DEF WriteCreationReceipt, WorksOn, TypeInv, TypeOK
<1>4. CreatingOK(j) /\ j.at = "creating" /\ j # Idle
  BY <1>1, <1>3, JobAt DEF Creating, Idle
<1>5. /\ k.run = r /\ k.at = "creating" /\ k.written = j.written + 1 /\ k.last = h
      /\ k.created = j.created /\ k # Idle
  BY <1>1, <1>2, <1>3, <1>4 DEF CreatingOK, CreatingJobs, Idle
<1> HIDE DEF k
<1>6. job'[p] = k
  BY <1>3, StepJob DEF TypeInv
<1>7. j.written \in Nat /\ j.created \in Nat
  BY <1>4 DEF CreatingOK, CreatingJobs
<1>8. b \in Receipts /\ b.hash = h /\ b.prev = j.last /\ b.ts = j.created + j.written
  BY <1>2, <1>3, <1>4, CreationReceiptTyped
<1>9. Begun(r, j.written, j.last, j.created)
  BY <1>1, <1>3 DEF Alone, AloneOn
<1>10. \A f \in FilesOf(r) : f.name # CreationName(j)
  <2>1. \A f \in FilesOf(r) : Taken(j, f)
    BY <1>1, <1>4 DEF Fresh, FreshFor
  <2> QED  BY <1>4, <2>1, CreationNameIsFree
<1>11. PICK R : R = ReceiptsOf(r)
  OBVIOUS
<1>12. \A x \in R : x.ts \in Nat
  BY <1>11, FilesTyped DEF TypeInv
<1>13. /\ ReceiptsOf(r)' = R \cup {b}
       /\ Cardinality(FilesOf(r))' = j.written + 1
       /\ Exists(r, CreationName(j))'
       /\ \A m : Exists(r, m) => Exists(r, m)'
  <2>1. Cardinality(FilesOf(r)) = j.written
    BY <1>9 DEF Begun
  <2> QED  BY <1>3, <1>10, <1>11, <2>1, PutNew
<1>14. Linked(R \cup {b}) /\ Newest(b, R \cup {b})
  <2>1. \A x \in R : x.ts < b.ts
    BY <1>8, <1>9, <1>11 DEF Begun
  <2>2. \/ R = {} /\ b.prev = NoHash
        \/ \E x \in R : Newest(x, R) /\ b.prev = x.hash
    <3>1. CASE j.written = 0
      BY <1>4, <1>8, <1>9, <1>11, <3>1 DEF Begun, CreatingOK
    <3>2. CASE j.written > 0
      BY <1>8, <1>9, <1>11, <3>2 DEF Begun
    <3> QED  BY <1>7, <3>1, <3>2
  <2>3. Linked(R) /\ b.ts \in Nat
    BY <1>7, <1>8, <1>9, <1>11 DEF Begun
  <2> QED  BY <1>12, <2>1, <2>2, <2>3, LinkedExtends
<1>15. Exists(r, InitialName)' /\ (j.written + 1 > 1 => Exists(r, PlanName)')
  <2>1. CASE j.written = 0
    <3>1. CreationName(j) = InitialName
      BY <2>1 DEF CreationName
    <3>2. ~(j.written + 1 > 1)
      BY <2>1
    <3> QED  BY <1>13, <3>1, <3>2
  <2>2. CASE j.written = 1
    <3>1. CreationName(j) = PlanName
      BY <2>2 DEF CreationName
    <3> QED  BY <1>9, <1>13, <2>2, <3>1 DEF Begun
  <2>3. CASE j.written > 1
    BY <1>7, <1>9, <1>13, <2>3 DEF Begun
  <2> QED  BY <1>7, <2>1, <2>2, <2>3
<1>16. TornReceipt \notin R \cup {b}
  <2>1. TornReceipt \notin R
    BY <1>9, <1>11 DEF Begun
  <2> QED  BY <1>8, <2>1, BodyFacts
<1>17. \A x \in R \cup {b} : x.ts < j.created + (j.written + 1)
  BY <1>7, <1>8, <1>9, <1>11, <1>12 DEF Begun
<1>18. \E x \in R \cup {b} : Newest(x, R \cup {b}) /\ x.hash = h
  BY <1>8, <1>14
<1>19. PICK n : n = j.written + 1
  OBVIOUS
<1>20. Begun(r, n, h, j.created)'
  BY <1>7, <1>13, <1>14, <1>15, <1>16, <1>17, <1>18, <1>19 DEF Begun
<1> QED
  BY <1>5, <1>6, <1>19, <1>20 DEF Onward, AloneOn, WorksOn, Creating, At, Drafting, Closing

LEMMA AloneWriteCreationSummary ==
  ASSUME TypeInv, NEW p \in Procs, NEW r \in Runs, WorksOn(p, r),
         Alone(p, r), WriteCreationSummary(p)
  PROVE  Onward(p, r)
<1>1. PICK j : j = job[p]
  OBVIOUS
<1>2. /\ Creating(p) /\ j.written = Planned(j) /\ j.run = r /\ Step(p, Idle)
      /\ UNCHANGED files
  BY <1>1 DEF WriteCreationSummary, WorksOn
<1>3. PICK s : /\ summary' = [summary EXCEPT ![r] = s] /\ s.state = "written"
               /\ s.last = j.last /\ s.count = j.written
  <2>1. DEFINE s == [state |-> "written", last |-> j.last, count |-> j.written,
               status |-> IF PlanBlocked(j.plan) THEN "stopped_blocked"
                          ELSE IF PlanPending(j.plan) THEN "stopped_for_approval"
                          ELSE "planned",
               onlyPlanned |-> TRUE, orchestrated |-> FALSE, external |-> FALSE,
               verified |-> FALSE, forApproval |-> PlanPending(j.plan),
               dueBlocked |-> PlanBlocked(j.plan)]
  <2>2. summary' = [summary EXCEPT ![j.run] = s]
    BY <1>1, Zenon DEF WriteCreationSummary
  <2>3. s.state = "written" /\ s.last = j.last /\ s.count = j.written
    OBVIOUS
  <2> HIDE DEF s
  <2> QED  BY <1>2, <2>2, <2>3
<1>4. CreatingOK(j)
  BY <1>1, <1>2, JobAt
<1>5. j.written \in Nat /\ j.written > 1
  <2>1. j.plan \in Plans /\ j.written \in Nat
    BY <1>4 DEF CreatingOK, CreatingJobs
  <2>2. Len(j.plan) \in Nat
    BY <2>1, PlanTyped
  <2> QED  BY <1>2, <2>1, <2>2 DEF Planned
<1>6. Begun(r, j.written, j.last, j.created)
  BY <1>1, <1>2 DEF Alone, AloneOn, WorksOn
<1>7. PICK R : R = ReceiptsOf(r)
  OBVIOUS
<1>8. /\ Exists(r, InitialName) /\ Exists(r, PlanName) /\ TornReceipt \notin R
      /\ Linked(R) /\ Cardinality(FilesOf(r)) = j.written
  BY <1>5, <1>6, <1>7 DEF Begun
<1>9. Latest(R).hash = j.last
  <2>1. PICK x \in R : Newest(x, R) /\ x.hash = j.last
    BY <1>5, <1>6, <1>7 DEF Begun
  <2>2. \A y, z \in R : y.ts = z.ts => y = z
    BY <1>8 DEF Linked
  <2>3. \A y \in R : y.ts \in Nat
    BY <1>7, FilesTyped DEF TypeInv
  <2>4. Latest(R) = x
    BY <2>1, <2>2, <2>3, LatestIs DEF Newest
  <2> QED  BY <2>1, <2>4
<1>10. summary'[r] = s
  BY <1>3 DEF TypeInv, TypeOK
<1>11. FilesOf(r)' = FilesOf(r) /\ ReceiptsOf(r)' = R /\ \A m : Exists(r, m)' <=> Exists(r, m)
  BY <1>2, <1>7 DEF FilesOf, ReceiptsOf, Exists
<1>12. Readable(r, s)' /\ Valid(r, s)'
  BY <1>3, <1>8, <1>9, <1>11 DEF Readable, Valid
<1>13. ChainValid(r)'
  BY <1>10, <1>12 DEF ChainValid
<1> QED  BY <1>2, <1>13, OnwardIdle

LEMMA AloneStartAppend ==
  ASSUME TypeInv, NEW p \in Procs, NEW r \in Runs, ChainValid(r), NEW e,
         StartAppend(p, r, e.kind, e.says)
  PROVE  Onward(p, r)
<1> DEFINE j == [at |-> "opening", run |-> r, kind |-> e.kind, says |-> e.says]
<1>1. Step(p, j) /\ UNCHANGED <<files, summary>>
  BY DEF StartAppend
<1>2. j.at = "opening" /\ j.run = r /\ j # Idle
  BY DEF Idle
<1> HIDE DEF j
<1>3. job'[p] = j
  BY <1>1, StepJob DEF TypeInv
<1>4. ChainValid(r)'
  BY <1>1, SameChain
<1> QED  BY <1>2, <1>3, <1>4 DEF Onward, AloneOn, WorksOn, Creating, At, Drafting, Closing

LEMMA AloneReadSummary ==
  ASSUME TypeInv, NEW p \in Procs, NEW r \in Runs, WorksOn(p, r),
         Alone(p, r), ReadSummary(p)
  PROVE  Onward(p, r)
<1> DEFINE k == [at |-> "reading", run |-> job[p].run, kind |-> job[p].kind,
                 says |-> job[p].says, read |-> summary[r]]
<1>1. ChainValid(r)
  BY DEF Alone, AloneOn, ReadSummary
<1>2. Step(p, k) /\ UNCHANGED <<files, summary>>
  BY <1>1 DEF ReadSummary, WorksOn, ChainValid, Readable
<1>3. k.at = "reading" /\ k.run = r /\ k.read = summary[r] /\ k # Idle
  BY DEF WorksOn, Idle
<1> HIDE DEF k
<1>4. job'[p] = k
  BY <1>2, StepJob DEF TypeInv
<1>5. ChainValid(r)' /\ summary'[r] = summary[r]
  BY <1>1, <1>2, SameChain
<1> QED  BY <1>3, <1>4, <1>5 DEF Onward, AloneOn, WorksOn, Creating, At, Drafting, Closing

LEMMA AloneReadReceiptsThrows ==
  ASSUME TypeInv, NEW p \in Procs, NEW r \in Runs, WorksOn(p, r),
         Alone(p, r), ReadReceiptsThrows(p)
  PROVE  Onward(p, r)
<1>1. ChainValid(r) /\ job[p].read = summary[r] /\ job[p].run = r
  BY DEF Alone, AloneOn, ReadReceiptsThrows, WorksOn
<1> QED  BY <1>1 DEF ChainValid, ReadReceiptsThrows

LEMMA AloneReadReceipts ==
  ASSUME TypeInv, NEW p \in Procs, NEW r \in Runs, WorksOn(p, r),
         Alone(p, r), ReadReceipts(p)
  PROVE  Onward(p, r)
<1>1. PICK R : R = ReceiptsOf(r)
  OBVIOUS
<1>2. PICK t, n, b : /\ t = NextTimestamp(R)
                     /\ n = IF job[p].kind = "action" THEN ActionNumber(R) ELSE 0
                     /\ b = Receipt(next, job[p].read.last, t, job[p].kind, job[p].says)
  OBVIOUS
<1> DEFINE k == [at |-> "naming", run |-> r, read |-> job[p].read, receipt |-> b,
                 name |-> Name(job[p].kind, t, n)]
<1>3. job[p].run = r
  BY DEF WorksOn
<1>4. At(p, "reading") /\ Step(p, k) /\ UNCHANGED <<files, summary>>
  BY <1>1, <1>2, <1>3, Zenon DEF ReadReceipts
<1>5. ChainValid(r) /\ job[p].read = summary[r]
  BY <1>4 DEF Alone, AloneOn
<1>6. /\ k.at = "naming" /\ k.run = r /\ k.read = summary[r] /\ k.receipt.ts = t
      /\ k # Idle
  BY <1>2, <1>5 DEF Idle, Receipt
<1> HIDE DEF k
<1>7. job'[p] = k
  BY <1>4, StepJob DEF TypeInv
<1>8. \A x \in R : x.ts < t
  BY <1>1, <1>2, <1>5, ReadableHasReceipts, NextTimestampIsLater DEF ChainValid
<1>9. ChainValid(r)' /\ summary'[r] = summary[r] /\ ReceiptsOf(r)' = R
  BY <1>1, <1>4, <1>5, SameChain
<1> QED  BY <1>6, <1>7, <1>8, <1>9 DEF Onward, AloneOn, WorksOn, Creating, At, Drafting, Closing

LEMMA AloneChooseName ==
  ASSUME TypeInv, NEW p \in Procs, NEW r \in Runs, WorksOn(p, r),
         Alone(p, r), ChooseName(p)
  PROVE  Onward(p, r)
<1>1. PICK k : /\ At(p, "naming") /\ Step(p, k) /\ Chosen(job[p], k)
               /\ UNCHANGED <<made, files, summary, now, next, crashes>>
  BY ChooseNameChooses
<1>2. Drafting(job[p]) /\ DraftingOK(job[p])
  BY <1>1, JobAt DEF At, Drafting
<1>3. k.at = "writing" /\ k.run = r /\ k.read = job[p].read /\ k.receipt = job[p].receipt
  BY <1>1, <1>2, ChosenOK DEF WorksOn
<1>4. k # Idle
  BY <1>3 DEF Idle
<1>5. job'[p] = k
  BY <1>1, StepJob DEF TypeInv
<1>6. /\ ChainValid(r) /\ job[p].read = summary[r]
      /\ \A x \in ReceiptsOf(r) : x.ts < job[p].receipt.ts
  BY <1>2 DEF Alone, AloneOn
<1>7. ChainValid(r)' /\ summary'[r] = summary[r] /\ ReceiptsOf(r)' = ReceiptsOf(r)
  BY <1>1, <1>6, SameChain
<1> QED
  BY <1>3, <1>4, <1>5, <1>6, <1>7
  DEF Onward, AloneOn, WorksOn, Creating, At, Drafting, Closing

LEMMA AloneWriteReceipt ==
  ASSUME TypeInv, NEW p \in Procs, NEW r \in Runs, WorksOn(p, r), r \notin contended,
         Alone(p, r), Fresh(p), WriteReceipt(p)
  PROVE  Onward(p, r)
<1>1. PICK j, b, s : j = job[p] /\ b = j.receipt /\ s = j.read
  OBVIOUS
<1> DEFINE k == [at |-> "summarising", run |-> j.run, read |-> s, receipt |-> b]
<1>2. /\ At(p, "writing") /\ j.run = r /\ Put(r, j.name, b) /\ Step(p, k)
      /\ UNCHANGED summary
  BY <1>1 DEF WriteReceipt, WorksOn
<1>3. k.at = "summarising" /\ k.run = r /\ k.read = s /\ k.receipt = b /\ k # Idle
  BY <1>2 DEF Idle
<1> HIDE DEF k
<1>4. job'[p] = k
  BY <1>2, StepJob DEF TypeInv
<1>5. Drafting(job[p]) /\ DraftingOK(j)
  BY <1>1, <1>2, JobAt DEF At, Drafting
<1>6. b \in Receipts /\ b.ts \in Nat /\ b.prev = s.last /\ s \in Summaries
  BY <1>1, <1>5 DEF DraftingOK, DraftingJobs, Receipts
<1>7. PICK R : R = ReceiptsOf(r)
  OBVIOUS
<1>8. ChainValid(r) /\ s = summary[r] /\ \A x \in R : x.ts < b.ts
  BY <1>1, <1>5, <1>7 DEF Alone, AloneOn
<1>9. /\ Linked(R) /\ Cardinality(FilesOf(r)) = s.count /\ Readable(r, s)
      /\ TornReceipt \notin R
  BY <1>7, <1>8 DEF ChainValid, Valid, Readable
<1>10. \A f \in FilesOf(r) : f.name # j.name
  BY <1>1, <1>5 DEF Fresh, FreshFor
<1>11. /\ ReceiptsOf(r)' = R \cup {b}
       /\ Cardinality(FilesOf(r))' = s.count + 1
       /\ \A m : Exists(r, m) => Exists(r, m)'
  BY <1>2, <1>7, <1>9, <1>10, PutNew
<1>12. Linked(R \cup {b}) /\ Newest(b, R \cup {b})
  <2>1. \E x \in R : Newest(x, R) /\ b.prev = x.hash
    BY <1>6, <1>7, <1>8, ValidHasNewest
  <2>2. \A x \in R : x.ts \in Nat
    BY <1>7, FilesTyped DEF TypeInv
  <2> QED  BY <1>6, <1>8, <1>9, <2>1, <2>2, LinkedExtends
<1>13. TornReceipt \notin R \cup {b}
  BY <1>6, <1>9, BodyFacts
<1>14. Readable(r, s)'
  BY <1>9, <1>11, <1>13 DEF Readable
<1>15. Appended(r, s, b)'
  BY <1>11, <1>12, <1>14 DEF Appended
<1>16. s = summary'[r]
  BY <1>2, <1>8
<1> QED
  BY <1>3, <1>4, <1>15, <1>16
  DEF Onward, AloneOn, WorksOn, Creating, At, Drafting, Closing

LEMMA AloneWriteSummary ==
  ASSUME TypeInv, NEW p \in Procs, NEW r \in Runs, WorksOn(p, r),
         Alone(p, r), WriteSummary(p)
  PROVE  Onward(p, r)
<1>1. PICK j, e : j = job[p] /\ e = j.receipt
  OBVIOUS
<1>2. Closing(job[p]) /\ Step(p, Idle) /\ UNCHANGED files /\ j.run = r
  BY <1>1 DEF WriteSummary, At, Closing, WorksOn
<1>3. ClosingOK(j)
  BY <1>1, <1>2, JobAt
<1>4. e \in Receipts /\ e.kind \in Parts /\ j.read \in Summaries
  BY <1>1, <1>3 DEF ClosingOK, ClosingJobs
<1>5. PICK s : /\ summary' = [summary EXCEPT ![r] = s] /\ s.state = "written"
               /\ s.last = e.hash /\ s.count = j.read.count + 1
  <2> DEFINE t == IF e.kind = "action" THEN AfterAction(j.read, e.says)
                                       ELSE AfterVerification(j.read, e.says)
             s == [t EXCEPT !.last = e.hash, !.count = @ + 1]
  <2>1. summary' = [summary EXCEPT ![r] = s]
    BY <1>1, <1>2, Zenon DEF WriteSummary
  <2>2. s.state = "written" /\ s.last = e.hash /\ s.count = j.read.count + 1
    BY <1>4, SummaryAfterSays
  <2> HIDE DEF s
  <2> QED  BY <2>1, <2>2
<1>6. PICK R : R = ReceiptsOf(r)
  OBVIOUS
<1>7. Readable(r, j.read) /\ Linked(R) /\ Newest(e, R) /\ Cardinality(FilesOf(r)) = s.count
  BY <1>1, <1>2, <1>5, <1>6 DEF Alone, AloneOn, Appended
<1>8. Latest(R) = e
  <2>1. \A y, z \in R : y.ts = z.ts => y = z
    BY <1>7 DEF Linked
  <2>2. \A y \in R : y.ts \in Nat
    BY <1>6, FilesTyped DEF TypeInv
  <2> QED  BY <1>7, <2>1, <2>2, LatestIs DEF Newest
<1>9. FilesOf(r)' = FilesOf(r) /\ ReceiptsOf(r)' = R /\ \A m : Exists(r, m)' <=> Exists(r, m)
  BY <1>2, <1>6 DEF FilesOf, ReceiptsOf, Exists
<1>10. Readable(r, s)' /\ Valid(r, s)'
  BY <1>5, <1>6, <1>7, <1>8, <1>9 DEF Readable, Valid
<1>11. summary'[r] = s
  BY <1>5 DEF TypeInv, TypeOK
<1>12. ChainValid(r)'
  BY <1>10, <1>11 DEF ChainValid
<1> QED  BY <1>2, <1>12, OnwardIdle

(* Every step of a process that is alone on a run, or comes to it.          *)
LEMMA AloneActs ==
  ASSUME TypeInv, NEW p \in Procs, NEW r \in Runs, r \notin contended,
         WorksOn(p, r) \/ WorksOn(p, r)', Alone(p, r), Fresh(p),
         \A q \in Procs \ {p} : ~WorksOn(q, r), crashes' = crashes, Acts(p)
  PROVE  Onward(p, r)
<1>1. crashes \in Nat
  BY BoundAssumption DEF TypeInv, TypeOK
<1>2. ~(Crash(p) \/ CrashInReceipt(p) \/ CrashInSummary(p))
  BY <1>1 DEF Crash, CrashInReceipt, CrashInSummary
<1>3. CASE Create(p)
  <2>1. PICK q \in Runs, plan \in Plans : CreateRun(p, q, plan)
    BY <1>3 DEF Create
  <2>2. PICK j : job[p] = Idle /\ Step(p, j) /\ j.run = q
    BY <2>1 DEF CreateRun
  <2>3. q = r
    BY <2>2, StepJob DEF WorksOn, TypeInv
  <2> QED  BY <2>1, <2>3, AloneCreateRun
<1>4. CASE Extend(p)
  <2>1. PICK q \in Runs, e \in Entries : StartAppend(p, q, e.kind, e.says)
    BY <1>4 DEF Extend
  <2>2. PICK j : job[p] = Idle /\ Step(p, j) /\ j.run = q /\ q \in made
    BY <2>1 DEF StartAppend
  <2>3. q = r
    BY <2>2, StepJob DEF WorksOn, TypeInv
  <2>4. ChainValid(r)
    BY <2>2, <2>3 DEF Alone, Unoccupied, WorksOn
  <2> QED  BY <2>1, <2>3, <2>4, AloneStartAppend
<1>5. CASE ~(Create(p) \/ Extend(p))
  <2>1. WorksOn(p, r)
    <3>1. job[p] # Idle
      BY <1>2, <1>5
      DEF Acts, WriteCreationReceipt, WriteCreationSummary, ReadSummary,
          ReadReceiptsThrows, ReadReceipts, ChooseName, WriteReceipt, WriteSummary,
          Creating, At, Idle
    <3>2. job'[p] = Idle \/ job'[p].run = job[p].run
      BY <3>1, FrameOfActs DEF Frame
    <3> QED  BY <3>1, <3>2 DEF WorksOn
  <2> QED
    BY <1>2, <1>5, <2>1, AloneWriteCreationReceipt, AloneWriteCreationSummary,
       AloneReadSummary, AloneReadReceiptsThrows, AloneReadReceipts, AloneChooseName,
       AloneWriteReceipt, AloneWriteSummary
    DEF Acts
<1> QED  BY <1>3, <1>4, <1>5

(* A run that a process has nothing to do with.                             *)
LEMMA AloneElsewhere ==
  ASSUME NEW q \in Procs, NEW r, AloneOn(q, r), job'[q] = job[q],
         FilesOf(r)' = FilesOf(r), summary'[r] = summary[r]
  PROVE  AloneOn(q, r)'
<1>1. ReceiptsOf(r)' = ReceiptsOf(r) /\ \A m : Exists(r, m)' <=> Exists(r, m)
  BY DEF ReceiptsOf, Exists
<1>2. ChainValid(r)' <=> ChainValid(r)
  BY ChainOfSame
<1>3. \A n, h, t : Begun(r, n, h, t)' <=> Begun(r, n, h, t)
  BY <1>1 DEF Begun
<1>4. \A s, e : Appended(r, s, e)' <=> Appended(r, s, e)
  BY <1>1 DEF Appended, Readable
<1> QED  BY <1>1, <1>2, <1>3, <1>4 DEF AloneOn, Creating, At, Drafting, Closing

LEMMA AloneNext ==
  ASSUME TypeInv, Exclusive, FreshNames, AloneInv, [Next]_vars
  PROVE  AloneInv'
<1> SUFFICES ASSUME crashes' = 0, NEW r \in made' \ contended'
             PROVE  /\ Unoccupied(r)' => ChainValid(r)'
                    /\ \A q \in Procs : WorksOn(q, r)' => AloneOn(q, r)'
  BY DEF AloneInv
<1>0. TypeInv' /\ r \in Runs
  BY TypeNext DEF TypeInv, TypeOK
<1>1. ASSUME NEW p \in Procs, Acts(p)
      PROVE  /\ Unoccupied(r)' => ChainValid(r)'
             /\ \A q \in Procs : WorksOn(q, r)' => AloneOn(q, r)'
  <2>1. Frame(p) /\ Fresh(p)
    BY <1>1, FrameOfActs DEF FreshNames
  <2>2. r \notin contended /\ crashes = 0
    BY <2>1, BoundAssumption DEF Frame, TypeInv, TypeOK
  <2>3. \A q \in Procs \ {p} : WorksOn(q, r)' <=> WorksOn(q, r)
    BY <2>1 DEF Frame, WorksOn
  <2>4. CASE WorksOn(p, r) \/ WorksOn(p, r)'
    <3>1. \A q \in Procs \ {p} : ~WorksOn(q, r)
      BY <1>0, <2>1, <2>2, <2>4 DEF Exclusive, Frame
    <3>2. Alone(p, r)
      <4>1. WorksOn(p, r) => r \in made
        BY DEF WorksOn, TypeInv, JobsOK
      <4> QED  BY <2>2, <4>1 DEF Alone, AloneInv
    <3>3. Onward(p, r)
      BY <1>0, <1>1, <2>1, <2>2, <2>4, <3>1, <3>2, AloneActs
    <3> QED  BY <2>3, <3>1, <3>3 DEF Onward, Unoccupied
  <2>5. CASE ~WorksOn(p, r) /\ ~WorksOn(p, r)'
    <3>1. FilesOf(r)' = FilesOf(r) /\ summary'[r] = summary[r]
      BY <1>0, <2>1, <2>5 DEF Frame
    <3>2. \A q \in Procs : WorksOn(q, r)' <=> WorksOn(q, r)
      BY <2>3, <2>5
    <3>3. r \in made
      <4>1. CASE Create(p)
        <5>1. PICK s \in Runs, plan \in Plans : CreateRun(p, s, plan)
          BY <4>1 DEF Create
        <5>2. PICK j : Step(p, j) /\ j.run = s /\ j.at = "creating" /\ made' = made \cup {s}
          BY <5>1 DEF CreateRun
        <5>3. s # r
          BY <2>5, <5>2, StepJob DEF WorksOn, TypeInv, Idle
        <5> QED  BY <5>2, <5>3
      <4>2. CASE ~Create(p)
        BY <1>1, <4>2
        DEF Acts, WriteCreationReceipt, WriteCreationSummary, Extend, StartAppend,
            ReadSummary, ReadReceiptsThrows, ReadReceipts, ChooseName, WriteReceipt,
            WriteSummary, Crash, CrashInReceipt, CrashInSummary
      <4> QED  BY <4>1, <4>2
    <3>4. /\ Unoccupied(r) => ChainValid(r)
          /\ \A q \in Procs : WorksOn(q, r) => AloneOn(q, r)
      BY <2>2, <3>3 DEF AloneInv
    <3>5. Unoccupied(r)' => ChainValid(r)'
      BY <3>1, <3>2, <3>4, ChainOfSame DEF Unoccupied
    <3>6. ASSUME NEW q \in Procs, WorksOn(q, r)' PROVE AloneOn(q, r)'
      <4>1. job'[q] = job[q]
        BY <2>1, <2>5, <3>6 DEF Frame
      <4> QED  BY <3>1, <3>2, <3>4, <3>6, <4>1, AloneElsewhere
    <3> QED  BY <3>5, <3>6
  <2> QED  BY <2>4, <2>5
<1>2. CASE Clock \/ UNCHANGED vars
  <2>1. UNCHANGED <<made, files, summary, job, crashes, contended>>
    BY <1>2 DEF Clock, vars
  <2>2. FilesOf(r)' = FilesOf(r) /\ summary'[r] = summary[r]
    BY <2>1 DEF FilesOf
  <2>3. \A q \in Procs : job'[q] = job[q] /\ (WorksOn(q, r)' <=> WorksOn(q, r))
    BY <2>1 DEF WorksOn
  <2>4. /\ Unoccupied(r) => ChainValid(r)
        /\ \A q \in Procs : WorksOn(q, r) => AloneOn(q, r)
    BY <2>1 DEF AloneInv
  <2> QED  BY <2>2, <2>3, <2>4, AloneElsewhere, ChainOfSame DEF Unoccupied
<1> QED  BY <1>1, <1>2, StepsAre

(* Without a crash, a run that no two processes were at work on at once has *)
(* a valid chain whenever nobody is at work on it, for any clock            *)
(* (agent-run.ts:394-402).                                                  *)
THEOREM IdleChainValidCorrect == Spec => []IdleChainValid
<1> DEFINE Inv == TypeInv /\ Exclusive /\ FreshNames /\ AloneInv
<1>1. Init => Inv
  BY TypeInit, FreshInit DEF Init, AloneInv
<1>2. Inv /\ [Next]_vars => Inv'
  BY TypeNext, ExclusiveNext, FreshNext, AloneNext
<1>3. Inv => IdleChainValid
  BY DEF AloneInv, IdleChainValid, Unoccupied
<1> QED  BY <1>1, <1>2, <1>3, PTL DEF Spec

-----------------------------------------------------------------------------
(* Which hashes are mentioned as the last or the previous of a chain: that  *)
(* of a drafted receipt is not, until it is written.                        *)

Holds(j) == Drafting(j) \/ Closing(j)
Reads(j) == j.at = "reading" \/ Holds(j)

MentionedBy(j, h) ==
  \/ Reads(j) /\ j.read.last = h
  \/ j.at = "creating" /\ j.last = h
Mentioned(h) ==
  \/ \E r \in Runs : summary[r].state = "written" /\ summary[r].last = h
  \/ \E p \in Procs : MentionedBy(job[p], h)
  \/ \E f \in files : f.body # TornReceipt /\ f.body.prev = h

OwnHash(p) ==
  /\ Drafting(job[p]) =>
       /\ ~Mentioned(job[p].receipt.hash)
       /\ \A f \in files : f.body # TornReceipt => f.body.hash # job[p].receipt.hash
  /\ Closing(job[p]) =>
       \A f \in files : f.body # TornReceipt /\ f.body.hash = job[p].receipt.hash
                          => f.body = job[p].receipt

HashInv ==
  /\ \A h : Mentioned(h) => h \in Nat /\ h < next
  /\ \A f \in files : f.body # TornReceipt => f.body.hash < next
  /\ \A p \in Procs : Holds(job[p]) => job[p].receipt.hash < next
  /\ \A p, q \in Procs : p # q /\ Holds(job[p]) /\ Holds(job[q]) =>
       job[p].receipt.hash # job[q].receipt.hash
  /\ \A p \in Procs : OwnHash(p)

LEMMA HeldReceipt ==
  ASSUME TypeInv, NEW p \in Procs, Holds(job[p])
  PROVE  /\ job[p].receipt \in Receipts /\ job[p].read \in Summaries
         /\ job[p].receipt.hash \in Nat /\ job[p].receipt.hash > 0
         /\ job[p].receipt.kind \in Parts /\ job[p].receipt.prev = job[p].read.last
         /\ job[p].run \in made /\ job[p].run \in Runs /\ job[p] # Idle
<1>1. job[p] # Idle
  BY DEF Holds, Drafting, Closing, Idle
<1>2. /\ job[p].receipt \in Receipts /\ job[p].read \in Summaries
      /\ job[p].receipt.kind \in Parts /\ job[p].receipt.prev = job[p].read.last
  BY JobAt DEF Holds, DraftingOK, DraftingJobs, ClosingOK, ClosingJobs
<1>3. job[p].receipt.hash \in 1..MaxReceipt
  BY <1>2 DEF Receipts
<1> QED  BY <1>1, <1>2, <1>3, RunOfJob, BoundAssumption

(* One hash at most is new: it was just drawn, or the process held it.      *)
LEMMA HashStep ==
  ASSUME TypeInv, HashInv, NEW p \in Procs, NEW h0,
         \A q \in Procs \ {p} : job'[q] = job[q],
         \/ h0 = next /\ next' = next + 1
         \/ h0 = NoHash /\ next' = next
         \/ Holds(job[p]) /\ h0 = job[p].receipt.hash /\ next' = next,
         \A r \in Runs : \/ summary'[r] = summary[r]
                         \/ summary'[r].state # "written"
                         \/ summary'[r].last = h0
                         \/ Mentioned(summary'[r].last),
         \A h : MentionedBy(job'[p], h) => Mentioned(h) \/ h = h0,
         \A f \in files' : \/ f \in files
                           \/ f.body = TornReceipt
                           \/ f.body.hash = h0 /\ Mentioned(f.body.prev),
         Holds(job'[p]) => job'[p].receipt.hash = h0,
         OwnHash(p)'
  PROVE  HashInv'
<1>1. \A h : Mentioned(h)' => Mentioned(h) \/ h = h0
  <2> SUFFICES ASSUME NEW h, Mentioned(h)' PROVE Mentioned(h) \/ h = h0
    OBVIOUS
  <2>1. CASE \E r \in Runs : summary'[r].state = "written" /\ summary'[r].last = h
    BY <2>1 DEF Mentioned
  <2>2. CASE \E q \in Procs : MentionedBy(job'[q], h)
    <3> HIDE DEF MentionedBy
    <3> QED  BY <2>2 DEF Mentioned
  <2>3. CASE \E f \in files' : f.body # TornReceipt /\ f.body.prev = h
    BY <2>3 DEF Mentioned
  <2> QED  BY <2>1, <2>2, <2>3 DEF Mentioned, MentionedBy, Reads, Holds, Drafting, Closing
<1>2. next \in Nat /\ next > 0
  BY BoundAssumption DEF TypeInv, TypeOK
<1>3. h0 \in Nat /\ h0 < next' /\ next <= next' /\ next' \in Nat
  <2>1. CASE Holds(job[p]) /\ h0 = job[p].receipt.hash /\ next' = next
    BY <1>2, <2>1, HeldReceipt DEF HashInv
  <2> QED  BY <1>2, <2>1 DEF NoHash
<1>4. \A q \in Procs \ {p} : Holds(job[q]) =>
        /\ job[q].receipt.hash # h0 /\ job[q].receipt.hash \in Nat
        /\ job[q].receipt.hash < next
  <2> TAKE q \in Procs \ {p}
  <2> HAVE Holds(job[q])
  <2>1. /\ job[q].receipt.hash \in Nat /\ job[q].receipt.hash > 0
        /\ job[q].receipt.hash < next
    BY HeldReceipt DEF HashInv
  <2>2. Holds(job[p]) => job[p].receipt.hash # job[q].receipt.hash
    BY DEF HashInv
  <2> QED  BY <1>2, <2>1, <2>2 DEF NoHash
<1>5. \A h : Mentioned(h)' => h \in Nat /\ h < next'
  <2> SUFFICES ASSUME NEW h, Mentioned(h)' PROVE h \in Nat /\ h < next'
    OBVIOUS
  <2>1. CASE Mentioned(h)
    <3>1. h \in Nat /\ h < next
      BY <2>1 DEF HashInv
    <3> QED  BY <1>2, <1>3, <3>1
  <2> QED  BY <1>1, <1>3, <2>1
<1>6. \A f \in files' : f.body # TornReceipt => f.body.hash < next'
  <2> SUFFICES ASSUME NEW f \in files', f.body # TornReceipt PROVE f.body.hash < next'
    OBVIOUS
  <2>1. CASE f \in files
    <3>1. f.body \in Receipts
      BY <2>1, FilesTyped, BodyFacts DEF TypeInv
    <3>2. f.body.hash \in Nat
      BY <3>1, BoundAssumption DEF Receipts
    <3>3. f.body.hash < next
      BY <2>1 DEF HashInv
    <3> QED  BY <1>2, <1>3, <3>2, <3>3
  <2> QED  BY <1>3, <2>1
<1>7. \A q \in Procs : Holds(job'[q]) => job'[q].receipt.hash < next'
  <2> SUFFICES ASSUME NEW q \in Procs, Holds(job'[q]) PROVE job'[q].receipt.hash < next'
    OBVIOUS
  <2>1. CASE q = p
    BY <1>3, <2>1
  <2>2. CASE q # p
    BY <1>2, <1>3, <1>4, <2>2
  <2> QED  BY <2>1, <2>2
<1>8. \A q, s \in Procs : q # s /\ Holds(job'[q]) /\ Holds(job'[s]) =>
        job'[q].receipt.hash # job'[s].receipt.hash
  <2> SUFFICES ASSUME NEW q \in Procs, NEW s \in Procs, q # s, Holds(job'[q]), Holds(job'[s])
               PROVE  job'[q].receipt.hash # job'[s].receipt.hash
    OBVIOUS
  <2>1. CASE q = p
    BY <1>4, <2>1
  <2>2. CASE s = p
    BY <1>4, <2>2
  <2>3. CASE q # p /\ s # p
    BY <2>3 DEF HashInv
  <2> QED  BY <2>1, <2>2, <2>3
<1>9. ASSUME NEW q \in Procs \ {p} PROVE OwnHash(q)'
  <2>1. PICK j, hq : j = job[q] /\ hq = j.receipt.hash /\ job'[q] = j
    OBVIOUS
  <2>2. ASSUME Drafting(j)
        PROVE  /\ ~Mentioned(hq)'
               /\ \A f \in files' : f.body # TornReceipt => f.body.hash # hq
    <3>1. /\ ~Mentioned(hq)
          /\ \A f \in files : f.body # TornReceipt => f.body.hash # hq
      BY <2>1, <2>2 DEF HashInv, OwnHash
    <3>2. hq # h0
      BY <1>4, <2>1, <2>2 DEF Holds
    <3> QED  BY <1>1, <3>1, <3>2
  <2>3. ASSUME Closing(j), NEW f \in files', f.body # TornReceipt, f.body.hash = hq
        PROVE  f.body = j.receipt
    <3>1. hq # h0
      BY <1>4, <2>1, <2>3 DEF Holds
    <3>2. f \in files
      BY <2>3, <3>1
    <3> QED  BY <2>1, <2>3, <3>2 DEF HashInv, OwnHash
  <2>4. \A h : h = hq => (Mentioned(h)' <=> Mentioned(hq)')
    OBVIOUS
  <2> QED  BY <2>1, <2>2, <2>3, <2>4 DEF OwnHash
<1>10. \A q \in Procs : OwnHash(q)'
  BY <1>9
<1> QED  BY <1>5, <1>6, <1>7, <1>8, <1>10 DEF HashInv

(* A step after which the process holds no receipt.                         *)
LEMMA HashDrop ==
  ASSUME TypeInv, HashInv, NEW p \in Procs, NEW j, Step(p, j), next' = next,
         j.at \in {"idle", "opening"},
         \A r \in Runs : summary'[r] = summary[r] \/ summary'[r].state # "written",
         \A f \in files' : f \in files \/ f.body = TornReceipt
  PROVE  HashInv'
<1>1. job'[p] = j /\ \A q \in Procs \ {p} : job'[q] = job[q]
  BY StepJob DEF TypeInv
<1>2. ~Holds(j) /\ ~Drafting(j) /\ ~Closing(j) /\ \A h : ~MentionedBy(j, h)
  BY DEF MentionedBy, Reads, Holds, Drafting, Closing
<1>3. OwnHash(p)'
  BY <1>1, <1>2 DEF OwnHash
<1> QED  BY <1>1, <1>2, <1>3, HashStep

LEMMA HashCreateRun ==
  ASSUME TypeInv, HashInv, NEW p \in Procs, NEW r \in Runs, NEW plan \in Plans,
         CreateRun(p, r, plan)
  PROVE  HashInv'
<1> DEFINE j == [at |-> "creating", run |-> r, plan |-> plan, created |-> now,
                 written |-> 0, last |-> NoHash]
<1>1. Step(p, j) /\ UNCHANGED <<files, summary, next>>
  BY DEF CreateRun
<1>2. ~Holds(j) /\ ~Drafting(j) /\ ~Closing(j) /\ \A h : MentionedBy(j, h) => h = NoHash
  BY DEF MentionedBy, Reads, Holds, Drafting, Closing
<1> HIDE DEF j
<1>3. job'[p] = j /\ \A q \in Procs \ {p} : job'[q] = job[q]
  BY <1>1, StepJob DEF TypeInv
<1>4. OwnHash(p)'
  BY <1>2, <1>3 DEF OwnHash
<1> QED  BY <1>1, <1>2, <1>3, <1>4, HashStep

LEMMA HashWriteCreationReceipt ==
  ASSUME TypeInv, HashInv, NEW p \in Procs, WriteCreationReceipt(p)
  PROVE  HashInv'
<1> DEFINE k == [job[p] EXCEPT !.written = @ + 1, !.last = next]
<1>1. PICK j, h, b : j = job[p] /\ h = next /\ b = CreationReceipt(j, h)
  OBVIOUS
<1>2. /\ Creating(p) /\ Step(p, k) /\ next' = next + 1 /\ UNCHANGED summary
      /\ Put(j.run, CreationName(j), b) /\ j.written < Planned(j) /\ h \in 1..MaxReceipt
  BY <1>1, BoundAssumption DEF WriteCreationReceipt, TypeInv, TypeOK
<1>3. CreatingOK(j) /\ j.at = "creating"
  BY <1>1, <1>2, JobAt DEF Creating
<1>4. k.at = "creating" /\ k.last = h
  BY <1>1, <1>3 DEF CreatingOK, CreatingJobs
<1> HIDE DEF k
<1>5. ~Holds(k) /\ ~Drafting(k) /\ ~Closing(k) /\ \A x : MentionedBy(k, x) => x = h
  BY <1>4 DEF MentionedBy, Reads, Holds, Drafting, Closing
<1>6. job'[p] = k /\ \A q \in Procs \ {p} : job'[q] = job[q]
  BY <1>2, StepJob DEF TypeInv
<1>7. b.hash = h /\ b.prev = j.last
  BY <1>1, <1>2, <1>3, CreationReceiptTyped
<1>8. Mentioned(j.last)
  BY <1>1, <1>3 DEF Mentioned, MentionedBy
<1>9. \A f \in files' : f \in files \/ (f.body.hash = h /\ Mentioned(f.body.prev))
  BY <1>2, <1>7, <1>8 DEF Put, File
<1>10. OwnHash(p)'
  BY <1>5, <1>6 DEF OwnHash
<1> QED  BY <1>1, <1>2, <1>5, <1>6, <1>9, <1>10, HashStep

LEMMA HashWriteCreationSummary ==
  ASSUME TypeInv, HashInv, NEW p \in Procs, WriteCreationSummary(p)
  PROVE  HashInv'
<1>1. PICK j : j = job[p]
  OBVIOUS
<1>2. Creating(p) /\ Step(p, Idle) /\ UNCHANGED <<files, next>>
  BY DEF WriteCreationSummary
<1>3. PICK s : summary' = [summary EXCEPT ![j.run] = s] /\ s.last = j.last
  <2> DEFINE s == [state |-> "written", last |-> j.last, count |-> j.written,
               status |-> IF PlanBlocked(j.plan) THEN "stopped_blocked"
                          ELSE IF PlanPending(j.plan) THEN "stopped_for_approval"
                          ELSE "planned",
               onlyPlanned |-> TRUE, orchestrated |-> FALSE, external |-> FALSE,
               verified |-> FALSE, forApproval |-> PlanPending(j.plan),
               dueBlocked |-> PlanBlocked(j.plan)]
  <2>1. summary' = [summary EXCEPT ![j.run] = s]
    BY <1>1, Zenon DEF WriteCreationSummary
  <2>2. s.last = j.last
    OBVIOUS
  <2> HIDE DEF s
  <2> QED  BY <2>1, <2>2
<1>4. Mentioned(j.last)
  BY <1>1, <1>2 DEF Mentioned, MentionedBy, Creating
<1>5. job'[p] = Idle /\ \A q \in Procs \ {p} : job'[q] = job[q]
  BY <1>2, StepJob DEF TypeInv
<1>6. ~Holds(Idle) /\ ~Drafting(Idle) /\ ~Closing(Idle) /\ \A x : ~MentionedBy(Idle, x)
  BY DEF MentionedBy, Reads, Holds, Drafting, Closing, Idle
<1>7. \A r \in Runs : summary'[r] = summary[r] \/ Mentioned(summary'[r].last)
  BY <1>3, <1>4 DEF TypeInv, TypeOK
<1>8. OwnHash(p)'
  BY <1>5, <1>6 DEF OwnHash
<1> QED  BY <1>2, <1>5, <1>6, <1>7, <1>8, HashStep

LEMMA HashReadSummary ==
  ASSUME TypeInv, HashInv, NEW p \in Procs, ReadSummary(p)
  PROVE  HashInv'
<1>1. At(p, "opening") /\ UNCHANGED <<files, summary, next>>
  BY DEF ReadSummary
<1>2. PICK r \in Runs : r = job[p].run
  BY <1>1, RunOfJob DEF At, Idle
<1>3. CASE summary[r].state # "written"
  <2>1. Step(p, Idle) /\ Idle.at = "idle"
    BY <1>2, <1>3 DEF ReadSummary, Idle
  <2> QED  BY <1>1, <2>1, HashDrop
<1>4. CASE summary[r].state = "written"
  <2> DEFINE k == [at |-> "reading", run |-> r, kind |-> job[p].kind,
                   says |-> job[p].says, read |-> summary[r]]
  <2>1. Step(p, k)
    BY <1>2, <1>4 DEF ReadSummary
  <2>2. ~Holds(k) /\ ~Drafting(k) /\ ~Closing(k)
        /\ \A x : MentionedBy(k, x) => x = summary[r].last
    BY DEF MentionedBy, Reads, Holds, Drafting, Closing
  <2>3. Mentioned(summary[r].last)
    BY <1>4 DEF Mentioned
  <2> HIDE DEF k
  <2>4. job'[p] = k /\ \A q \in Procs \ {p} : job'[q] = job[q]
    BY <2>1, StepJob DEF TypeInv
  <2>5. OwnHash(p)'
    BY <2>2, <2>4 DEF OwnHash
  <2> QED  BY <1>1, <2>2, <2>3, <2>4, <2>5, HashStep
<1> QED  BY <1>3, <1>4

(* Where only the job of the process changes, and it mentions nothing else, *)
(* nothing else is mentioned.                                               *)
LEMMA MentionsKept ==
  ASSUME NEW p \in Procs, UNCHANGED <<files, summary>>,
         \A q \in Procs \ {p} : job'[q] = job[q],
         \A h : MentionedBy(job'[p], h) => MentionedBy(job[p], h)
  PROVE  \A h : Mentioned(h)' => Mentioned(h)
<1> SUFFICES ASSUME NEW h, Mentioned(h)' PROVE Mentioned(h)
  OBVIOUS
<1>1. \A q \in Procs : MentionedBy(job'[q], h) => MentionedBy(job[q], h)
  OBVIOUS
<1>2. \/ \E r \in Runs : summary[r].state = "written" /\ summary[r].last = h
      \/ \E q \in Procs : MentionedBy(job'[q], h)
      \/ \E f \in files : f.body # TornReceipt /\ f.body.prev = h
  BY DEF Mentioned, MentionedBy, Reads, Holds, Drafting, Closing
<1> HIDE DEF MentionedBy
<1> QED  BY <1>1, <1>2 DEF Mentioned

LEMMA HashReadReceipts ==
  ASSUME TypeInv, HashInv, NEW p \in Procs, ReadReceipts(p)
  PROVE  HashInv'
<1>1. /\ At(p, "reading") /\ next' = next + 1 /\ UNCHANGED <<files, summary>>
  BY DEF ReadReceipts
<1>2. PICK h : h = next
  OBVIOUS
<1>3. PICK k : /\ Step(p, k) /\ k.at = "naming" /\ k.read = job[p].read
               /\ k.receipt.hash = h
  BY <1>2 DEF ReadReceipts, Receipt
<1>4. job'[p] = k /\ \A q \in Procs \ {p} : job'[q] = job[q]
  BY <1>3, StepJob DEF TypeInv
<1>5. \A x : MentionedBy(k, x) => MentionedBy(job[p], x)
  BY <1>1, <1>3 DEF MentionedBy, Reads, Holds, Drafting, Closing, At
<1>6. \A x : Mentioned(x)' => Mentioned(x)
  BY <1>1, <1>4, <1>5, MentionsKept
<1>7. h \in Nat
  BY <1>2, BoundAssumption DEF TypeInv, TypeOK
<1>8. ~Mentioned(h)
  BY <1>2, <1>7 DEF HashInv
<1>9. \A f \in files : f.body # TornReceipt => f.body.hash # h
  BY <1>2, <1>7 DEF HashInv
<1>10. OwnHash(p)'
  <2>1. Drafting(k) /\ ~Closing(k)
    BY <1>3 DEF Drafting, Closing
  <2>2. ~Mentioned(h)'
    BY <1>6, <1>8
  <2>3. \A x : x = h => (Mentioned(x)' <=> Mentioned(h)')
    OBVIOUS
  <2> QED  BY <1>1, <1>3, <1>4, <1>9, <2>1, <2>2, <2>3 DEF OwnHash
<1>11. \A x : MentionedBy(k, x) => Mentioned(x)
  <2> HIDE DEF MentionedBy
  <2> QED  BY <1>5 DEF Mentioned
<1> QED  BY <1>1, <1>2, <1>3, <1>4, <1>10, <1>11, HashStep

LEMMA HashChooseName ==
  ASSUME TypeInv, HashInv, NEW p \in Procs, ChooseName(p)
  PROVE  HashInv'
<1>1. PICK k : /\ At(p, "naming") /\ Step(p, k) /\ Chosen(job[p], k)
               /\ UNCHANGED <<made, files, summary, now, next, crashes>>
  BY ChooseNameChooses
<1>2. Drafting(job[p]) /\ DraftingOK(job[p])
  BY <1>1, JobAt DEF At, Drafting
<1>3. k.at = "writing" /\ k.read = job[p].read /\ k.receipt = job[p].receipt
  BY <1>1, <1>2, ChosenOK
<1>4. job'[p] = k /\ \A q \in Procs \ {p} : job'[q] = job[q]
  BY <1>1, StepJob DEF TypeInv
<1>5. \A x : MentionedBy(k, x) => MentionedBy(job[p], x)
  BY <1>2, <1>3 DEF MentionedBy, Reads, Holds, Drafting, Closing
<1>6. \A x : Mentioned(x)' => Mentioned(x)
  BY <1>1, <1>4, <1>5, MentionsKept
<1>7. PICK h : h = job[p].receipt.hash
  OBVIOUS
<1>8. /\ ~Mentioned(h)
      /\ \A f \in files : f.body # TornReceipt => f.body.hash # h
  BY <1>2, <1>7 DEF HashInv, OwnHash
<1>9. OwnHash(p)'
  <2>1. Drafting(k) /\ ~Closing(k)
    BY <1>3 DEF Drafting, Closing
  <2>2. ~Mentioned(h)'
    BY <1>6, <1>8
  <2>3. \A x : x = h => (Mentioned(x)' <=> Mentioned(h)')
    OBVIOUS
  <2> QED  BY <1>1, <1>3, <1>4, <1>7, <1>8, <2>1, <2>2, <2>3 DEF OwnHash
<1>10. \A x : MentionedBy(k, x) => Mentioned(x)
  <2> HIDE DEF MentionedBy
  <2> QED  BY <1>5 DEF Mentioned
<1>11. Holds(job[p])
  BY <1>2 DEF Holds
<1> QED  BY <1>1, <1>3, <1>4, <1>7, <1>9, <1>10, <1>11, HashStep

LEMMA HashWriteReceipt ==
  ASSUME TypeInv, HashInv, NEW p \in Procs, WriteReceipt(p)
  PROVE  HashInv'
<1>1. PICK j, b, h : j = job[p] /\ b = j.receipt /\ h = b.hash
  OBVIOUS
<1>2. PICK k : /\ Step(p, k) /\ k.at = "summarising" /\ k.read = j.read /\ k.receipt = b
  BY <1>1 DEF WriteReceipt
<1>3. /\ At(p, "writing") /\ UNCHANGED <<summary, next>> /\ Put(j.run, j.name, b)
  BY <1>1 DEF WriteReceipt
<1>4. Drafting(j) /\ Holds(j) /\ Reads(j)
  BY <1>1, <1>3 DEF At, Drafting, Holds, Reads
<1>5. job'[p] = k /\ \A q \in Procs \ {p} : job'[q] = job[q]
  BY <1>2, StepJob DEF TypeInv
<1>6. \A x : MentionedBy(k, x) => MentionedBy(j, x)
  BY <1>2, <1>4 DEF MentionedBy, Reads, Holds, Drafting, Closing
<1>7. \A x : MentionedBy(k, x) => Mentioned(x)
  <2> HIDE DEF MentionedBy
  <2> QED  BY <1>1, <1>6 DEF Mentioned
<1>8. Mentioned(b.prev)
  <2>1. b.prev = j.read.last
    BY <1>1, <1>4, HeldReceipt
  <2> QED  BY <1>1, <1>4, <2>1 DEF Mentioned, MentionedBy
<1>9. \A f \in files' : f \in files \/ f.body = b
  BY <1>3 DEF Put, File
<1>10. \A f \in files : f.body # TornReceipt => f.body.hash # h
  BY <1>1, <1>4 DEF HashInv, OwnHash
<1>11. OwnHash(p)'
  <2>1. ~Drafting(k)
    BY <1>2 DEF Drafting
  <2> QED  BY <1>1, <1>2, <1>5, <1>9, <1>10, <2>1 DEF OwnHash
<1>12. \A f \in files' : f \in files \/ (f.body.hash = h /\ Mentioned(f.body.prev))
  BY <1>1, <1>8, <1>9
<1> QED  BY <1>1, <1>2, <1>3, <1>4, <1>5, <1>7, <1>11, <1>12, HashStep

(* The summary that an append writes.                                       *)
Appends(p, s) ==
  /\ summary' = [summary EXCEPT ![job[p].run] = s]
  /\ s.state = "written" /\ s.last = job[p].receipt.hash
  /\ LET e == job[p].receipt
         d == job[p].read
     IN
     /\ e.kind = "action" =>
          s.verified = FALSE /\ s.onlyPlanned = (d.onlyPlanned /\ ~e.says.executed)
     /\ e.kind # "action" =>
          /\ s.verified = (e.says.outcome # "failed") /\ s.onlyPlanned = FALSE
          /\ s.external = (e.says.outcome = "external")
          /\ s.orchestrated = (e.says.outcome = "orchestrated")

LEMMA WriteSummaryAppends ==
  ASSUME TypeInv, NEW p \in Procs, WriteSummary(p)
  PROVE  /\ Closing(job[p]) /\ Step(p, Idle) /\ UNCHANGED <<made, files, now, next, crashes>>
         /\ \E s : Appends(p, s)
<1>1. /\ Closing(job[p]) /\ Step(p, Idle) /\ UNCHANGED <<made, files, now, next, crashes>>
  BY DEF WriteSummary, At, Closing
<1>2. PICK j, e, d : j = job[p] /\ e = j.receipt /\ d = j.read
  OBVIOUS
<1>3. e \in Receipts /\ d \in Summaries
  BY <1>1, <1>2, HeldReceipt DEF Holds
<1> DEFINE t == IF e.kind = "action" THEN AfterAction(d, e.says)
                                     ELSE AfterVerification(d, e.says)
           s == [t EXCEPT !.last = e.hash, !.count = @ + 1]
<1>4. summary' = [summary EXCEPT ![j.run] = s]
  BY <1>2, Zenon DEF WriteSummary
<1>5. /\ s.state = "written" /\ s.last = e.hash
      /\ e.kind = "action" =>
           s.verified = FALSE /\ s.onlyPlanned = (d.onlyPlanned /\ ~e.says.executed)
      /\ e.kind # "action" =>
           /\ s.verified = (e.says.outcome # "failed") /\ s.onlyPlanned = FALSE
           /\ s.external = (e.says.outcome = "external")
           /\ s.orchestrated = (e.says.outcome = "orchestrated")
  BY <1>3, SummaryAfterSays
<1> HIDE DEF s
<1>6. Appends(p, s)
  BY <1>2, <1>4, <1>5 DEF Appends
<1> QED  BY <1>1, <1>6

LEMMA HashWriteSummary ==
  ASSUME TypeInv, HashInv, NEW p \in Procs, WriteSummary(p)
  PROVE  HashInv'
<1>1. /\ Closing(job[p]) /\ Step(p, Idle) /\ UNCHANGED <<files, next>>
      /\ \E s : Appends(p, s)
  BY WriteSummaryAppends
<1>2. PICK s, h : Appends(p, s) /\ h = job[p].receipt.hash
  BY <1>1
<1>3. \A r \in Runs : summary'[r] = summary[r] \/ summary'[r].last = h
  BY <1>2 DEF Appends, TypeInv, TypeOK
<1>4. job'[p] = Idle /\ \A q \in Procs \ {p} : job'[q] = job[q]
  BY <1>1, StepJob DEF TypeInv
<1>5. ~Holds(Idle) /\ ~Drafting(Idle) /\ ~Closing(Idle) /\ \A x : ~MentionedBy(Idle, x)
  BY DEF MentionedBy, Reads, Holds, Drafting, Closing, Idle
<1>6. OwnHash(p)'
  BY <1>4, <1>5 DEF OwnHash
<1>7. Holds(job[p])
  BY <1>1 DEF Holds
<1> QED  BY <1>1, <1>2, <1>3, <1>4, <1>5, <1>6, <1>7, HashStep

LEMMA HashNext ==
  ASSUME TypeInv, HashInv, [Next]_vars
  PROVE  HashInv'
<1>0. Idle.at = "idle"
  BY DEF Idle
<1>1. ASSUME NEW p \in Procs, Create(p) PROVE HashInv'
  BY <1>1, HashCreateRun DEF Create
<1>2. ASSUME NEW p \in Procs, Extend(p) PROVE HashInv'
  <2>1. PICK j : Step(p, j) /\ j.at = "opening" /\ UNCHANGED <<files, summary, next>>
    BY <1>2 DEF Extend, StartAppend
  <2> QED  BY <2>1, HashDrop
<1>3. ASSUME NEW p \in Procs, ReadReceiptsThrows(p) PROVE HashInv'
  <2>1. Step(p, Idle) /\ UNCHANGED <<files, summary, next>>
    BY <1>3 DEF ReadReceiptsThrows
  <2> QED  BY <1>0, <2>1, HashDrop
<1>4. ASSUME NEW p \in Procs, Crash(p) PROVE HashInv'
  <2>1. Step(p, Idle) /\ UNCHANGED <<files, summary, next>>
    BY <1>4 DEF Crash
  <2> QED  BY <1>0, <2>1, HashDrop
<1>5. ASSUME NEW p \in Procs, CrashInReceipt(p) PROVE HashInv'
  <2>1. Step(p, Idle) /\ UNCHANGED <<summary, next>>
    BY <1>5 DEF CrashInReceipt
  <2>2. \A f \in files' : f \in files \/ f.body = TornReceipt
    BY <1>5 DEF CrashInReceipt, Put, File
  <2> QED  BY <1>0, <2>1, <2>2, HashDrop
<1>6. ASSUME NEW p \in Procs, CrashInSummary(p) PROVE HashInv'
  <2>1. /\ Step(p, Idle) /\ UNCHANGED <<files, next>>
        /\ summary' = [summary EXCEPT ![job[p].run] = Torn]
    BY <1>6 DEF CrashInSummary
  <2>2. \A r \in Runs : summary'[r] = summary[r] \/ summary'[r].state # "written"
    BY <2>1 DEF TypeInv, TypeOK, Torn
  <2> QED  BY <1>0, <2>1, <2>2, HashDrop
<1>7. CASE Clock \/ UNCHANGED vars
  <2>1. UNCHANGED <<files, summary, job, next>>
    BY <1>7 DEF Clock, vars
  <2>2. \A h : Mentioned(h)' <=> Mentioned(h)
    BY <2>1 DEF Mentioned, MentionedBy
  <2>3. \A q \in Procs : OwnHash(q)' <=> OwnHash(q)
    BY <2>1, <2>2 DEF OwnHash
  <2> QED  BY <2>1, <2>2, <2>3 DEF HashInv
<1> QED
  BY <1>1, <1>2, <1>3, <1>4, <1>5, <1>6, <1>7, HashWriteCreationReceipt,
     HashWriteCreationSummary, HashReadSummary, HashReadReceipts, HashChooseName,
     HashWriteReceipt, HashWriteSummary
  DEF Next

LEMMA HashInit == Init => HashInv
<1> SUFFICES ASSUME Init PROVE HashInv
  OBVIOUS
<1>1. \A p \in Procs : /\ ~Holds(job[p]) /\ ~Drafting(job[p]) /\ ~Closing(job[p])
                       /\ \A x : ~MentionedBy(job[p], x)
  BY DEF Init, MentionedBy, Reads, Holds, Drafting, Closing, Idle
<1>2. \A h : ~Mentioned(h)
  <2> HIDE DEF MentionedBy
  <2> QED  BY <1>1 DEF Init, Mentioned, Missing
<1> QED  BY <1>1, <1>2 DEF Init, HashInv, OwnHash

-----------------------------------------------------------------------------
(* What a summary says is so of every chain that ends in its last hash.     *)

Whole(r) == ReceiptsOf(r) \ {TornReceipt}
ChainTo(C, h) == C # {} /\ Linked(C) /\ Latest(C).hash = h
Success(e) == e.kind = "verification" /\ e.says.outcome # "failed"
Quiet(x) == x.kind # "verification" /\ ~x.says.executed

Truthful(s, C) ==
  LET e == Latest(C) IN
  /\ s.verified <=> Success(e)
  /\ Success(e) => s.external = (e.says.outcome = "external")
                   /\ s.orchestrated = (e.says.outcome = "orchestrated")
  /\ s.onlyPlanned <=> \A x \in C : Quiet(x)

TruthAbout(r, s) == \A C \in SUBSET Whole(r) : ChainTo(C, s.last) => Truthful(s, C)
PlannedAbout(r, h) == \A C \in SUBSET Whole(r) : ChainTo(C, h) => \A x \in C : Quiet(x)

TruthOfJob(p) ==
  \A r \in Runs : WorksOn(p, r) =>
    /\ Reads(job[p]) => TruthAbout(r, job[p].read)
    /\ Creating(p) => PlannedAbout(r, job[p].last)
TruthOfSummary(r) == summary[r].state = "written" => TruthAbout(r, summary[r])
TruthInv ==
  /\ \A r \in Runs : TruthOfSummary(r)
  /\ \A p \in Procs : TruthOfJob(p)

(* A set of receipts as a run may hold: their timestamps are bounded.       *)
Stamped(C) == /\ \A x \in C : x.ts \in Nat
              /\ \E n \in Nat : \A x \in C : x.ts <= n

LEMMA WholeStamped ==
  ASSUME TypeInv, NEW r \in Runs
  PROVE  /\ Stamped(Whole(r))
         /\ Whole(r) \subseteq Receipts
<1>1. PICK n \in Nat : \A f \in files : f.body.ts <= n
  BY DEF TypeInv, FilesOK, Bounded
<1>2. \A x \in Whole(r) : x \in Receipts /\ x.ts \in Nat /\ x.ts <= n
  BY <1>1, FilesTyped, BodyFacts DEF TypeInv, Whole, ReceiptsOf, FilesOf
<1> QED  BY <1>2 DEF Stamped

LEMMA StampedExtends ==
  ASSUME NEW R, Stamped(R), NEW b \in Receipts, NEW C \in SUBSET (R \cup {b})
  PROVE  Stamped(C)
<1>1. PICK n \in Nat : \A x \in R : x.ts <= n
  BY DEF Stamped
<1>2. b.ts \in Nat
  BY DEF Receipts
<1>3. PICK m \in Nat : n <= m /\ b.ts <= m
  <2>1. CASE n <= b.ts
    BY <1>2, <2>1
  <2>2. CASE ~(n <= b.ts)
    BY <1>2, <2>2
  <2> QED  BY <2>1, <2>2
<1>4. \A x \in C : x.ts \in Nat
  BY <1>2 DEF Stamped
<1>5. \A x \in C : x.ts <= m
  <2> TAKE x \in C
  <2>1. CASE x \in R
    BY <1>1, <1>3, <1>4, <2>1
  <2>2. CASE x = b
    BY <1>3, <2>2
  <2> QED  BY <2>1, <2>2
<1> QED  BY <1>4, <1>5 DEF Stamped

LEMMA LatestOfStamped ==
  ASSUME NEW C, Stamped(C), C # {}
  PROVE  Latest(C) \in C /\ \A y \in C : y.ts <= Latest(C).ts
<1>1. PICK n \in Nat : \A x \in C : x.ts <= n
  BY DEF Stamped
<1>2. \A x \in C : x.ts \in Nat
  BY DEF Stamped
<1> QED  BY <1>1, <1>2, LatestExists

(* A receipt inside a chain that is not its last is named by another.       *)
LEMMA InnerIsNamed ==
  ASSUME NEW C, Stamped(C), Linked(C), NEW b \in C, Latest(C).hash # b.hash
  PROVE  \E x \in C \ {b} : x.prev = b.hash
<1> DEFINE After == {x \in C : b.ts < x.ts}
           Stamps == {x.ts : x \in After}
           Before(x) == {y \in C : y.ts < x.ts}
<1>1. \A x, y \in C : x.ts = y.ts => x = y
  BY DEF Linked
<1>2. \A x \in C : x.ts \in Nat
  BY DEF Stamped
<1>3. After # {}
  <2>1. Latest(C) \in C /\ \A y \in C : y.ts <= Latest(C).ts
    BY LatestOfStamped
  <2>2. Latest(C) # b
    OBVIOUS
  <2>3. b.ts < Latest(C).ts
    BY <1>1, <1>2, <2>1, <2>2
  <2> QED  BY <2>1, <2>3
<1>4. PICK x \in After : \A y \in After : x.ts <= y.ts
  <2>1. Stamps \in SUBSET Nat /\ Stamps # {}
    BY <1>2, <1>3
  <2>2. PICK t \in Stamps : \A u \in Stamps : t <= u
    <3> HIDE DEF Stamps
    <3> QED  BY <2>1, LeastExists
  <2> QED  BY <2>2
<1>5. b \in Before(x) /\ x \in C /\ b.ts < x.ts
  BY <1>4
<1>6. \A y \in Before(x) : y.ts <= b.ts
  BY <1>2, <1>4
<1>7. Latest(Before(x)) = b
  <2>1. \A y, z \in Before(x) : y.ts = z.ts => y = z
    BY <1>1
  <2>2. \A y \in Before(x) : y.ts \in Nat
    BY <1>2
  <2> HIDE DEF Before
  <2> QED  BY <1>5, <1>6, <2>1, <2>2, LatestIs
<1>8. x.prev = b.hash
  <2>1. x.prev = IF Before(x) = {} THEN NoHash ELSE Latest(Before(x)).hash
    BY <1>5 DEF Linked
  <2> HIDE DEF Before
  <2> QED  BY <1>5, <1>7, <2>1
<1>9. x # b
  BY <1>2, <1>5
<1> QED  BY <1>5, <1>8, <1>9

(* A chain without its last receipt is empty or ends in the one it names.   *)
LEMMA ChainPeels ==
  ASSUME NEW C, Stamped(C), Linked(C), NEW b \in C, Latest(C) = b
  PROVE  \/ C \ {b} = {} /\ b.prev = NoHash
         \/ ChainTo(C \ {b}, b.prev)
<1> DEFINE D == C \ {b}
           Before(S, x) == {y \in S : y.ts < x.ts}
           Prev(S, x) == IF Before(S, x) = {} THEN NoHash ELSE Latest(Before(S, x)).hash
<1>1. \A x, y \in C : x.ts = y.ts => x = y
  BY DEF Linked
<1>2. \A x \in C : x.ts \in Nat
  BY DEF Stamped
<1>3. \A y \in C : y.ts <= b.ts
  BY LatestOfStamped
<1>4. \A x \in C : x.prev = Prev(C, x)
  BY DEF Linked
<1>5. ASSUME NEW x \in D PROVE x.prev = Prev(D, x)
  <2>1. Before(D, x) = Before(C, x)
    BY <1>2, <1>3
  <2> HIDE DEF Before
  <2> QED  BY <1>4, <2>1
<1>6. Linked(D)
  <2>1. \A x \in D : x.prev = Prev(D, x)
    BY <1>5
  <2> HIDE DEF Before
  <2>2. \A x, y \in D : x.ts = y.ts => x = y
    BY <1>1
  <2> QED  BY <2>1, <2>2 DEF Linked, Before
<1>7. b.prev = Prev(C, b) /\ Before(C, b) = D
  BY <1>1, <1>2, <1>3, <1>4
<1>8. D # {} => Latest(D).hash = b.prev
  <2> HIDE DEF Before, D
  <2> QED  BY <1>7
<1>9. D = {} => b.prev = NoHash
  <2> HIDE DEF Before, D
  <2> QED  BY <1>7
<1> QED  BY <1>6, <1>8, <1>9 DEF ChainTo

(* An append says of the chain it extends what is so of the longer one.     *)
LEMMA TruthExtends ==
  ASSUME NEW C, NEW b \in C, Latest(C) = b, b \in Receipts, b.kind \in Parts,
         NEW d \in Summaries, Truthful(d, C \ {b}), NEW s,
         b.kind = "action" =>
           s.verified = FALSE /\ s.onlyPlanned = (d.onlyPlanned /\ ~b.says.executed),
         b.kind # "action" =>
           /\ s.verified = (b.says.outcome # "failed") /\ s.onlyPlanned = FALSE
           /\ s.external = (b.says.outcome = "external")
           /\ s.orchestrated = (b.says.outcome = "orchestrated")
  PROVE  Truthful(s, C)
<1>1. CASE b.kind = "action"
  <2>1. ~Success(b)
    BY <1>1 DEF Success
  <2>2. Quiet(b) <=> ~b.says.executed
    BY <1>1 DEF Quiet
  <2>3. d.onlyPlanned <=> \A x \in C \ {b} : Quiet(x)
    BY DEF Truthful
  <2>4. s.onlyPlanned <=> \A x \in C : Quiet(x)
    <3> HIDE DEF Quiet
    <3>1. d.onlyPlanned \in BOOLEAN /\ b.says.executed \in BOOLEAN
      BY DEF Summaries, Receipts, Says
    <3>2. s.onlyPlanned <=> d.onlyPlanned /\ Quiet(b)
      BY <1>1, <2>2, <3>1
    <3> QED  BY <2>3, <3>2
  <2> QED  BY <1>1, <2>1, <2>4 DEF Truthful
<1>2. CASE b.kind # "action"
  <2>1. b.kind = "verification"
    BY <1>2 DEF Parts
  <2>2. Success(b) <=> b.says.outcome # "failed"
    BY <2>1 DEF Success
  <2>3. ~ \A x \in C : Quiet(x)
    BY <2>1 DEF Quiet
  <2> HIDE DEF Success, Quiet
  <2> QED  BY <1>2, <2>2, <2>3 DEF Truthful
<1> QED  BY <1>1, <1>2

-----------------------------------------------------------------------------
(* A step adds to a run one receipt at most, whose hash nothing mentions.   *)
Grows(r) ==
  \/ Whole(r)' \subseteq Whole(r)
  \/ \E b \in Receipts : ~Mentioned(b.hash) /\ Whole(r)' \subseteq Whole(r) \cup {b}

LEMMA ChainsKept ==
  ASSUME TypeInv, NEW r \in Runs, Grows(r), NEW C \in SUBSET Whole(r)',
         NEW h, Mentioned(h), ChainTo(C, h)
  PROVE  C \in SUBSET Whole(r)
<1>1. CASE Whole(r)' \subseteq Whole(r)
  BY <1>1
<1>2. CASE \E b \in Receipts : ~Mentioned(b.hash) /\ Whole(r)' \subseteq Whole(r) \cup {b}
  <2>1. PICK b \in Receipts : ~Mentioned(b.hash) /\ Whole(r)' \subseteq Whole(r) \cup {b}
    BY <1>2
  <2>2. ASSUME b \in C, b \notin Whole(r) PROVE FALSE
    <3>1. Stamped(C)
      BY <2>1, WholeStamped, StampedExtends
    <3>2. Linked(C) /\ Latest(C).hash # b.hash
      BY <2>1 DEF ChainTo
    <3>3. PICK x \in C \ {b} : x.prev = b.hash
      BY <2>2, <3>1, <3>2, InnerIsNamed
    <3>4. x \in Whole(r)
      BY <2>1
    <3>5. \E f \in files : f.body # TornReceipt /\ f.body = x
      BY <3>4 DEF Whole, ReceiptsOf, FilesOf
    <3>6. Mentioned(b.hash)
      BY <3>3, <3>5 DEF Mentioned
    <3> QED  BY <2>1, <3>6
  <2> QED  BY <2>1, <2>2
<1> QED  BY <1>1, <1>2 DEF Grows

LEMMA AboutKept ==
  ASSUME TypeInv, NEW r \in Runs, Grows(r), NEW s, Mentioned(s.last), TruthAbout(r, s)
  PROVE  TruthAbout(r, s)'
<1> SUFFICES ASSUME NEW C \in SUBSET Whole(r)', ChainTo(C, s.last) PROVE Truthful(s, C)
  BY DEF TruthAbout
<1>1. C \in SUBSET Whole(r)
  BY ChainsKept
<1> QED  BY <1>1 DEF TruthAbout

LEMMA PlannedKept ==
  ASSUME TypeInv, NEW r \in Runs, Grows(r), NEW h, Mentioned(h), PlannedAbout(r, h)
  PROVE  PlannedAbout(r, h)'
<1> SUFFICES ASSUME NEW C \in SUBSET Whole(r)', ChainTo(C, h), NEW x \in C PROVE Quiet(x)
  BY DEF PlannedAbout
<1>1. C \in SUBSET Whole(r)
  BY ChainsKept
<1> QED  BY <1>1 DEF PlannedAbout

LEMMA TruthStep ==
  ASSUME TypeInv, TruthInv, NEW p \in Procs,
         \A q \in Procs \ {p} : job'[q] = job[q],
         \A r \in Runs : Grows(r),
         \A r \in Runs : summary'[r] = summary[r] \/ TruthOfSummary(r)',
         TruthOfJob(p)'
  PROVE  TruthInv'
<1>1. ASSUME NEW r \in Runs PROVE TruthOfSummary(r)'
  <2>1. PICK s : s = summary[r]
    OBVIOUS
  <2>2. CASE summary'[r] = s /\ s.state = "written"
    <3>1. Mentioned(s.last)
      BY <2>1, <2>2 DEF Mentioned
    <3>2. TruthAbout(r, s)
      BY <2>1, <2>2 DEF TruthInv, TruthOfSummary
    <3>3. TruthAbout(r, s)'
      BY <3>1, <3>2, AboutKept
    <3> QED  BY <2>2, <3>3 DEF TruthOfSummary, TruthAbout
  <2>3. CASE summary'[r] = s /\ s.state # "written"
    BY <2>3 DEF TruthOfSummary
  <2> QED  BY <2>1, <2>2, <2>3
<1>2. ASSUME NEW q \in Procs \ {p} PROVE TruthOfJob(q)'
  <2>1. PICK j : j = job[q] /\ job'[q] = j
    OBVIOUS
  <2> SUFFICES ASSUME NEW r \in Runs, WorksOn(q, r)
               PROVE  /\ Reads(j) => TruthAbout(r, j.read)'
                      /\ j.at = "creating" => PlannedAbout(r, j.last)'
    BY <2>1 DEF TruthOfJob, WorksOn, Creating, TruthAbout, PlannedAbout
  <2>2. TruthOfJob(q)
    BY DEF TruthInv
  <2>3. ASSUME Reads(j) PROVE TruthAbout(r, j.read)'
    <3>1. Mentioned(j.read.last)
      BY <2>1, <2>3 DEF Mentioned, MentionedBy
    <3>2. TruthAbout(r, j.read)
      BY <2>1, <2>2, <2>3 DEF TruthOfJob
    <3> QED  BY <3>1, <3>2, AboutKept
  <2>4. ASSUME j.at = "creating" PROVE PlannedAbout(r, j.last)'
    <3>1. Mentioned(j.last)
      BY <2>1, <2>4 DEF Mentioned, MentionedBy
    <3>2. PlannedAbout(r, j.last)
      BY <2>1, <2>2, <2>4 DEF TruthOfJob, Creating
    <3> QED  BY <3>1, <3>2, PlannedKept
  <2> QED  BY <2>3, <2>4
<1>3. \A q \in Procs : TruthOfJob(q)'
  BY <1>2
<1> QED  BY <1>1, <1>3 DEF TruthInv

LEMMA SameGrows ==
  ASSUME UNCHANGED files, NEW r
  PROVE  Whole(r)' = Whole(r) /\ Grows(r)
BY DEF Grows, Whole, ReceiptsOf, FilesOf

LEMMA PutGrows ==
  ASSUME NEW q, NEW nm, NEW b, Put(q, nm, b),
         b = TornReceipt \/ (b \in Receipts /\ ~Mentioned(b.hash)), NEW r
  PROVE  Grows(r) /\ Whole(r)' \subseteq Whole(r) \cup {b}
<1>1. \A f \in FilesOf(r)' : f \in FilesOf(r) \/ f.body = b
  BY DEF Put, FilesOf, File
<1>2. Whole(r)' \subseteq Whole(r) \cup {b}
  BY <1>1 DEF Whole, ReceiptsOf
<1>3. CASE b = TornReceipt
  BY <1>1, <1>3 DEF Whole, ReceiptsOf, Grows
<1>4. CASE b \in Receipts /\ ~Mentioned(b.hash)
  BY <1>2, <1>4 DEF Grows
<1> QED  BY <1>2, <1>3, <1>4

(* A job that holds no summary and creates nothing.                         *)
LEMMA TruthDrop ==
  ASSUME TypeInv, NEW p \in Procs, NEW j, Step(p, j), j.at \in {"idle", "opening"}
  PROVE  TruthOfJob(p)'
<1>1. job'[p] = j
  BY StepJob DEF TypeInv
<1> QED  BY <1>1 DEF TruthOfJob, Reads, Holds, Drafting, Closing, Creating

(* A job that holds the summary it held before.                             *)
LEMMA TruthHeld ==
  ASSUME TypeInv, TruthInv, NEW p \in Procs, NEW j, Step(p, j), Reads(job[p]),
         j.read = job[p].read, j.run = job[p].run, j.at # "creating",
         \A r \in Runs : Grows(r)
  PROVE  TruthOfJob(p)'
<1>1. job'[p] = j
  BY StepJob DEF TypeInv
<1>2. PICK d : d = job[p].read
  OBVIOUS
<1>3. job[p] # Idle
  BY DEF Reads, Holds, Drafting, Closing, Idle
<1> SUFFICES ASSUME NEW r \in Runs, r = job[p].run PROVE TruthAbout(r, d)'
  BY <1>1, <1>2 DEF TruthOfJob, WorksOn, Creating, TruthAbout
<1>4. TruthAbout(r, d)
  BY <1>2, <1>3 DEF TruthInv, TruthOfJob, WorksOn
<1>5. Mentioned(d.last)
  BY <1>2 DEF Mentioned, MentionedBy
<1> QED  BY <1>4, <1>5, AboutKept

LEMMA TruthCreateRun ==
  ASSUME TypeInv, TruthInv, NEW p \in Procs, NEW r \in Runs, NEW plan \in Plans,
         CreateRun(p, r, plan)
  PROVE  TruthInv'
<1> DEFINE j == [at |-> "creating", run |-> r, plan |-> plan, created |-> now,
                 written |-> 0, last |-> NoHash]
<1>1. Step(p, j) /\ UNCHANGED <<files, summary>>
  BY DEF CreateRun
<1>2. ~Reads(j) /\ j.last = NoHash
  BY DEF Reads, Holds, Drafting, Closing
<1> HIDE DEF j
<1>3. job'[p] = j /\ \A q \in Procs \ {p} : job'[q] = job[q]
  BY <1>1, StepJob DEF TypeInv
<1>4. \A q \in Runs : Grows(q) /\ Whole(q)' = Whole(q)
  BY <1>1, SameGrows
<1>5. ASSUME NEW q \in Runs PROVE PlannedAbout(q, NoHash)'
  <2> SUFFICES ASSUME NEW C \in SUBSET Whole(q), ChainTo(C, NoHash) PROVE FALSE
    BY <1>4 DEF PlannedAbout
  <2>1. Stamped(Whole(q)) /\ Whole(q) \subseteq Receipts
    BY WholeStamped
  <2>2. Stamped(C)
    BY <2>1 DEF Stamped
  <2>3. Latest(C) \in Receipts
    BY <2>1, <2>2, LatestOfStamped DEF ChainTo
  <2>4. Latest(C).hash \in 1..MaxReceipt
    BY <2>3 DEF Receipts
  <2> QED  BY <2>4, BoundAssumption DEF ChainTo, NoHash
<1>6. TruthOfJob(p)'
  BY <1>2, <1>3, <1>5 DEF TruthOfJob, PlannedAbout
<1> QED  BY <1>1, <1>3, <1>4, <1>6, TruthStep

LEMMA TruthWriteCreationReceipt ==
  ASSUME TypeInv, HashInv, TruthInv, NEW p \in Procs, WriteCreationReceipt(p)
  PROVE  TruthInv'
<1> DEFINE k == [job[p] EXCEPT !.written = @ + 1, !.last = next]
<1>1. PICK j, h, b : j = job[p] /\ h = next /\ b = CreationReceipt(j, h)
  OBVIOUS
<1>2. /\ Creating(p) /\ Step(p, k) /\ UNCHANGED summary
      /\ Put(j.run, CreationName(j), b) /\ j.written < Planned(j) /\ h \in 1..MaxReceipt
  BY <1>1, BoundAssumption DEF WriteCreationReceipt, TypeInv, TypeOK
<1>3. CreatingOK(j) /\ j # Idle
  BY <1>1, <1>2, JobAt DEF Creating, Idle
<1>4. k.at = "creating" /\ k.last = h /\ k.run = j.run
  BY <1>1, <1>2, <1>3 DEF CreatingOK, CreatingJobs, Creating
<1> HIDE DEF k
<1>5. ~Reads(k)
  BY <1>4 DEF Reads, Holds, Drafting, Closing
<1>6. job'[p] = k /\ \A q \in Procs \ {p} : job'[q] = job[q]
  BY <1>2, StepJob DEF TypeInv
<1>7. /\ b \in Receipts /\ b.hash = h /\ b.prev = j.last /\ Quiet(b)
  <2>1. /\ b \in Receipts /\ b.hash = h /\ b.prev = j.last
        /\ b.kind \notin {"verification", "torn"}
        /\ b.says = ActionSays(b.says.approval, FALSE)
    BY <1>1, <1>2, <1>3, CreationReceiptTyped
  <2>2. \A a : ActionSays(a, FALSE).executed = FALSE
    BY DEF ActionSays
  <2> QED  BY <2>1, <2>2 DEF Quiet
<1>8. ~Mentioned(h)
  BY <1>1, <1>2, BoundAssumption DEF HashInv
<1>9. \A r \in Runs : Grows(r) /\ Whole(r)' \subseteq Whole(r) \cup {b}
  BY <1>2, <1>7, <1>8, PutGrows
<1>10. ASSUME NEW r \in Runs, r = j.run PROVE PlannedAbout(r, h)'
  <2> SUFFICES ASSUME NEW C \in SUBSET Whole(r)', ChainTo(C, h), NEW x \in C
               PROVE  Quiet(x)
    BY DEF PlannedAbout
  <2>1. C \subseteq Whole(r) \cup {b} /\ Stamped(C)
    BY <1>7, <1>9, WholeStamped, StampedExtends
  <2>2. Latest(C) \in C /\ Latest(C).hash = h
    BY <2>1, LatestOfStamped DEF ChainTo
  <2>3. \A y \in Whole(r) : y.hash # h
    <3>1. \A y \in Whole(r) : \E f \in files : f.body # TornReceipt /\ f.body = y
      BY DEF Whole, ReceiptsOf, FilesOf
    <3>2. \A y \in Whole(r) : y.hash < h
      BY <1>1, <3>1 DEF HashInv
    <3> QED  BY <1>2, <3>2
  <2>4. Latest(C) = b /\ b \in C
    BY <2>1, <2>2, <2>3
  <2>5. PlannedAbout(r, j.last)
    BY <1>1, <1>2, <1>3, <1>10 DEF TruthInv, TruthOfJob, WorksOn
  <2>6. C \ {b} = {} \/ ChainTo(C \ {b}, j.last)
    BY <1>7, <2>1, <2>4, ChainPeels DEF ChainTo
  <2>7. \A y \in C \ {b} : Quiet(y)
    <3>1. C \ {b} \in SUBSET Whole(r)
      BY <2>1
    <3> HIDE DEF Quiet
    <3> QED  BY <2>5, <2>6, <3>1 DEF PlannedAbout
  <2> HIDE DEF Quiet
  <2> QED  BY <1>7, <2>7
<1>11. TruthOfJob(p)'
  BY <1>4, <1>5, <1>6, <1>10 DEF TruthOfJob, PlannedAbout, WorksOn
<1> QED  BY <1>2, <1>6, <1>9, <1>11, TruthStep

LEMMA TruthWriteCreationSummary ==
  ASSUME TypeInv, TruthInv, NEW p \in Procs, WriteCreationSummary(p)
  PROVE  TruthInv'
<1>1. PICK j : j = job[p]
  OBVIOUS
<1>2. Creating(p) /\ Step(p, Idle) /\ UNCHANGED files /\ Idle.at = "idle"
  BY DEF WriteCreationSummary, Idle
<1>3. PICK s : /\ summary' = [summary EXCEPT ![j.run] = s]
               /\ s.last = j.last /\ s.verified = FALSE /\ s.onlyPlanned = TRUE
  <2> DEFINE s == [state |-> "written", last |-> j.last, count |-> j.written,
               status |-> IF PlanBlocked(j.plan) THEN "stopped_blocked"
                          ELSE IF PlanPending(j.plan) THEN "stopped_for_approval"
                          ELSE "planned",
               onlyPlanned |-> TRUE, orchestrated |-> FALSE, external |-> FALSE,
               verified |-> FALSE, forApproval |-> PlanPending(j.plan),
               dueBlocked |-> PlanBlocked(j.plan)]
  <2>1. summary' = [summary EXCEPT ![j.run] = s]
    BY <1>1, Zenon DEF WriteCreationSummary
  <2>2. s.last = j.last /\ s.verified = FALSE /\ s.onlyPlanned = TRUE
    OBVIOUS
  <2> HIDE DEF s
  <2> QED  BY <2>1, <2>2
<1>4. \A r \in Runs : Grows(r) /\ Whole(r)' = Whole(r)
  BY <1>2, SameGrows
<1>5. \A q \in Procs \ {p} : job'[q] = job[q]
  BY <1>2, StepJob DEF TypeInv
<1>6. ASSUME NEW r \in Runs, r = j.run PROVE TruthAbout(r, s)
  <2> SUFFICES ASSUME NEW C \in SUBSET Whole(r), ChainTo(C, j.last) PROVE Truthful(s, C)
    BY <1>3 DEF TruthAbout
  <2>1. PlannedAbout(r, j.last)
    BY <1>1, <1>2, <1>6 DEF TruthInv, TruthOfJob, WorksOn, Creating, Idle
  <2>2. \A x \in C : Quiet(x)
    BY <2>1 DEF PlannedAbout
  <2>3. Stamped(Whole(r))
    BY WholeStamped
  <2>4. Stamped(C)
    BY <2>3 DEF Stamped
  <2>5. Latest(C) \in C
    BY <2>4, LatestOfStamped DEF ChainTo
  <2>6. ~Success(Latest(C))
    BY <2>2, <2>5 DEF Quiet, Success
  <2> HIDE DEF Quiet, Success
  <2> QED  BY <1>3, <2>2, <2>6 DEF Truthful
<1>7. ASSUME NEW r \in Runs PROVE summary'[r] = summary[r] \/ TruthOfSummary(r)'
  <2>1. CASE r = j.run
    <3>1. summary'[r] = s
      BY <1>3, <2>1 DEF TypeInv, TypeOK
    <3> QED  BY <1>4, <1>6, <2>1, <3>1 DEF TruthOfSummary, TruthAbout
  <2>2. CASE r # j.run
    BY <1>3, <2>2 DEF TypeInv, TypeOK
  <2> QED  BY <2>1, <2>2
<1>8. TruthOfJob(p)'
  BY <1>2, TruthDrop
<1> QED  BY <1>4, <1>5, <1>7, <1>8, TruthStep

LEMMA TruthReadSummary ==
  ASSUME TypeInv, TruthInv, NEW p \in Procs, ReadSummary(p)
  PROVE  TruthInv'
<1>1. At(p, "opening") /\ UNCHANGED <<files, summary>>
  BY DEF ReadSummary
<1>2. PICK r \in Runs : r = job[p].run
  BY <1>1, RunOfJob DEF At, Idle
<1>3. \A q \in Runs : Grows(q) /\ Whole(q)' = Whole(q)
  BY <1>1, SameGrows
<1>4. PICK j : Step(p, j)
  BY DEF ReadSummary
<1>5. \A q \in Procs \ {p} : job'[q] = job[q]
  BY <1>4, StepJob DEF TypeInv
<1>6. CASE summary[r].state # "written"
  <2>1. Step(p, Idle) /\ Idle.at = "idle"
    BY <1>2, <1>6 DEF ReadSummary, Idle
  <2>2. TruthOfJob(p)'
    BY <2>1, TruthDrop
  <2> QED  BY <1>1, <1>3, <1>5, <2>2, TruthStep
<1>7. CASE summary[r].state = "written"
  <2> DEFINE k == [at |-> "reading", run |-> r, kind |-> job[p].kind,
                   says |-> job[p].says, read |-> summary[r]]
  <2>1. PICK s : s = summary[r]
    OBVIOUS
  <2>2. Step(p, k)
    BY <1>2, <1>7 DEF ReadSummary
  <2>3. k.at = "reading" /\ k.run = r /\ k.read = s
    BY <2>1
  <2> HIDE DEF k
  <2>4. job'[p] = k
    BY <2>2, StepJob DEF TypeInv
  <2>5. TruthAbout(r, s)
    BY <1>7, <2>1 DEF TruthInv, TruthOfSummary
  <2>6. TruthOfJob(p)'
    BY <1>3, <2>3, <2>4, <2>5 DEF TruthOfJob, TruthAbout, WorksOn, Creating
  <2> QED  BY <1>1, <1>3, <1>5, <2>6, TruthStep
<1> QED  BY <1>6, <1>7

LEMMA TruthWriteSummary ==
  ASSUME TypeInv, HashInv, TruthInv, NEW p \in Procs, WriteSummary(p)
  PROVE  TruthInv'
<1>1. /\ Closing(job[p]) /\ Step(p, Idle) /\ UNCHANGED files /\ Idle.at = "idle"
      /\ \E s : Appends(p, s)
  BY WriteSummaryAppends DEF Idle
<1>2. PICK s : Appends(p, s)
  BY <1>1
<1>3. PICK j, b, d : j = job[p] /\ b = j.receipt /\ d = j.read
  OBVIOUS
<1>4. /\ b \in Receipts /\ b.kind \in Parts /\ d \in Summaries /\ b.prev = d.last
      /\ j # Idle
  BY <1>1, <1>3, HeldReceipt DEF Holds
<1>5. \A r \in Runs : Grows(r) /\ Whole(r)' = Whole(r)
  BY <1>1, SameGrows
<1>6. \A q \in Procs \ {p} : job'[q] = job[q]
  BY <1>1, StepJob DEF TypeInv
<1>7. ASSUME NEW r \in Runs, r = j.run PROVE TruthAbout(r, s)
  <2> SUFFICES ASSUME NEW C \in SUBSET Whole(r), ChainTo(C, b.hash) PROVE Truthful(s, C)
    BY <1>2, <1>3 DEF TruthAbout, Appends
  <2>1. Stamped(Whole(r))
    BY WholeStamped
  <2>2. Stamped(C)
    BY <2>1 DEF Stamped
  <2>3. Latest(C) \in C /\ Latest(C).hash = b.hash
    BY <2>2, LatestOfStamped DEF ChainTo
  <2>4. Latest(C) = b
    <3>1. \E f \in files : f.body # TornReceipt /\ f.body = Latest(C)
      BY <2>3 DEF Whole, ReceiptsOf, FilesOf
    <3> QED  BY <1>1, <1>3, <2>3, <3>1 DEF HashInv, OwnHash
  <2>5. ChainTo(C \ {b}, d.last)
    <3>1. d.last # NoHash
      BY <1>4, BoundAssumption DEF Summaries, NoHash
    <3> QED  BY <1>4, <2>2, <2>3, <2>4, <3>1, ChainPeels DEF ChainTo
  <2>6. TruthAbout(r, d)
    BY <1>1, <1>3, <1>4, <1>7 DEF TruthInv, TruthOfJob, WorksOn, Reads, Holds
  <2>7. Truthful(d, C \ {b})
    <3>1. C \ {b} \in SUBSET Whole(r)
      OBVIOUS
    <3> QED  BY <2>5, <2>6, <3>1 DEF TruthAbout
  <2>8. /\ b.kind = "action" =>
             s.verified = FALSE /\ s.onlyPlanned = (d.onlyPlanned /\ ~b.says.executed)
        /\ b.kind # "action" =>
             /\ s.verified = (b.says.outcome # "failed") /\ s.onlyPlanned = FALSE
             /\ s.external = (b.says.outcome = "external")
             /\ s.orchestrated = (b.says.outcome = "orchestrated")
    BY <1>2, <1>3 DEF Appends
  <2> QED  BY <1>4, <2>3, <2>4, <2>7, <2>8, TruthExtends
<1>8. ASSUME NEW r \in Runs PROVE summary'[r] = summary[r] \/ TruthOfSummary(r)'
  <2>1. CASE r = j.run
    <3>1. summary'[r] = s
      BY <1>2, <1>3, <2>1 DEF Appends, TypeInv, TypeOK
    <3> QED  BY <1>5, <1>7, <2>1, <3>1 DEF TruthOfSummary, TruthAbout
  <2>2. CASE r # j.run
    BY <1>2, <1>3, <2>2 DEF Appends, TypeInv, TypeOK
  <2> QED  BY <2>1, <2>2
<1>9. TruthOfJob(p)'
  BY <1>1, TruthDrop
<1> QED  BY <1>5, <1>6, <1>8, <1>9, TruthStep

(* Every other step leaves the summaries, or tears one.                     *)
LEMMA TruthElse ==
  ASSUME TypeInv, TruthInv, NEW p \in Procs, NEW j, Step(p, j),
         \A r \in Runs : Grows(r),
         \A r \in Runs : summary'[r] = summary[r] \/ summary'[r].state # "written",
         \/ j.at \in {"idle", "opening"}
         \/ /\ Reads(job[p]) /\ j.read = job[p].read /\ j.run = job[p].run
            /\ j.at # "creating"
  PROVE  TruthInv'
<1>1. \A q \in Procs \ {p} : job'[q] = job[q]
  BY StepJob DEF TypeInv
<1>2. TruthOfJob(p)'
  BY TruthDrop, TruthHeld
<1>3. \A r \in Runs : summary'[r] = summary[r] \/ TruthOfSummary(r)'
  BY DEF TruthOfSummary
<1> QED  BY <1>1, <1>2, <1>3, TruthStep

LEMMA TruthNext ==
  ASSUME TypeInv, HashInv, TruthInv, [Next]_vars
  PROVE  TruthInv'
<1>0. Idle.at = "idle"
  BY DEF Idle
<1>1. ASSUME NEW p \in Procs, Create(p) PROVE TruthInv'
  BY <1>1, TruthCreateRun DEF Create
<1>2. ASSUME NEW p \in Procs, Extend(p) PROVE TruthInv'
  <2>1. PICK j : Step(p, j) /\ j.at = "opening" /\ UNCHANGED <<files, summary>>
    BY <1>2 DEF Extend, StartAppend
  <2> QED  BY <2>1, SameGrows, TruthElse
<1>3. ASSUME NEW p \in Procs, ReadReceiptsThrows(p) \/ Crash(p) PROVE TruthInv'
  <2>1. Step(p, Idle) /\ UNCHANGED <<files, summary>>
    BY <1>3 DEF ReadReceiptsThrows, Crash
  <2> QED  BY <1>0, <2>1, SameGrows, TruthElse
<1>4. ASSUME NEW p \in Procs, ReadReceipts(p) PROVE TruthInv'
  <2>1. At(p, "reading") /\ UNCHANGED <<files, summary>>
    BY <1>4 DEF ReadReceipts
  <2>2. PICK k : /\ Step(p, k) /\ k.at = "naming" /\ k.read = job[p].read
                 /\ k.run = job[p].run
    BY <1>4 DEF ReadReceipts
  <2>3. Reads(job[p])
    BY <2>1 DEF Reads, At
  <2> QED  BY <2>1, <2>2, <2>3, SameGrows, TruthElse
<1>5. ASSUME NEW p \in Procs, ChooseName(p) PROVE TruthInv'
  <2>1. PICK k : /\ At(p, "naming") /\ Step(p, k) /\ Chosen(job[p], k)
                 /\ UNCHANGED <<made, files, summary, now, next, crashes>>
    BY <1>5, ChooseNameChooses
  <2>2. Reads(job[p]) /\ Drafting(job[p]) /\ DraftingOK(job[p])
    BY <2>1, JobAt DEF At, Reads, Holds, Drafting
  <2>3. k.at = "writing" /\ k.run = job[p].run /\ k.read = job[p].read
    BY <2>1, <2>2, ChosenOK
  <2> QED  BY <2>1, <2>2, <2>3, SameGrows, TruthElse
<1>6. ASSUME NEW p \in Procs, WriteReceipt(p) PROVE TruthInv'
  <2>1. /\ At(p, "writing") /\ UNCHANGED summary
        /\ Put(job[p].run, job[p].name, job[p].receipt)
    BY <1>6 DEF WriteReceipt
  <2>2. PICK k : /\ Step(p, k) /\ k.at = "summarising" /\ k.read = job[p].read
                 /\ k.run = job[p].run
    BY <1>6 DEF WriteReceipt
  <2>3. Reads(job[p]) /\ Drafting(job[p])
    BY <2>1 DEF At, Reads, Holds, Drafting
  <2>4. job[p].receipt \in Receipts /\ ~Mentioned(job[p].receipt.hash)
    BY <2>3, HeldReceipt DEF Holds, HashInv, OwnHash
  <2>5. \A r \in Runs : Grows(r)
    BY <2>1, <2>4, PutGrows
  <2> QED  BY <2>1, <2>2, <2>3, <2>5, TruthElse
<1>7. ASSUME NEW p \in Procs, CrashInReceipt(p) PROVE TruthInv'
  <2>1. Step(p, Idle) /\ UNCHANGED summary /\ \E nm : Put(job[p].run, nm, TornReceipt)
    BY <1>7 DEF CrashInReceipt
  <2>2. \A r \in Runs : Grows(r)
    BY <2>1, PutGrows
  <2> QED  BY <1>0, <2>1, <2>2, TruthElse
<1>8. ASSUME NEW p \in Procs, CrashInSummary(p) PROVE TruthInv'
  <2>1. /\ Step(p, Idle) /\ UNCHANGED files
        /\ summary' = [summary EXCEPT ![job[p].run] = Torn]
    BY <1>8 DEF CrashInSummary
  <2>2. \A r \in Runs : summary'[r] = summary[r] \/ summary'[r].state # "written"
    BY <2>1 DEF TypeInv, TypeOK, Torn
  <2> QED  BY <1>0, <2>1, <2>2, SameGrows, TruthElse
<1>9. CASE Clock \/ UNCHANGED vars
  <2>1. UNCHANGED <<files, summary, job>>
    BY <1>9 DEF Clock, vars
  <2>2. \A r \in Runs : Whole(r)' = Whole(r)
    BY <2>1, SameGrows
  <2>3. \A r \in Runs : TruthOfSummary(r)' <=> TruthOfSummary(r)
    BY <2>1, <2>2 DEF TruthOfSummary, TruthAbout
  <2>4. \A p \in Procs : TruthOfJob(p)' <=> TruthOfJob(p)
    BY <2>1, <2>2 DEF TruthOfJob, TruthAbout, PlannedAbout, WorksOn, Creating
  <2> QED  BY <2>3, <2>4 DEF TruthInv
<1> QED
  BY <1>1, <1>2, <1>3, <1>4, <1>5, <1>6, <1>7, <1>8, <1>9,
     TruthWriteCreationReceipt, TruthWriteCreationSummary, TruthReadSummary,
     TruthWriteSummary
  DEF Next

LEMMA TruthInit == Init => TruthInv
<1>1. Init => \A p \in Procs : job[p] = Idle
  BY DEF Init
<1>2. Init => \A r \in Runs : summary[r].state # "written"
  BY DEF Init, Missing
<1> QED
  BY <1>1, <1>2
  DEF TruthInv, TruthOfSummary, TruthOfJob, WorksOn

(* While the chain of a run is valid its summary tells the truth about it,  *)
(* for any number of processes at once and crashes anywhere                 *)
(* (agent-run.ts:500-533, 575-613).                                         *)
THEOREM SummaryTruthfulCorrect == Spec => []SummaryTruthful
<1> DEFINE Inv == TypeInv /\ HashInv /\ TruthInv
<1>1. Init => Inv
  BY TypeInit, HashInit, TruthInit
<1>2. Inv /\ [Next]_vars => Inv'
  BY TypeNext, HashNext, TruthNext
<1>3. Inv => SummaryTruthful
  <2> SUFFICES ASSUME Inv, NEW r \in made, ChainValid(r)
               PROVE  LET R == ReceiptsOf(r)
                          e == Latest(R)
                          s == summary[r]
                          success == e.kind = "verification" /\ e.says.outcome # "failed"
                      IN  /\ s.verified <=> success
                          /\ success => s.external = (e.says.outcome = "external")
                                        /\ s.orchestrated = (e.says.outcome = "orchestrated")
                          /\ s.onlyPlanned <=>
                               \A x \in R : x.kind # "verification" /\ ~x.says.executed
    BY DEF SummaryTruthful
  <2>1. r \in Runs
    BY DEF TypeInv, TypeOK
  <2>2. Whole(r) = ReceiptsOf(r)
    BY DEF ChainValid, Readable, Whole
  <2>3. ChainTo(ReceiptsOf(r), summary[r].last) /\ summary[r].state = "written"
    BY ReadableHasReceipts DEF ChainValid, Valid, Readable, ChainTo
  <2>4. TruthAbout(r, summary[r])
    BY <2>1, <2>3 DEF TruthInv, TruthOfSummary
  <2>5. Truthful(summary[r], ReceiptsOf(r))
    BY <2>2, <2>3, <2>4 DEF TruthAbout
  <2> QED  BY <2>5 DEF Truthful, Success, Quiet
<1> QED  BY <1>1, <1>2, <1>3, PTL DEF Spec
=============================================================================
