---------------------------- MODULE SigningProofs ----------------------------
(***************************************************************************)
(* Theorems about Signing: whatever the commands, their number and their    *)
(* order, proofs stay intact, keys that signed are kept, trust is asked     *)
(* for, and a strict verification means something.                          *)
(***************************************************************************)
EXTENDS Signing, TLAPS

(* A process that has a proof to sign, or to write.                         *)
Signs(p) ==
  \/ at[p] \in {"sign", "resign"}
  \/ at[p] \in {"open", "close"} /\ file[p] \in Proofs
Replaces(p) ==
  \/ at[p] = "archive"
  \/ at[p] \in {"open", "close"} /\ file[p] = "signer"
Judges(p) ==
  \/ at[p] \in {"judge", "judge_again", "trust"}
  \/ at[p] \in {"open", "close"} /\ file[p] = "known"

Typing ==
  /\ at \in [Procs -> Places] /\ file \in [Procs -> Files]
  /\ exit \in [Procs -> {0, 1}]
  /\ cmd \in [Procs -> Commands \cup {Idle}]
  /\ key = [p \in Procs |-> key[p]] /\ seen = [p \in Procs |-> seen[p]]
  /\ text = [p \in Procs |-> text[p]] /\ files = [f \in Files |-> files[f]]
  /\ generated \subseteq Keys /\ consented \subseteq Keys \cup Others

(* What kind of command may be where.                                       *)
Courses ==
  \A p \in Procs :
    /\ at[p] \in {"key", "sign"} => cmd[p].kind \in {"up", "export"}
    /\ at[p] \in {"rotate", "archive", "resign"} => cmd[p].kind = "rotate"
    /\ Signs(p) \/ Replaces(p) => cmd[p].kind \in {"up", "export", "rotate"}
    /\ Judges(p) => cmd[p].kind = "verify"
    /\ at[p] = "read" => cmd[p].kind \in {"verify", "export"}

(* What is on disk, and what a process is about to put there.               *)
Disk ==
  /\ files["signer"] \in generated \cup {Absent, Torn}
  /\ \A f \in Proofs : Whole(files[f]) =>
       Intact(files[f]) /\ files[f].signer \in generated
  /\ Whole(files["known"]) => files["known"] \subseteq consented
Drafts ==
  \A p \in Procs :
    /\ Signs(p) \/ Replaces(p) => key[p] \in generated
    /\ at[p] \in {"open", "close"} /\ file[p] \in Proofs =>
         Intact(text[p]) /\ text[p].signer = key[p]
    /\ at[p] \in {"open", "close"} /\ file[p] = "signer" => text[p] = key[p]
    /\ at[p] \in {"open", "close"} /\ file[p] = "known" => text[p] \subseteq consented
    /\ at[p] = "trust" => seen[p].signer \in consented
    /\ Judges(p) => seen[p].signer \in Keys \cup Others

FilesInv == Typing /\ Courses /\ Disk /\ Drafts

USE DEF Places, Files, Proofs, vars, disk, local, history, Goes, Ends, Holds, Writes

LEMMA NewKeyIsOne ==
  ASSUME Typing, generated # Keys
  PROVE  NewKey \in Keys
BY DEF Typing, NewKey

(* What the theorems below rest on, at the start.                           *)
THEOREM FilesInit == Init => FilesInv
<1> SUFFICES ASSUME Init PROVE FilesInv
  OBVIOUS
<1> USE DEF Init
<1>1. FirstKey \in Keys
  BY KeyAssumption DEF FirstKey
<1>2. Typing
  BY <1>1 DEF Typing
<1>3. Courses /\ Drafts
  BY DEF Courses, Drafts, Signs, Replaces, Judges
<1>4. Disk
  BY DEF Disk, Whole
<1> QED
  BY <1>2, <1>3, <1>4 DEF FilesInv

(* One step for each kind of action.                                        *)
LEMMA FilesStep == FilesInv /\ [Next]_vars => FilesInv'
<1> SUFFICES ASSUME FilesInv, [Next]_vars PROVE FilesInv'
  OBVIOUS
<1> USE DEF FilesInv, Typing
<1>1. ASSUME NEW p \in Procs, NEW c \in Commands, Begin(p, c) PROVE FilesInv'
  <2>1. Typing'
    BY <1>1, CommandAssumption DEF Begin
  <2>2. Courses'
    BY <1>1, CommandAssumption DEF Begin, Courses, Signs, Replaces, Judges
  <2>3. Disk'
    BY <1>1, CommandAssumption DEF Begin, Disk, Drafts, Signs, Replaces
  <2>4. Drafts'
    BY <1>1, CommandAssumption DEF Begin, Disk, Drafts, Signs, Replaces, Judges
  <2> QED
    BY <2>1, <2>2, <2>3, <2>4
<1>2. ASSUME NEW p \in Procs, LookForKey(p) PROVE FilesInv'
  <2>1. Typing'
    BY <1>2, NewKeyIsOne DEF LookForKey, Whole
  <2>2. Courses'
    BY <1>2, NewKeyIsOne DEF LookForKey, Whole, Courses, Signs, Replaces, Judges
  <2>3. Disk'
    BY <1>2, NewKeyIsOne DEF LookForKey, Whole, Disk, Drafts, Signs, Replaces
  <2>4. Drafts'
    BY <1>2, NewKeyIsOne DEF LookForKey, Whole, Disk, Drafts, Signs, Replaces, Judges
  <2> QED
    BY <2>1, <2>2, <2>3, <2>4
<1>3. ASSUME NEW p \in Procs, Sign(p) PROVE FilesInv'
  <2>1. Typing'
    BY <1>3 DEF Sign, Signed, Intact
  <2>2. Courses'
    BY <1>3 DEF Sign, Signed, Intact, Courses, Signs, Replaces, Judges
  <2>3. Disk'
    BY <1>3 DEF Sign, Signed, Intact, Disk, Drafts, Signs, Replaces
  <2>4. Drafts'
    BY <1>3 DEF Sign, Signed, Intact, Disk, Drafts, Signs, Replaces, Judges
  <2> QED
    BY <2>1, <2>2, <2>3, <2>4
<1>4. ASSUME NEW p \in Procs, Open(p) PROVE FilesInv'
  <2>1. Typing'
    BY <1>4 DEF Open, Whole
  <2>2. Courses'
    BY <1>4 DEF Open, Whole, Courses, Signs, Replaces, Judges
  <2>3. Disk'
    BY <1>4 DEF Open, Whole, Disk, Drafts, Signs, Replaces
  <2>4. Drafts'
    BY <1>4 DEF Open, Whole, Disk, Drafts, Signs, Replaces, Judges
  <2> QED
    BY <2>1, <2>2, <2>3, <2>4
<1>5. ASSUME NEW p \in Procs, Close(p) PROVE FilesInv'
  <2>1. Typing'
    BY <1>5 DEF Close, Whole
  <2>2. Courses'
    <3>1. /\ UNCHANGED <<cmd, file>> /\ at[p] = "close"
          /\ at' = [at EXCEPT ![p] = at'[p]]
      BY <1>5 DEF Close
    <3>2. CASE file[p] = "signer"
      BY <1>5, <3>2 DEF Close, Courses, Signs, Replaces, Judges
    <3>3. CASE file[p] = "known"
      BY <1>5, <3>3 DEF Close, Courses, Signs, Replaces, Judges
    <3>4. CASE file[p] \in Proofs
      BY <1>5, <3>4 DEF Close, Courses, Signs, Replaces, Judges
    <3> QED
      BY <3>2, <3>3, <3>4
  <2>3. Disk'
    BY <1>5 DEF Close, Whole, Disk, Drafts, Signs, Replaces
  <2>4. Drafts'
    BY <1>5 DEF Close, Whole, Disk, Drafts, Signs, Replaces, Judges
  <2> QED
    BY <2>1, <2>2, <2>3, <2>4
<1>6. ASSUME NEW p \in Procs, ReadOldKey(p) PROVE FilesInv'
  <2>1. Typing'
    BY <1>6, NewKeyIsOne DEF ReadOldKey
  <2>2. Courses'
    BY <1>6, NewKeyIsOne DEF ReadOldKey, Courses, Signs, Replaces, Judges
  <2>3. Disk'
    BY <1>6, NewKeyIsOne DEF ReadOldKey, Disk, Drafts, Signs, Replaces
  <2>4. Drafts'
    BY <1>6, NewKeyIsOne DEF ReadOldKey, Disk, Drafts, Signs, Replaces, Judges
  <2> QED
    BY <2>1, <2>2, <2>3, <2>4
<1>7. ASSUME NEW p \in Procs, Archive(p) PROVE FilesInv'
  <2>1. Typing'
    BY <1>7 DEF Archive
  <2>2. Courses'
    BY <1>7 DEF Archive, Courses, Signs, Replaces, Judges
  <2>3. Disk'
    BY <1>7 DEF Archive, Disk, Drafts, Signs, Replaces
  <2>4. Drafts'
    BY <1>7 DEF Archive, Disk, Drafts, Signs, Replaces, Judges
  <2> QED
    BY <2>1, <2>2, <2>3, <2>4
<1>8. ASSUME NEW p \in Procs, Resign(p) PROVE FilesInv'
  <2>1. Typing'
    BY <1>8 DEF Resign, Signed, Intact
  <2>2. Courses'
    BY <1>8 DEF Resign, Signed, Intact, Courses, Signs, Replaces, Judges
  <2>3. Disk'
    BY <1>8 DEF Resign, Signed, Intact, Disk, Drafts, Signs, Replaces
  <2>4. Drafts'
    <3>1. /\ Intact(Signed(files["attestation"].body, key[p]))
          /\ Signed(files["attestation"].body, key[p]).signer = key[p]
      BY DEF Signed, Intact
    <3>2. CASE at'[p] = "idle"
      BY <1>8, <3>2 DEF Resign, Drafts, Signs, Replaces, Judges
    <3>3. CASE at'[p] # "idle"
      <4>1. /\ at' = [at EXCEPT ![p] = "open"] /\ file' = [file EXCEPT ![p] = "attestation"]
            /\ text' = [text EXCEPT ![p] = Signed(files["attestation"].body, key[p])]
            /\ UNCHANGED <<key, seen, consented, generated>> /\ at[p] = "resign"
        BY <1>8, <3>3 DEF Resign
      <4> QED
        BY <4>1, <3>1 DEF Drafts, Signs, Replaces, Judges
    <3> QED
      BY <3>2, <3>3
  <2> QED
    BY <2>1, <2>2, <2>3, <2>4
<1>9. ASSUME NEW p \in Procs, ReadProof(p) PROVE FilesInv'
  <2>1. Typing'
    BY <1>9, CommandAssumption DEF ReadProof, Target, Whole
  <2>2. Courses'
    BY <1>9, CommandAssumption DEF ReadProof, Target, Whole, Courses, Signs, Replaces, Judges
  <2>3. Disk'
    BY <1>9, CommandAssumption DEF ReadProof, Target, Whole, Disk, Drafts, Signs, Replaces
  <2>4. Drafts'
    <3>1. cmd[p] \in Commands
      BY <1>9 DEF ReadProof, Courses, Idle
    <3>2. Whole(Target(p)) => Target(p).signer \in Keys \cup Others
      BY <3>1, CommandAssumption DEF Target, Whole, Disk
    <3> QED
      BY <1>9, <3>2 DEF ReadProof, Drafts, Signs, Replaces, Judges
  <2> QED
    BY <2>1, <2>2, <2>3, <2>4
<1>10. ASSUME NEW p \in Procs, Judge(p) PROVE FilesInv'
  <2>1. Typing'
    BY <1>10 DEF Judge, Code, Drafts, Judges
  <2>2. Courses'
    BY <1>10 DEF Judge, Courses, Signs, Replaces, Judges
  <2>3. Disk'
    BY <1>10 DEF Judge, Disk, Drafts, Signs, Replaces
  <2>4. Drafts'
    BY <1>10 DEF Judge, Disk, Drafts, Signs, Replaces, Judges
  <2> QED
    BY <2>1, <2>2, <2>3, <2>4
<1>11. ASSUME NEW p \in Procs, Trust(p) PROVE FilesInv'
  <2>1. Typing'
    BY <1>11 DEF Trust, Known
  <2>2. Courses'
    BY <1>11 DEF Trust, Known, Courses, Signs, Replaces, Judges
  <2>3. Disk'
    BY <1>11 DEF Trust, Known, Disk, Drafts, Signs, Replaces
  <2>4. Drafts'
    BY <1>11 DEF Trust, Known, Disk, Drafts, Signs, Replaces, Judges
  <2> QED
    BY <2>1, <2>2, <2>3, <2>4
<1>12. ASSUME NEW p \in Procs, Crash(p) PROVE FilesInv'
  <2>1. Typing'
    BY <1>12 DEF Crash
  <2>2. Courses'
    BY <1>12 DEF Crash, Courses, Signs, Replaces, Judges
  <2>3. Disk'
    BY <1>12 DEF Crash, Disk, Drafts, Signs, Replaces
  <2>4. Drafts'
    BY <1>12 DEF Crash, Disk, Drafts, Signs, Replaces, Judges
  <2> QED
    BY <2>1, <2>2, <2>3, <2>4
<1>13. CASE NewCommit
  BY <1>13 DEF NewCommit, Courses, Disk, Drafts, Signs, Replaces, Judges
<1>14. CASE UNCHANGED vars
  BY <1>14 DEF Courses, Disk, Drafts, Signs, Replaces, Judges
<1> QED
  BY <1>1, <1>2, <1>3, <1>4, <1>5, <1>6, <1>7, <1>8, <1>9, <1>10, <1>11, <1>12, <1>13, <1>14 DEF Next

(* proof.ts:65-95, 125-138, 191-201: the files hold what their commands     *)
(* write, and who writes a proof signs it with the key it has in memory.    *)
THEOREM FilesCorrect == Spec => []FilesInv
BY FilesInit, FilesStep, PTL DEF Spec

(* proof.ts:321-323, 131-134: whoever creates, rotates or signs meanwhile,  *)
(* what lies in the repository whole verifies with the key it carries.      *)
THEOREM ProofsIntactCorrect == Spec => []ProofsIntact
<1>1. FilesInv => ProofsIntact
  BY DEF FilesInv, Disk, ProofsIntact
<1> QED
  BY <1>1, FilesCorrect, PTL

(* cli.ts:358, proof.ts:191-201: the store names no signer whose trust was  *)
(* not asked for.                                                           *)
THEOREM TrustIsAskedCorrect == Spec => []TrustIsAsked
<1>1. FilesInv => TrustIsAsked
  BY DEF FilesInv, Disk, TrustIsAsked, Known
<1> QED
  BY <1>1, FilesCorrect, PTL
-----------------------------------------------------------------------------
LEMMA AcceptedSigner ==
  ASSUME FilesInv, NEW p \in Procs, Judges(p), cmd[p].strict,
         Code(p, Tier(seen[p])) = 0
  PROVE  Intact(seen[p]) /\ seen[p].signer \in generated \cup consented
<1>1. seen[p].signer \in Keys \cup Others
  BY DEF FilesInv, Drafts
<1>2. Tier(seen[p]) \notin {"invalid", "unknown_foreign"}
  BY DEF Code, Fails
<1>3. Intact(seen[p]) /\ (seen[p].signer = files["signer"] \/ seen[p].signer \in Known)
  BY <1>2 DEF Tier
<1>4. seen[p].signer = files["signer"] => seen[p].signer \in generated
  BY <1>1, KeyAssumption DEF FilesInv, Disk
<1>5. seen[p].signer \in Known => seen[p].signer \in consented
  BY DEF FilesInv, Disk, Known
<1> QED
  BY <1>3, <1>4, <1>5

LEMMA StrictStep ==
  FilesInv /\ StrictAcceptance /\ [Next]_vars => StrictAcceptance'
<1> SUFFICES ASSUME FilesInv, StrictAcceptance, [Next]_vars PROVE StrictAcceptance'
  OBVIOUS
<1> USE DEF FilesInv, Typing, StrictAcceptance
<1>1. ASSUME NEW p \in Procs, NEW c \in Commands, Begin(p, c)
      PROVE  StrictAcceptance'
  BY <1>1 DEF Begin, Intact
<1>2. ASSUME NEW p \in Procs, LookForKey(p) PROVE StrictAcceptance'
  BY <1>2 DEF LookForKey, Courses, Intact
<1>3. ASSUME NEW p \in Procs, Sign(p) PROVE StrictAcceptance'
  BY <1>3 DEF Sign, Intact
<1>4. ASSUME NEW p \in Procs, Open(p) PROVE StrictAcceptance'
  BY <1>4 DEF Open, Intact
<1>5. ASSUME NEW p \in Procs, Close(p) PROVE StrictAcceptance'
  <2>1. file[p] \in Proofs => cmd[p].kind # "verify"
    BY <1>5 DEF Close, Courses, Signs
  <2> QED
    BY <1>5, <2>1 DEF Close, Intact
<1>6. ASSUME NEW p \in Procs, ReadOldKey(p) PROVE StrictAcceptance'
  <2>1. cmd[p].kind = "rotate"
    BY <1>6 DEF ReadOldKey, Courses
  <2>2. /\ UNCHANGED <<cmd, consented>> /\ generated \subseteq generated'
        /\ \A q \in Procs \ {p} : at'[q] = at[q] /\ exit'[q] = exit[q] /\ seen'[q] = seen[q]
    BY <1>6 DEF ReadOldKey
  <2> QED
    BY <2>1, <2>2 DEF Intact
<1>7. ASSUME NEW p \in Procs, Archive(p) PROVE StrictAcceptance'
  BY <1>7 DEF Archive, Intact
<1>8. ASSUME NEW p \in Procs, Resign(p) PROVE StrictAcceptance'
  <2>1. cmd[p].kind = "rotate"
    BY <1>8 DEF Resign, Courses
  <2> QED
    BY <1>8, <2>1 DEF Resign, Intact
<1>9. ASSUME NEW p \in Procs, ReadProof(p) PROVE StrictAcceptance'
  <2>1. at'[p] # "idle" \/ exit'[p] = 1
    BY <1>9 DEF ReadProof
  <2>2. /\ UNCHANGED <<cmd, consented, generated>>
        /\ \A q \in Procs \ {p} : at'[q] = at[q] /\ exit'[q] = exit[q] /\ seen'[q] = seen[q]
    BY <1>9 DEF ReadProof
  <2> QED
    BY <2>1, <2>2 DEF Intact
<1>10. ASSUME NEW p \in Procs, Judge(p) PROVE StrictAcceptance'
  <2>1. Judges(p)
    BY <1>10 DEF Judge, Judges
  <2>2. at'[p] = "idle" /\ cmd[p].strict /\ exit'[p] = 0 =>
          Intact(seen[p]) /\ seen[p].signer \in generated \cup consented
    <3> SUFFICES ASSUME at'[p] = "idle", cmd[p].strict, exit'[p] = 0
                 PROVE  Intact(seen[p]) /\ seen[p].signer \in generated \cup consented
      OBVIOUS
    <3>1. Code(p, Tier(seen[p])) = 0
      BY <1>10 DEF Judge
    <3> QED
      BY <2>1, <3>1, AcceptedSigner
  <2> QED
    BY <1>10, <2>2 DEF Judge, Intact
<1>11. ASSUME NEW p \in Procs, Trust(p) PROVE StrictAcceptance'
  BY <1>11 DEF Trust, Intact
<1>12. ASSUME NEW p \in Procs, Crash(p) PROVE StrictAcceptance'
  BY <1>12 DEF Crash, Intact
<1>13. CASE NewCommit
  BY <1>13 DEF NewCommit, Intact
<1>14. CASE UNCHANGED vars
  BY <1>14 DEF Intact
<1> QED
  BY <1>1, <1>2, <1>3, <1>4, <1>5, <1>6, <1>7, <1>8, <1>9, <1>10, <1>11, <1>12,
     <1>13, <1>14 DEF Next

(* cli.ts:364-366: a strict verification that exits 0 judged an intact      *)
(* signature of a key made here or of a signer a person asked to trust.     *)
THEOREM StrictAcceptanceCorrect == Spec => []StrictAcceptance
<1>1. Init => StrictAcceptance
  BY DEF Init, StrictAcceptance, Idle
<1> QED
  BY <1>1, StrictStep, FilesCorrect, PTL DEF Spec
-----------------------------------------------------------------------------
(* The time in which no two commands were inside an update of the same file *)
(* at once: `raced` names the files for which that, or a crash in the       *)
(* middle of a write, has happened.                                         *)

LEMMA RacedGrows == [Next]_vars => raced \subseteq raced'
BY DEF Next, Witness, Begin, LookForKey, Sign, Open, Close, ReadOldKey, Archive,
       Resign, ReadProof, Judge, Trust, Crash, NewCommit

(* Nobody overlaps unnoticed.                                               *)
Noticed == Overlapping \subseteq raced

LEMMA NoticedStep == FilesInv /\ Noticed /\ [Next]_vars => Noticed'
<1> SUFFICES ASSUME FilesInv, Noticed, [Next]_vars PROVE Noticed'
  OBVIOUS
<1>1. CASE Witness
  BY <1>1 DEF Witness, Noticed
<1>2. ASSUME NEW p \in Procs, Crash(p) PROVE Noticed'
  <2>1. \A q \in Procs, f \in Files : Inside(q, f)' => Inside(q, f)
    BY <1>2 DEF Crash, Inside, FilesInv, Typing
  <2> QED
    BY <1>2, <2>1 DEF Crash, Noticed, Overlapping
<1>3. CASE NewCommit \/ UNCHANGED vars
  BY <1>3 DEF NewCommit, Noticed, Overlapping, Inside
<1>4. Witness \/ (\E p \in Procs : Crash(p)) \/ NewCommit \/ UNCHANGED vars
  BY DEF Next, Begin, LookForKey, Sign, Open, Close, ReadOldKey, Archive,
         Resign, ReadProof, Judge, Trust
<1> QED
  BY <1>1, <1>2, <1>3, <1>4

LEMMA Alone ==
  ASSUME Noticed, NEW f \in Files, f \notin raced,
         NEW p \in Procs, NEW q \in Procs, Inside(p, f), Inside(q, f)
  PROVE  p = q
BY DEF Noticed, Overlapping
-----------------------------------------------------------------------------
Kept(k) == k = files["signer"] \/ k \in archived \cup dropped

(* Why a key that signed is kept: the file it is in is emptied only after   *)
(* the archive has it.                                                      *)
KeysInv ==
  "signer" \notin raced =>
    /\ \A k \in used : Kept(k)
    /\ \A p \in Procs :
         /\ Signs(p) => Kept(key[p])
         /\ at[p] = "archive" => seen[p] = files["signer"]
         /\ at[p] = "open" /\ file[p] = "signer" =>
              files["signer"] \in archived \cup dropped \cup {Absent}
         /\ at[p] = "close" /\ file[p] = "signer" => files["signer"] = Torn
UsedInv == used \subseteq generated

LEMMA UsedStep == FilesInv /\ UsedInv /\ [Next]_vars => UsedInv'
<1> SUFFICES ASSUME FilesInv, UsedInv, [Next]_vars PROVE UsedInv'
  OBVIOUS
<1> USE DEF UsedInv
<1>1. ASSUME NEW p \in Procs, Close(p) PROVE UsedInv'
  BY <1>1 DEF Close, FilesInv, Drafts, Signs
<1> QED
  BY <1>1 DEF Next, Begin, LookForKey, Sign, Open, ReadOldKey, Archive, Resign,
              ReadProof, Judge, Trust, Crash, NewCommit

LEMMA KeysStep ==
  FilesInv /\ Noticed /\ UsedInv /\ KeysInv /\ [Next]_vars => KeysInv'
<1> SUFFICES ASSUME FilesInv, Noticed, UsedInv, KeysInv, [Next]_vars,
                    "signer" \notin raced'
             PROVE  KeysInv'
  BY DEF KeysInv
<1>0. "signer" \notin raced
  BY RacedGrows
<1>k. /\ used \subseteq Keys /\ Absent \notin Keys /\ Torn \notin Keys
      /\ \A p \in Procs : Signs(p) \/ Replaces(p) => key[p] \in Keys
  BY KeyAssumption DEF FilesInv, Typing, Drafts, UsedInv
<1>a. \A p, q \in Procs : Inside(p, "signer") /\ Inside(q, "signer") => p = q
  BY <1>0, Alone
<1> USE <1>0 DEF FilesInv, Typing, KeysInv
<1>1. ASSUME NEW p \in Procs, NEW c \in Commands, Begin(p, c) PROVE KeysInv'
  BY <1>1, CommandAssumption DEF Begin, Signs, Kept
<1>2. ASSUME NEW p \in Procs, LookForKey(p) PROVE KeysInv'
  BY <1>2 DEF LookForKey, Signs, Kept
<1>3. ASSUME NEW p \in Procs, Sign(p) PROVE KeysInv'
  BY <1>3 DEF Sign, Signs, Kept
<1>4. ASSUME NEW p \in Procs, Open(p) PROVE KeysInv'
  <2>1. CASE file[p] # "signer"
    BY <1>4, <2>1 DEF Open, Signs, Kept
  <2>2. CASE file[p] = "signer"
    <3>1. \A q \in Procs \ {p} : ~Inside(q, "signer")
      BY <1>4, <2>2, <1>a DEF Open, Inside
    <3>2. \A k \in Keys : Kept(k) => Kept(k)'
      BY <1>4, <2>2, <1>k DEF Open, Kept
    <3> QED
      BY <1>4, <2>2, <3>1, <3>2, <1>k DEF Open, Inside, Signs
  <2> QED
    BY <2>1, <2>2
<1>5. ASSUME NEW p \in Procs, Close(p) PROVE KeysInv'
  <2>1. CASE file[p] = "signer"
    <3>1. \A q \in Procs \ {p} : ~Inside(q, "signer")
      BY <1>5, <2>1, <1>a DEF Close, Inside
    <3>2. files'["signer"] = key[p] /\ used' = used /\ key' = key
      BY <1>5, <2>1 DEF Close, Drafts
    <3>3. \A k \in Keys : Kept(k) => Kept(k)'
      BY <1>5, <2>1, <1>k DEF Close, Kept
    <3>4. Kept(key[p])'
      BY <3>2 DEF Kept
    <3> QED
      BY <1>5, <2>1, <3>1, <3>2, <3>3, <3>4, <1>k DEF Close, Inside, Signs
  <2>2. CASE file[p] \in Proofs
    <3>1. /\ files'["signer"] = files["signer"] /\ text[p].signer = key[p]
          /\ used' = used \cup {key[p]} /\ Kept(key[p])
      BY <1>5, <2>2 DEF Close, Drafts, Signs
    <3> QED
      BY <1>5, <2>2, <3>1 DEF Close, Signs, Kept
  <2>3. CASE file[p] = "known"
    BY <1>5, <2>3 DEF Close, Signs, Kept
  <2> QED
    BY <2>1, <2>2, <2>3
<1>6. ASSUME NEW p \in Procs, ReadOldKey(p) PROVE KeysInv'
  BY <1>6 DEF ReadOldKey, Signs, Kept
<1>7. ASSUME NEW p \in Procs, Archive(p) PROVE KeysInv'
  <2>1. files["signer"] \in archived' \cup dropped' \cup {Absent}
    BY <1>7 DEF Archive
  <2>2. \A k : Kept(k) => Kept(k)'
    BY <1>7 DEF Archive, Kept
  <2> QED
    BY <1>7, <2>1, <2>2 DEF Archive, Signs
<1>8. ASSUME NEW p \in Procs, Resign(p) PROVE KeysInv'
  BY <1>8 DEF Resign, Signs, Kept
<1>9. ASSUME NEW p \in Procs, ReadProof(p) PROVE KeysInv'
  BY <1>9 DEF ReadProof, Signs, Kept
<1>10. ASSUME NEW p \in Procs, Judge(p) PROVE KeysInv'
  BY <1>10 DEF Judge, Signs, Kept
<1>11. ASSUME NEW p \in Procs, Trust(p) PROVE KeysInv'
  BY <1>11 DEF Trust, Signs, Kept
<1>12. ASSUME NEW p \in Procs, Crash(p) PROVE KeysInv'
  BY <1>12 DEF Crash, Signs, Kept
<1>13. CASE NewCommit \/ UNCHANGED vars
  BY <1>13 DEF NewCommit, Signs, Kept
<1> QED
  BY <1>1, <1>2, <1>3, <1>4, <1>5, <1>6, <1>7, <1>8, <1>9, <1>10, <1>11, <1>12,
     <1>13 DEF Next

(* proof.ts:89-95: every key that ever signed is the current one, archived  *)
(* or given up on purpose, wherever a command dies, unless two commands     *)
(* were updating signer.json at once or one died writing it.                *)
THEOREM KeysKeptCorrect == Spec => []KeysKept
<1>1. Init => Noticed /\ UsedInv /\ KeysInv
  BY DEF Init, Noticed, Overlapping, Inside, UsedInv, KeysInv, Signs, Kept
<1>2. KeysInv => KeysKept
  BY DEF KeysInv, KeysKept, Kept
<1> QED
  BY <1>1, <1>2, NoticedStep, UsedStep, KeysStep, FilesCorrect, PTL DEF Spec
-----------------------------------------------------------------------------
(* A rotation that signs again signs what the last run wrote.               *)
LatestInv ==
  "attestation" \notin raced =>
    /\ Whole(files["attestation"]) => files["attestation"].body.run = latest
    /\ \A p \in Procs :
         at[p] \in {"open", "close"} /\ file[p] = "attestation"
           /\ cmd[p].kind # "up" => text[p].body.run = latest

LEMMA LatestStep == FilesInv /\ Noticed /\ LatestInv /\ [Next]_vars => LatestInv'
<1> SUFFICES ASSUME FilesInv, Noticed, LatestInv, [Next]_vars,
                    "attestation" \notin raced'
             PROVE  LatestInv'
  BY DEF LatestInv
<1>0. "attestation" \notin raced
  BY RacedGrows
<1>a. \A p, q \in Procs :
         Inside(p, "attestation") /\ Inside(q, "attestation") => p = q
  BY <1>0, Alone
<1> USE <1>0 DEF FilesInv, Typing, LatestInv, Whole
<1>1. ASSUME NEW p \in Procs, NEW c \in Commands, Begin(p, c) PROVE LatestInv'
  BY <1>1, CommandAssumption DEF Begin
<1>2. ASSUME NEW p \in Procs, LookForKey(p) PROVE LatestInv'
  BY <1>2 DEF LookForKey
<1>3. ASSUME NEW p \in Procs, Sign(p) PROVE LatestInv'
  BY <1>3 DEF Sign, Courses
<1>4. ASSUME NEW p \in Procs, Open(p) PROVE LatestInv'
  BY <1>4 DEF Open
<1>5. ASSUME NEW p \in Procs, Close(p) PROVE LatestInv'
  <2>1. CASE file[p] = "attestation"
    <3>1. \A q \in Procs \ {p} : ~Inside(q, "attestation")
      BY <1>5, <2>1, <1>a DEF Close, Inside
    <3>2. files'["attestation"] = text[p] /\ text[p].body.run = latest'
      BY <1>5, <2>1 DEF Close
    <3> QED
      BY <1>5, <2>1, <3>1, <3>2 DEF Close, Inside
  <2>2. CASE file[p] # "attestation"
    BY <1>5, <2>2 DEF Close
  <2> QED
    BY <2>1, <2>2
<1>6. ASSUME NEW p \in Procs, ReadOldKey(p) PROVE LatestInv'
  BY <1>6 DEF ReadOldKey
<1>7. ASSUME NEW p \in Procs, Archive(p) PROVE LatestInv'
  BY <1>7 DEF Archive
<1>8. ASSUME NEW p \in Procs, Resign(p) PROVE LatestInv'
  BY <1>8 DEF Resign, Signed, Body
<1>9. ASSUME NEW p \in Procs, ReadProof(p) PROVE LatestInv'
  BY <1>9 DEF ReadProof
<1>10. ASSUME NEW p \in Procs, Judge(p) PROVE LatestInv'
  BY <1>10 DEF Judge
<1>11. ASSUME NEW p \in Procs, Trust(p) PROVE LatestInv'
  BY <1>11 DEF Trust
<1>12. ASSUME NEW p \in Procs, Crash(p) PROVE LatestInv'
  BY <1>12 DEF Crash
<1>13. CASE NewCommit \/ UNCHANGED vars
  BY <1>13 DEF NewCommit
<1> QED
  BY <1>1, <1>2, <1>3, <1>4, <1>5, <1>6, <1>7, <1>8, <1>9, <1>10, <1>11, <1>12,
     <1>13 DEF Next

(* proof.ts:125-138: the attestation on disk is that of the last run that   *)
(* wrote one, unless a run wrote between the halves of a new signature.     *)
THEOREM LatestProofCorrect == Spec => []LatestProof
<1>1. Init => Noticed /\ LatestInv
  BY DEF Init, Noticed, Overlapping, Inside, LatestInv, Whole
<1>2. LatestInv => LatestProof
  BY DEF LatestInv, LatestProof
<1> QED
  BY <1>1, <1>2, NoticedStep, LatestStep, FilesCorrect, PTL DEF Spec
-----------------------------------------------------------------------------
(* A store that is emptied is being written by somebody who read it whole.  *)
TrustInv ==
  "known" \notin raced =>
    /\ files["known"] # Torn => trusted \subseteq Known
    /\ files["known"] = Torn =>
         \E p \in Procs : at[p] = "close" /\ file[p] = "known"
    /\ \A p \in Procs : at[p] \in {"open", "close"} /\ file[p] = "known" =>
         trusted \cup {seen[p].signer} \subseteq text[p]

LEMMA TrustStep == FilesInv /\ Noticed /\ TrustInv /\ [Next]_vars => TrustInv'
<1> SUFFICES ASSUME FilesInv, Noticed, TrustInv, [Next]_vars, "known" \notin raced'
             PROVE  TrustInv'
  BY DEF TrustInv
<1>0. "known" \notin raced
  BY RacedGrows
<1>a. \A p, q \in Procs : Inside(p, "known") /\ Inside(q, "known") => p = q
  BY <1>0, Alone
<1> USE <1>0 DEF FilesInv, Typing, TrustInv, Whole
<1>1. ASSUME NEW p \in Procs, NEW c \in Commands, Begin(p, c) PROVE TrustInv'
  BY <1>1, CommandAssumption DEF Begin, Known
<1>2. ASSUME NEW p \in Procs, LookForKey(p) PROVE TrustInv'
  BY <1>2 DEF LookForKey, Known
<1>3. ASSUME NEW p \in Procs, Sign(p) PROVE TrustInv'
  BY <1>3 DEF Sign, Known
<1>4. ASSUME NEW p \in Procs, Open(p) PROVE TrustInv'
  <2>1. CASE file[p] = "known"
    BY <1>4, <2>1 DEF Open, Known
  <2>2. CASE file[p] # "known"
    BY <1>4, <2>2 DEF Open, Known
  <2> QED
    BY <2>1, <2>2
<1>5. ASSUME NEW p \in Procs, Close(p) PROVE TrustInv'
  <2>1. CASE file[p] = "known"
    <3>1. \A q \in Procs \ {p} : ~Inside(q, "known")
      BY <1>5, <2>1, <1>a DEF Close, Inside
    <3>2. /\ files'["known"] = text[p] /\ trusted' \subseteq text[p]
          /\ Whole(text[p])
      BY <1>5, <2>1, StoreAssumption DEF Close, Drafts
    <3> QED
      BY <1>5, <2>1, <3>1, <3>2 DEF Close, Inside, Known
  <2>2. CASE file[p] # "known"
    BY <1>5, <2>2 DEF Close, Known
  <2> QED
    BY <2>1, <2>2
<1>6. ASSUME NEW p \in Procs, ReadOldKey(p) PROVE TrustInv'
  BY <1>6 DEF ReadOldKey, Known
<1>7. ASSUME NEW p \in Procs, Archive(p) PROVE TrustInv'
  BY <1>7 DEF Archive, Known
<1>8. ASSUME NEW p \in Procs, Resign(p) PROVE TrustInv'
  BY <1>8 DEF Resign, Known
<1>9. ASSUME NEW p \in Procs, ReadProof(p) PROVE TrustInv'
  BY <1>9 DEF ReadProof, Known
<1>10. ASSUME NEW p \in Procs, Judge(p) PROVE TrustInv'
  BY <1>10 DEF Judge, Known
<1>11. ASSUME NEW p \in Procs, Trust(p) PROVE TrustInv'
  <2>1. \A q \in Procs : ~(at[q] = "close" /\ file[q] = "known")
    <3> SUFFICES ASSUME NEW q \in Procs, at[q] = "close", file[q] = "known"
                 PROVE  FALSE
      OBVIOUS
    <3>1. q # p /\ Inside(p, "known")' /\ Inside(q, "known")'
      BY <1>11 DEF Trust, Inside
    <3>2. Noticed'
      BY NoticedStep
    <3> QED
      BY <3>1, <3>2 DEF Noticed, Overlapping
  <2>2. trusted \subseteq Known
    BY <2>1
  <2> QED
    BY <1>11, <2>1, <2>2 DEF Trust, Known
<1>12. ASSUME NEW p \in Procs, Crash(p) PROVE TrustInv'
  <2>1. ~(at[p] = "close" /\ file[p] = "known")
    BY <1>12 DEF Crash
  <2> QED
    BY <1>12, <2>1 DEF Crash, Known
<1>13. CASE NewCommit \/ UNCHANGED vars
  BY <1>13 DEF NewCommit, Known
<1> QED
  BY <1>1, <1>2, <1>3, <1>4, <1>5, <1>6, <1>7, <1>8, <1>9, <1>10, <1>11, <1>12,
     <1>13 DEF Next

(* proof.ts:191-201: a signer whose trust was asked for and recorded stays  *)
(* known, unless two commands were updating the store at once or one died   *)
(* writing it.                                                              *)
THEOREM TrustKeptCorrect == Spec => []TrustKept
<1>1. ASSUME Init PROVE Noticed /\ TrustInv
  <2>1. /\ files["known"] = IF consented # {} THEN consented ELSE Absent
        /\ trusted = consented /\ consented \subseteq Keys \cup Others
    BY <1>1 DEF Init
  <2>2. consented \notin {Absent, Torn} /\ Absent # Torn
    BY <2>1, StoreAssumption, KeyAssumption
  <2>3. files["known"] # Torn /\ trusted \subseteq Known
    BY <2>1, <2>2 DEF Known, Whole
  <2> QED
    BY <1>1, <2>3 DEF Init, Noticed, Overlapping, Inside, TrustInv
<1>2. TrustInv => TrustKept
  BY DEF TrustInv, TrustKept
<1> QED
  BY <1>1, <1>2, NoticedStep, TrustStep, FilesCorrect, PTL DEF Spec
=============================================================================
