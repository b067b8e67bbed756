------------------------------- MODULE Signing -------------------------------
(***************************************************************************)
(* The files that evidence rests on: ~/.bootproof/signer.json and           *)
(* known_signers.json, which every command of the user shares, and          *)
(* .bootproof/attestation.json and registry-entry.json of one repository.   *)
(* Commands are processes; each reads, computes and writes a file with      *)
(* writeFileSync, which empties it first, and there is no lock.  `up` signs *)
(* an attestation, `rotate-keys` replaces the key, `verify` and `attest     *)
(* check` judge a signature and may trust its signer, `registry export` and *)
(* `attest export` sign an entry made of the attestation.                   *)
(***************************************************************************)
EXTENDS Naturals, FiniteSets

CONSTANTS
  Absent, Torn,  (* no such file; emptied or half written                   *)
  Procs,         (* the processes                                           *)
  Keys,          (* bound: the pairs that may be generated                  *)
  Others,        (* the signers of other machines                           *)
  Commands,      (* the command lines                                       *)
  MaxCommands,   (* bound: how many commands are begun                      *)
  MaxCommits     (* bound: how often HEAD moves                             *)

ASSUME BoundAssumption == MaxCommands \in Nat /\ MaxCommits \in Nat
ASSUME KeyAssumption ==
  /\ Keys # {} /\ IsFiniteSet(Keys) /\ Keys \cap Others = {}
  /\ Absent # Torn /\ {Absent, Torn} \cap (Keys \cup Others) = {}
ASSUME StoreAssumption ==
  \A S \in SUBSET (Keys \cup Others) : S \notin {Absent, Torn}
ASSUME CommandAssumption ==
  \A c \in Commands :
    /\ c.kind \in {"up", "export", "rotate", "verify"}
    /\ c.target \in {"attestation", "entry", "file"}
    /\ c.target = "file" /\ c.given \notin {Absent, Torn} =>
         c.given.signer \in Keys \cup Others

VARIABLES
  files,      (* what is on disk                                            *)
  archived,   (* the keys in ~/.bootproof/archived-keys                     *)
  head,       (* HEAD of the repository                                     *)
  cmd, at,    (* the command of each process and where it is                *)
  key,        (* the key pair a process has in memory                       *)
  seen,       (* what it read: the old key, or a proof                      *)
  file, text, (* what it is about to write, and where                       *)
  exit,       (* the exit code of its last command                          *)
  begun,      (* how many commands were begun; names the runs               *)
  generated,  (* history: the keys that were generated                      *)
  used,       (* history: those that signed what reached the disk           *)
  dropped,    (* history: those rotated away with --no-backup               *)
  consented,  (* history: signers a person asked to trust                   *)
  trusted,    (* history: those whose command wrote the store               *)
  latest,     (* history: the last run whose attestation reached the disk   *)
  raced       (* history: files that two commands updated at once, or that  *)
              (* a command died writing                                     *)

disk    == <<files, archived, head>>
local   == <<key, seen, file, text>>
history == <<generated, used, dropped, consented, trusted, latest>>
vars    == <<disk, cmd, at, local, exit, begun, history, raced>>

Files == {"signer", "known", "attestation", "entry"}
Whole(x) == x \notin {Absent, Torn}

(* A proof: what it says, the public key in it, and its signature.          *)
Body(run, commit) == [run |-> run, commit |-> commit]
Signed(body, k) == [body |-> body, signer |-> k, sig |-> [by |-> k, of |-> body]]
Intact(x) == x.sig = [by |-> x.signer, of |-> x.body]

Idle == [kind |-> "none", backup |-> TRUE, resign |-> FALSE, strict |-> FALSE,
         trust |-> FALSE, target |-> "attestation", given |-> Absent]

FirstKey == CHOOSE k \in Keys : TRUE

(* A key may have been made, and signers been trusted, long ago.            *)
Init ==
  /\ generated \in {{}, {FirstKey}}
  /\ consented \in {{}} \cup {{o} : o \in Others}
  /\ files = [f \in Files |->
                CASE f = "signer" /\ generated # {} -> FirstKey
                  [] f = "known" /\ consented # {} -> consented
                  [] OTHER -> Absent]
  /\ archived = {} /\ head = 0
  /\ cmd = [p \in Procs |-> Idle] /\ at = [p \in Procs |-> "idle"]
  /\ key = [p \in Procs |-> Absent] /\ seen = [p \in Procs |-> Absent]
  /\ file = [p \in Procs |-> "signer"] /\ text = [p \in Procs |-> Absent]
  /\ exit = [p \in Procs |-> 0] /\ begun = 0
  /\ used = generated /\ dropped = {} /\ trusted = consented
  /\ latest = 0 /\ raced = {}
-----------------------------------------------------------------------------
(* Where a process is between reading a file and having written it back.    *)
Inside(p, f) ==
  \/ at[p] \in {"open", "close"} /\ file[p] = f
  \/ f = "signer" /\ at[p] = "archive"

(* Whether two of them are.                                                 *)
Overlapping == {f \in Files : \E p, q \in Procs : p # q /\ Inside(p, f) /\ Inside(q, f)}
Witness == raced' = raced \cup Overlapping'

Goes(p, place) == at' = [at EXCEPT ![p] = place]
Ends(p, code) == Goes(p, "idle") /\ exit' = [exit EXCEPT ![p] = code]
Holds(p, k) == key' = [key EXCEPT ![p] = k]

(* writeFileSync is about to be called.                                     *)
Writes(p, f, x) ==
  /\ file' = [file EXCEPT ![p] = f] /\ text' = [text EXCEPT ![p] = x]
  /\ Goes(p, "open") /\ UNCHANGED exit

NewKey == CHOOSE k \in Keys : k \notin generated

Begin(p, c) ==
  /\ at[p] = "idle" /\ begun < MaxCommands
  /\ begun' = begun + 1
  /\ cmd' = [cmd EXCEPT ![p] = c]
  /\ seen' = [seen EXCEPT ![p] = IF c.kind = "up"
                                   THEN [body |-> Body(begun + 1, head)] ELSE Absent]
  /\ Goes(p, CASE c.kind = "up" -> "key" [] c.kind = "rotate" -> "rotate"
               [] OTHER -> "read")
  /\ UNCHANGED <<disk, key, file, text, exit, history>>
  /\ Witness

(* loadOrCreateSigner.  An attestation carries HEAD as it is when it is     *)
(* built, after the run.                                                    *)
LookForKey(p) ==
  /\ at[p] = "key" /\ generated # Keys
  /\ seen' = [seen EXCEPT ![p] = IF cmd[p].kind = "up"
                                   THEN [body |-> Body(@.body.run, head)] ELSE @]
  /\ \/ files["signer"] = Torn
        /\ Ends(p, 1) /\ UNCHANGED <<key, file, text, generated>>
     \/ Whole(files["signer"])
        /\ Holds(p, files["signer"])
        /\ Goes(p, "sign")
        /\ UNCHANGED <<file, text, exit, generated>>
     \/ files["signer"] = Absent
        /\ Holds(p, NewKey) /\ generated' = generated \cup {NewKey}
        /\ Writes(p, "signer", NewKey)
  /\ UNCHANGED <<disk, cmd, begun, used, dropped, consented, trusted, latest>>
  /\ Witness

(* Faulty variant: the key that is embedded is read from the file again.    *)
SignWithKeyOnDisk(p) ==
  /\ at[p] = "sign"
  /\ Writes(p, IF cmd[p].kind = "up" THEN "attestation" ELSE "entry",
            [Signed(seen[p].body, key[p]) EXCEPT !.signer = files["signer"]])
  /\ UNCHANGED <<disk, cmd, key, seen, begun, history>>
  /\ Witness

Sign(p) ==
  /\ at[p] = "sign"
  /\ Writes(p, IF cmd[p].kind = "up" THEN "attestation" ELSE "entry",
            Signed(seen[p].body, key[p]))
  /\ UNCHANGED <<disk, cmd, key, seen, begun, history>>
  /\ Witness

Open(p) ==
  /\ at[p] = "open"
  /\ files' = [files EXCEPT ![file[p]] = Torn]
  /\ Goes(p, "close")
  /\ UNCHANGED <<archived, head, cmd, local, exit, begun, history>>
  /\ Witness

Proofs == {"attestation", "entry"}
Close(p) ==
  /\ at[p] = "close"
  /\ files' = [files EXCEPT ![file[p]] = text[p]]
  /\ CASE file[p] = "signer" ->
            Goes(p, IF cmd[p].kind = "rotate" THEN "resign" ELSE "sign")
              /\ UNCHANGED exit
       [] file[p] = "known" -> Goes(p, "judge_again") /\ UNCHANGED exit
       [] OTHER -> Ends(p, 0)
  /\ used' = IF file[p] \in Proofs THEN used \cup {text[p].signer} ELSE used
  /\ latest' = IF file[p] = "attestation" /\ cmd[p].kind = "up"
                 THEN text[p].body.run ELSE latest
  /\ trusted' = IF file[p] = "known" THEN trusted \cup {seen[p].signer} ELSE trusted
  /\ text' = [text EXCEPT ![p] = Absent] /\ UNCHANGED <<key, seen, file>>
  /\ UNCHANGED <<archived, head, cmd, begun, generated, dropped, consented>>
  /\ Witness
-----------------------------------------------------------------------------
(* rotateSigner.                                                            *)
ReadOldKey(p) ==
  /\ at[p] = "rotate" /\ generated # Keys
  /\ IF files["signer"] = Torn
       THEN Ends(p, 1) /\ UNCHANGED <<key, seen, generated>>
       ELSE /\ seen' = [seen EXCEPT ![p] = files["signer"]]
            /\ Holds(p, NewKey) /\ generated' = generated \cup {NewKey}
            /\ Goes(p, "archive") /\ UNCHANGED exit
  /\ UNCHANGED <<disk, cmd, file, text, begun, used, dropped, consented, trusted,
                 latest>>
  /\ Witness

(* Faulty variant: the archive gets the new key.                            *)
ArchiveTheNew(p) ==
  /\ at[p] = "archive"
  /\ archived' = IF cmd[p].backup THEN archived \cup {key[p]} ELSE archived
  /\ dropped' = IF cmd[p].backup THEN dropped ELSE dropped \cup {seen[p]}
  /\ Writes(p, "signer", key[p])
  /\ UNCHANGED <<files, head, cmd, key, seen, begun, generated, used, consented,
                 trusted, latest>>
  /\ Witness

Archive(p) ==
  /\ at[p] = "archive"
  /\ archived' = IF cmd[p].backup /\ seen[p] # Absent
                   THEN archived \cup {seen[p]} ELSE archived
  /\ dropped' = IF cmd[p].backup THEN dropped ELSE dropped \cup {seen[p]}
  /\ Writes(p, "signer", key[p])
  /\ UNCHANGED <<files, head, cmd, key, seen, begun, generated, used, consented,
                 trusted, latest>>
  /\ Witness

(* Faulty variant: signing again makes the attestation a new run's.         *)
ResignAnew(p) ==
  /\ at[p] = "resign"
  /\ IF ~cmd[p].resign \/ files["attestation"] \in {Absent, Torn}
       THEN Ends(p, 0) /\ UNCHANGED <<file, text>>
       ELSE Writes(p, "attestation", Signed(Body(begun, head), key[p]))
  /\ UNCHANGED <<disk, cmd, key, seen, begun, history>>
  /\ Witness

(* What is on disk is signed again as it is; it is not verified first.      *)
Resign(p) ==
  /\ at[p] = "resign"
  /\ CASE ~cmd[p].resign \/ files["attestation"] = Absent ->
            Ends(p, 0) /\ UNCHANGED <<file, text>>
       [] cmd[p].resign /\ files["attestation"] = Torn ->
            Ends(p, 1) /\ UNCHANGED <<file, text>>
       [] OTHER ->
            Writes(p, "attestation", Signed(files["attestation"].body, key[p]))
  /\ UNCHANGED <<disk, cmd, key, seen, begun, history>>
  /\ Witness
-----------------------------------------------------------------------------
(* `verify`, `attest check`, and what an export reads first.                *)
Target(p) ==
  IF cmd[p].target = "file" THEN cmd[p].given ELSE files[cmd[p].target]

ReadProof(p) ==
  /\ at[p] = "read"
  /\ IF Whole(Target(p))
       THEN /\ seen' = [seen EXCEPT ![p] = Target(p)]
            /\ Goes(p, IF cmd[p].kind = "export" THEN "key" ELSE "judge")
            /\ UNCHANGED exit
       ELSE Ends(p, 1) /\ UNCHANGED seen
  /\ UNCHANGED <<disk, cmd, key, file, text, begun, history>>
  /\ Witness

(* readKnownSignerStore: an unreadable store is an empty one.               *)
Known == IF Whole(files["known"]) THEN files["known"] ELSE {}

Tier(x) ==
  CASE ~Intact(x) -> "invalid"
    [] Intact(x) /\ x.signer = files["signer"] -> "self"
    [] Intact(x) /\ x.signer # files["signer"] /\ x.signer \in Known -> "known"
    [] OTHER -> "unknown_foreign"

(* Faulty variant: of a strict verification only the signer counts.         *)
FailsIfUnknown(p, tier) == cmd[p].strict /\ tier = "unknown_foreign"

Mismatch(p) == cmd[p].target = "attestation" /\ seen[p].body.commit # head
Fails(p, tier) ==
  \/ tier = "invalid"
  \/ cmd[p].strict /\ (tier = "unknown_foreign" \/ Mismatch(p))
Code(p, tier) == IF Fails(p, tier) THEN 1 ELSE 0

(* Faulty variant: whoever asks for trust gets it, also for a signature     *)
(* that does not verify.                                                    *)
JudgeTrustFirst(p) ==
  /\ at[p] \in {"judge", "judge_again"}
  /\ LET tier == Tier(seen[p]) IN
       IF at[p] = "judge" /\ cmd[p].trust /\ tier \in {"invalid", "unknown_foreign"}
         THEN /\ Goes(p, "trust") /\ UNCHANGED exit
              /\ consented' = IF tier = "invalid" THEN consented
                              ELSE consented \cup {seen[p].signer}
         ELSE Ends(p, Code(p, tier)) /\ UNCHANGED consented
  /\ UNCHANGED <<disk, cmd, local, begun, generated, used, dropped, trusted, latest>>
  /\ Witness

Judge(p) ==
  /\ at[p] \in {"judge", "judge_again"}
  /\ LET tier == Tier(seen[p]) IN
       IF at[p] = "judge" /\ cmd[p].trust /\ tier = "unknown_foreign"
         THEN /\ Goes(p, "trust") /\ UNCHANGED exit
              /\ consented' = consented \cup {seen[p].signer}
         ELSE Ends(p, Code(p, tier)) /\ UNCHANGED consented
  /\ UNCHANGED <<disk, cmd, local, begun, generated, used, dropped, trusted, latest>>
  /\ Witness

(* Faulty variant: the store is written with the one signer only.           *)
TrustOnly(p) ==
  /\ at[p] = "trust"
  /\ Writes(p, "known", {seen[p].signer})
  /\ UNCHANGED <<disk, cmd, key, seen, begun, history>>
  /\ Witness

(* trustSigner.                                                             *)
Trust(p) ==
  /\ at[p] = "trust"
  /\ Writes(p, "known", Known \cup {seen[p].signer})
  /\ UNCHANGED <<disk, cmd, key, seen, begun, history>>
  /\ Witness
-----------------------------------------------------------------------------
(* The process is killed; what it was writing stays as it is.               *)
Crash(p) ==
  /\ at[p] \notin {"idle", "dead"}
  /\ Goes(p, "dead")
  /\ raced' = raced \cup {f \in Files : at[p] = "close" /\ file[p] = f}
  /\ UNCHANGED <<disk, cmd, local, exit, begun, history>>

NewCommit ==
  /\ head < MaxCommits
  /\ head' = head + 1
  /\ UNCHANGED <<files, archived, cmd, at, local, exit, begun, history, raced>>

Next ==
  \/ \E p \in Procs :
       \/ \E c \in Commands : Begin(p, c)
       \/ LookForKey(p) \/ Sign(p) \/ Open(p) \/ Close(p)
       \/ ReadOldKey(p) \/ Archive(p) \/ Resign(p)
       \/ ReadProof(p) \/ Judge(p) \/ Trust(p)
       \/ Crash(p)
  \/ NewCommit

Spec == Init /\ [][Next]_vars
-----------------------------------------------------------------------------
Places == {"idle", "key", "sign", "open", "close", "rotate", "archive",
           "resign", "read", "judge", "judge_again", "trust", "dead"}
(* Whoever creates, rotates or signs meanwhile: what lies in the repository *)
(* whole verifies with the key it carries (proof.ts:321-323, 131-134).      *)
ProofsIntact == \A f \in Proofs : Whole(files[f]) => Intact(files[f])

(* proof.ts:89-95: the old key of a rotation is archived.  Every key that   *)
(* ever signed is the current one or archived, or was given up on purpose,  *)
(* wherever a command dies; unless two commands were inside their updates   *)
(* of signer.json at once (two that create it, two rotations) or one died   *)
(* writing it (proof.ts:65, 122).                                           *)
KeysKept ==
  "signer" \notin raced =>
    \A k \in used : k = files["signer"] \/ k \in archived \cup dropped

(* A signer whose trust was asked for and recorded stays known, unless two  *)
(* commands were updating the store at once or one died writing it          *)
(* (proof.ts:191-201).                                                      *)
TrustKept ==
  "known" \notin raced /\ files["known"] # Torn => trusted \subseteq Known

(* The store never names a signer nobody asked to trust, and nobody trusts  *)
(* a signer on the strength of a signature that does not verify             *)
(* (cli.ts:358, proof.ts:191-201).                                          *)
TrustIsAsked == Known \subseteq consented

(* A strict verification that exits 0 judged an intact signature of a key   *)
(* made here or of a signer a person asked to trust (cli.ts:364-366).       *)
StrictAcceptance ==
  \A p \in Procs :
    at[p] = "idle" /\ cmd[p].kind = "verify" /\ cmd[p].strict /\ exit[p] = 0
      /\ seen[p] # Absent
      => Intact(seen[p]) /\ seen[p].signer \in generated \cup consented

(* The attestation on disk is that of the last run that wrote one, rotated  *)
(* keys or not, unless a run wrote between the two halves of a rotation's   *)
(* new signature (proof.ts:125-138).                                        *)
LatestProof ==
  "attestation" \notin raced /\ Whole(files["attestation"])
    => files["attestation"].body.run = latest
=============================================================================
