---------------------------- MODULE CodexSetupProofs ----------------------------
(***************************************************************************)
(* Proofs about CodexSetup, for any number of managed files, any contents  *)
(* and any renderer whose output its validators accept.                    *)
(*                                                                         *)
(* The invariant says, for each step of a command, which files are new,    *)
(* which are old and which are staged; that a setup is past its backup     *)
(* only when the newest backup is complete; and that while a command runs  *)
(* nothing is said of the one before.                                      *)
(***************************************************************************)
EXTENDS CodexSetup, TLAPS

\* op keeps its type.
OpType == [command : {"none", "setup", "restore"}, step : Steps, index : 0..Len(Order),
           done : 0..Len(Order), failed : BOOLEAN, next : States, previous : States]

OpTypeOK == op \in OpType

\* Where a command is: how many files it has replaced, and what it has staged.
StepOK ==
    /\ op.step \in {"idle", "backup", "mkdir", "stage"} => op.done = 0
    /\ op.step \in {"idle", "backup", "mkdir", "rollback"} => temps = {}
    /\ op.step \in {"stage"} => temps \subseteq {Order[i] : i \in 1..op.index}
    /\ op.step = "replace" => op.done = op.index /\ temps \subseteq {Order[i] : i \in (op.index + 1)..Len(Order)}
    /\ op.step = "rollback" => op.index =< op.done
    /\ op.step \in {"backup", "mkdir"} => op.command = "setup"
    /\ op.step # "idle" => last.command = "none"

\* File number i as the command has left it, when nobody else wrote.
DiskOK ==
    ~edits.during =>
       /\ op.step \in {"backup", "mkdir", "stage"} => disk = op.previous
       /\ op.step = "replace" => \A i \in 1..Len(Order) :
             disk[Order[i]] = IF i =< op.done THEN op.next[Order[i]] ELSE op.previous[Order[i]]
       /\ op.step = "rollback" /\ ~op.failed => \A i \in 1..Len(Order) :
             disk[Order[i]] = IF op.index < i /\ i =< op.done THEN op.next[Order[i]]
                                                              ELSE op.previous[Order[i]]

\* A complete backup of these files.
Covered(previous) ==
    \E b \in 1..Len(backups) :
       backups[b].manifest /\ backups[b].files = [f \in Files |-> Secure(previous[f])]

\* The newest backup holds what the running setup has copied, and is complete after it.
BackupOK ==
    /\ op.step = "backup" =>
          /\ Len(backups) > 0
          /\ \A i \in 1..op.index :
                backups[Len(backups)].files[Order[i]] = Secure(op.previous[Order[i]])
    /\ op.command = "setup" /\ op.step \in {"mkdir", "stage", "replace", "rollback"} =>
          Covered(op.previous)
    /\ last.command = "setup" /\ last.replaced => Covered(last.previous)

SetupInv ==
    SetupTypeOK /\ OpTypeOK /\ StepOK /\ DiskOK /\ BackupOK /\ AllOrNothing

-----------------------------------------------------------------------------

\* The managed files are the elements of Order, each once.
LEMMA OrderFacts ==
    /\ Len(Order) \in Nat /\ DOMAIN Order = 1..Len(Order)
    /\ \A i \in 1..Len(Order) : Order[i] \in Files
    /\ \A f \in Files : \E i \in 1..Len(Order) : Order[i] = f
    /\ \A i, j \in 1..Len(Order) : Order[i] = Order[j] => i = j
<1>1. Order \in Seq(Files)
  BY SetupAssumption
<1>2. Len(Order) \in Nat /\ DOMAIN Order = 1..Len(Order)
  BY <1>1
<1>. QED
  BY <1>1, <1>2, SetupAssumption DEF Files, ToSet, IsInjective

\* What the entries are made of.
LEMMA EntryFacts ==
    /\ Absent \in Entry
    /\ \A e \in Entry : Secure(e) \in Entry
    /\ [f \in Files |-> Absent] \in States
    /\ \A s \in States : [f \in Files |-> Secure(s[f])] \in States
<1>1. Absent \in Entry
  BY DEF Absent, Entry, Modes
<1>2. \A e \in Entry : Secure(e) \in Entry
  BY DEF Secure, Entry, Modes
<1>. QED
  BY <1>1, <1>2 DEF States

\* The fields of an idle op.
LEMMA IdleOpFacts ==
    /\ IdleOp \in OpType /\ IdleOp.command = "none" /\ IdleOp.step = "idle" /\ IdleOp.index = 0
    /\ IdleOp.done = 0 /\ IdleOp.next \in States /\ IdleOp.previous \in States
<1>. DEFINE e == [f \in Files |-> Absent]
<1>1. e \in States
  BY EntryFacts
<1>2. IdleOp = [command |-> "none", step |-> "idle", index |-> 0, done |-> 0, failed |-> FALSE,
                next |-> e, previous |-> e]
  BY DEF IdleOp
<1>. HIDE DEF e
<1>. QED
  BY <1>1, <1>2, OrderFacts DEF OpType, Steps

\* What setup writes are files.
LEMMA RenderedType == disk \in States => Rendered \in States
<1>. SUFFICES ASSUME disk \in States
              PROVE  Rendered \in States
  OBVIOUS
<1>1. ASSUME NEW e \in Entry
      PROVE  renderConfig(e) \in Entry
  <2>1. Render[Config][e.data] \in Contents
    BY SetupAssumption DEF Entry
  <2>2. [e EXCEPT !.data = Render[Config][e.data]] \in Entry
    BY <2>1 DEF Entry
  <2>. QED
    BY <2>2, EntryFacts DEF renderConfig
<1>2. ASSUME NEW f \in Files
      PROVE  [data |-> Render[f][Nothing], mode |-> "private"] \in Entry
  BY SetupAssumption DEF Entry, Modes
<1>. QED
  BY <1>1, <1>2 DEF Rendered, States

\* A fresh installation satisfies the invariant.
LEMMA InitSetupInv == SetupInit => SetupInv
<1>. SUFFICES ASSUME SetupInit
              PROVE  SetupInv
  OBVIOUS
<1>1. disk \in States
  <2>1. \A c \in Contents, m \in Modes : [data |-> c, mode |-> m] \in Entry
    BY DEF Entry
  <2>. QED
    BY <2>1, EntryFacts DEF SetupInit, States
<1>2. last.command = "none" /\ last.result = "none" /\ last.next \in States /\ last.previous \in States
  BY IdleOpFacts DEF SetupInit, NoResult
<1>3. edits \in [count : 0..MaxEdits, during : BOOLEAN]
  BY SetupAssumption DEF SetupInit
<1>4. backups \in Seq(Backup) /\ Len(backups) =< MaxBackups
  BY SetupAssumption DEF SetupInit
<1>5. op = IdleOp /\ temps = {}
  BY DEF SetupInit
<1>6. SetupTypeOK
  BY <1>1, <1>2, <1>3, <1>4, <1>5, IdleOpFacts DEF SetupTypeOK, OpType, Results
<1>. QED
  BY <1>2, <1>5, <1>6, IdleOpFacts
  DEF SetupInv, OpTypeOK, StepOK, DiskOK, BackupOK, AllOrNothing, Idle

-----------------------------------------------------------------------------
(* The beginning and the end of a command.                                 *)

\* A command that ends before it writes keeps the invariant.
LEMMA ReturnEarlyInv ==
    ASSUME SetupInv, Idle, NEW command, NEW result \in {"error", "unchanged", "refused"},
           NEW next \in States, ReturnEarly(command, result, next)
    PROVE  SetupInv'
<1>1. /\ last'.result = result /\ last'.next = next /\ last'.previous = disk
      /\ last'.replaced = FALSE /\ UNCHANGED <<disk, temps, backups, op>>
  BY DEF ReturnEarly
<1>2. edits' = [edits EXCEPT !.during = FALSE] /\ edits \in [count : 0..MaxEdits, during : BOOLEAN]
  BY DEF ReturnEarly, SetupInv, SetupTypeOK
<1>3. edits' \in [count : 0..MaxEdits, during : BOOLEAN]
  BY <1>2
<1>4. SetupTypeOK' /\ OpTypeOK'
  BY <1>1, <1>3 DEF SetupInv, SetupTypeOK, OpTypeOK, Results
<1>5. StepOK'
  BY <1>1 DEF SetupInv, StepOK, Idle
<1>6. DiskOK' /\ BackupOK'
  BY <1>1 DEF SetupInv, DiskOK, BackupOK, StepOK, Idle, Covered
<1>7. AllOrNothing'
  BY <1>1 DEF SetupInv, AllOrNothing, Idle
<1>. QED
  BY <1>4, <1>5, <1>6, <1>7 DEF SetupInv

\* A command that starts keeps the invariant; it has written nothing.
LEMMA LaunchInv ==
    ASSUME SetupInv, Idle, NEW command \in {"setup", "restore"}, NEW next \in States,
           NEW step \in {"backup", "stage"}, Launch(command, step, next),
           backups' \in Seq(Backup), Len(backups') =< MaxBackups,
           step = "backup" => command = "setup" /\ Len(backups') > 0,
           step = "stage" => command = "restore"
    PROVE  SetupInv'
<1>1. /\ op'.command = command /\ op'.step = step /\ op'.index = 0 /\ op'.done = 0
      /\ op'.next = next /\ op'.previous = disk /\ op' \in OpType
  <2>1. disk \in States
    BY DEF SetupInv, SetupTypeOK
  <2>2. op' = [IdleOp EXCEPT !.command = command, !.step = step, !.next = next, !.previous = disk]
    BY DEF Launch
  <2>. QED
    BY <2>1, <2>2, IdleOpFacts DEF OpType, Steps
<1>2. last'.command = "none" /\ last'.result = "none" /\ last'.next \in States /\ last'.previous \in States
  BY IdleOpFacts DEF Launch, NoResult
<1>3. edits' \in [count : 0..MaxEdits, during : BOOLEAN]
  <2>1. edits' = [edits EXCEPT !.during = FALSE] /\ edits \in [count : 0..MaxEdits, during : BOOLEAN]
    BY DEF Launch, SetupInv, SetupTypeOK
  <2>. QED
    BY <2>1
<1>4. UNCHANGED <<disk, temps>> /\ temps = {}
  BY DEF Launch, SetupInv, StepOK, Idle
<1>5. SetupTypeOK' /\ OpTypeOK'
  <2>1. op' \in OpType => op'.step \in Steps /\ op'.index \in 0..Len(Order) /\ op'.done \in 0..Len(Order)
                          /\ op'.next \in States /\ op'.previous \in States
    BY DEF OpType
  <2>. QED
    BY <1>1, <1>2, <1>3, <1>4, <2>1 DEF SetupInv, SetupTypeOK, OpTypeOK, Results
<1>6. StepOK' /\ BackupOK'
  BY <1>1, <1>2, <1>4 DEF StepOK, BackupOK
<1>7. DiskOK' /\ AllOrNothing'
  BY <1>1, <1>4 DEF DiskOK, AllOrNothing, Idle
<1>. QED
  BY <1>5, <1>6, <1>7 DEF SetupInv

\* A command that returns keeps the invariant if what it reports is what happened.
LEMMA ReturnInv ==
    ASSUME SetupInv, ~Idle, NEW result \in {"ok", "error", "rollback_failed", "killed"},
           Return(result), temps' = {}, UNCHANGED <<disk, backups, edits>>,
           ~edits.during /\ result = "ok" => disk = op.next,
           ~edits.during /\ result = "error" => disk = op.previous
    PROVE  SetupInv'
<1>1. /\ op' = IdleOp /\ last'.command = op.command /\ last'.result = result
      /\ last'.next = op.next /\ last'.previous = op.previous /\ last'.replaced = (op.done > 0)
  BY DEF Return
<1>2. op.next \in States /\ op.previous \in States /\ op.step \in Steps
  BY DEF SetupInv, SetupTypeOK
<1>3. SetupTypeOK'
  <2>1. op'.step \in Steps /\ op'.index \in 0..Len(Order) /\ op'.done \in 0..Len(Order)
        /\ op'.next \in States /\ op'.previous \in States
    BY <1>1, IdleOpFacts, OrderFacts DEF Steps
  <2>. QED
    BY <1>1, <1>2, <2>1 DEF SetupInv, SetupTypeOK, Results
<1>4. last'.command = "setup" /\ last'.replaced => Covered(last.previous)'
  <2>1. ASSUME op.command = "setup", op.done > 0
        PROVE  Covered(op.previous)
    <3>1. op.step \in {"mkdir", "stage", "replace", "rollback"}
      BY <1>2, <2>1 DEF SetupInv, StepOK, Steps
    <3>. QED
      BY <2>1, <3>1 DEF SetupInv, BackupOK
  <2>2. Covered(op.previous) => Covered(last.previous)'
    BY <1>1 DEF Covered
  <2>. QED
    BY <1>1, <2>1, <2>2
<1>5. OpTypeOK' /\ StepOK' /\ DiskOK' /\ BackupOK'
  BY <1>1, <1>4, IdleOpFacts DEF OpTypeOK, StepOK, DiskOK, BackupOK
<1>6. AllOrNothing'
  BY <1>1 DEF AllOrNothing
<1>. QED
  BY <1>3, <1>5, <1>6 DEF SetupInv

\* Setup up to its backup directory keeps the invariant (SetupCodex).
LEMMA SetupCodexInv ==
    ASSUME SetupInv, NEW dryRun \in BOOLEAN, NEW ok \in BOOLEAN, SetupCodex(dryRun, ok)
    PROVE  SetupInv'
<1>0. Idle /\ disk \in States /\ Rendered \in States /\ backups \in Seq(Backup)
      /\ Len(backups) =< MaxBackups
  BY RenderedType DEF SetupCodex, SetupInv, SetupTypeOK
<1>1. CASE \E result \in {"error", "unchanged", "refused"} : ReturnEarly("setup", result, disk)
  BY <1>0, <1>1, ReturnEarlyInv
<1>2. CASE /\ Len(backups) < MaxBackups
           /\ backups' = Append(backups, [files |-> [f \in Files |-> Absent], manifest |-> FALSE])
           /\ Launch("setup", "backup", Rendered)
  <2>. DEFINE b == [files |-> [f \in Files |-> Absent], manifest |-> FALSE]
  <2>1. b \in Backup
    BY EntryFacts DEF Backup
  <2>2. backups' = Append(backups, b) /\ Launch("setup", "backup", Rendered) /\ Len(backups) < MaxBackups
    BY <1>2
  <2>. HIDE DEF b
  <2>3. backups' \in Seq(Backup) /\ Len(backups') = Len(backups) + 1
    BY <1>0, <2>1, <2>2
  <2>4. Len(backups') =< MaxBackups /\ Len(backups') > 0
    BY <1>0, <2>2, <2>3, SetupAssumption
  <2>. QED
    BY <1>0, <2>2, <2>3, <2>4, LaunchInv
<1>. QED
  BY <1>1, <1>2 DEF SetupCodex

\* RestoreBackup up to the replacement keeps the invariant.
LEMMA RestoreBackupInv ==
    ASSUME SetupInv, NEW b \in 1..Len(backups), RestoreBackup(b)
    PROVE  SetupInv'
<1>0. Idle /\ backups \in Seq(Backup) /\ Len(backups) =< MaxBackups /\ backups[b].files \in States
  <2>1. Idle /\ backups \in Seq(Backup) /\ Len(backups) =< MaxBackups
    BY DEF RestoreBackup, SetupInv, SetupTypeOK
  <2>2. backups[b] \in Backup
    BY <2>1
  <2>. QED
    BY <2>1, <2>2 DEF Backup
<1>1. CASE Launch("restore", "stage", backups[b].files) /\ UNCHANGED backups
  BY <1>0, <1>1, LaunchInv
<1>2. CASE ReturnEarly("restore", "refused", backups[b].files)
  BY <1>0, <1>2, ReturnEarlyInv
<1>. QED
  BY <1>1, <1>2 DEF RestoreBackup

-----------------------------------------------------------------------------
(* The steps of a command.                                                 *)

\* What is left to show of a step within a command.
LEMMA AdvanceInv ==
    ASSUME SetupInv, op.step # "idle", op' \in OpType, op'.step # "idle",
           UNCHANGED <<last, edits>>, disk' \in States, temps' \subseteq Files,
           backups' \in Seq(Backup), Len(backups') =< MaxBackups,
           StepOK', DiskOK',
           op'.step = "backup" =>
              /\ Len(backups') > 0
              /\ \A i \in 1..op'.index :
                    backups'[Len(backups')].files[Order[i]] = Secure(op'.previous[Order[i]]),
           op'.command = "setup" /\ op'.step \in {"mkdir", "stage", "replace", "rollback"} =>
              Covered(op.previous)'
    PROVE  SetupInv'
<1>1. last'.command = "none"
  BY DEF SetupInv, StepOK
<1>2. SetupTypeOK'
  <2>1. op'.step \in Steps /\ op'.index \in 0..Len(Order) /\ op'.done \in 0..Len(Order)
        /\ op'.next \in States /\ op'.previous \in States
    BY DEF OpType
  <2>. QED
    BY <2>1 DEF SetupInv, SetupTypeOK
<1>3. OpTypeOK' /\ BackupOK' /\ AllOrNothing'
  BY <1>1 DEF OpTypeOK, BackupOK, AllOrNothing, Idle
<1>. QED
  BY <1>2, <1>3 DEF SetupInv

\* What every step of a command starts from.
LEMMA StepFacts ==
    ASSUME SetupInv
    PROVE  /\ op \in OpType /\ op.command \in {"none", "setup", "restore"} /\ op.step \in Steps
           /\ op.index \in 0..Len(Order) /\ op.done \in 0..Len(Order) /\ op.failed \in BOOLEAN
           /\ op.next \in States /\ op.previous \in States
           /\ disk \in States /\ temps \subseteq Files
           /\ backups \in Seq(Backup) /\ Len(backups) =< MaxBackups /\ Len(backups) \in Nat
           /\ StepOK /\ DiskOK /\ BackupOK
           /\ op.index < Len(Order) => /\ Current \in Files /\ Current = Order[op.index + 1]
                                       /\ op.index + 1 \in 1..Len(Order)
<1>1. op \in OpType /\ disk \in States /\ temps \subseteq Files /\ backups \in Seq(Backup)
      /\ Len(backups) =< MaxBackups /\ StepOK /\ DiskOK /\ BackupOK
  BY DEF SetupInv, SetupTypeOK, OpTypeOK
<1>2. /\ op.command \in {"none", "setup", "restore"} /\ op.step \in Steps
      /\ op.index \in 0..Len(Order) /\ op.done \in 0..Len(Order) /\ op.failed \in BOOLEAN
      /\ op.next \in States /\ op.previous \in States
  BY <1>1 DEF OpType
<1>3. Len(backups) \in Nat
  BY <1>1
<1>4. op.index < Len(Order) => /\ Current \in Files /\ Current = Order[op.index + 1]
                               /\ op.index + 1 \in 1..Len(Order)
  BY <1>2, OrderFacts DEF Current
<1>. QED
  BY <1>1, <1>2, <1>3, <1>4

\* Goto keeps op but for the step and the index.
LEMMA GotoFacts ==
    ASSUME op \in OpType, NEW step \in Steps, Goto(step)
    PROVE  /\ op' \in OpType /\ op'.step = step /\ op'.index = 0 /\ op'.done = op.done
           /\ op'.command = op.command /\ op'.next = op.next /\ op'.previous = op.previous
           /\ op'.failed = op.failed
<1>1. 0 \in 0..Len(Order)
  BY OrderFacts
<1>2. op' = [op EXCEPT !.step = step, !.index = 0]
  BY DEF Goto
<1>. QED
  BY <1>1, <1>2 DEF OpType

\* One step counts one file.
LEMMA CountFacts ==
    ASSUME op \in OpType, op.index < Len(Order), op' = [op EXCEPT !.index = @ + 1]
    PROVE  /\ op' \in OpType /\ op'.step = op.step /\ op'.index = op.index + 1 /\ op'.done = op.done
           /\ op'.command = op.command /\ op'.next = op.next /\ op'.previous = op.previous
           /\ op'.failed = op.failed
<1>1. op.index + 1 \in 0..Len(Order)
  BY OrderFacts DEF OpType
<1>. QED
  BY <1>1 DEF OpType

\* Copying one file keeps the invariant (createBackup).
LEMMA BackupFileInv ==
    ASSUME SetupInv, NEW ok \in BOOLEAN, BackupFile(ok)
    PROVE  SetupInv'
<1>0. op.step = "backup" /\ op.index < Len(Order) /\ UNCHANGED <<disk, temps, edits>>
  BY DEF BackupFile
<1>1. CASE ok
  <2>. DEFINE n == Len(backups)
              copy == Secure(op.previous[Current])
  <2>1. /\ backups' = [backups EXCEPT ![n].files[Current] = copy]
        /\ op' = [op EXCEPT !.index = @ + 1] /\ UNCHANGED last
    BY <1>1 DEF BackupFile
  <2>2. copy \in Entry /\ n \in 1..Len(backups) /\ backups[n] \in Backup
    BY <1>0, StepFacts, EntryFacts DEF BackupOK, States
  <2>. HIDE DEF copy
  <2>3. /\ backups' \in Seq(Backup) /\ Len(backups') = n
        /\ backups'[n].files = [backups[n].files EXCEPT ![Current] = copy]
    <3>. DEFINE files == [backups[n].files EXCEPT ![Current] = copy]
                b == [backups[n] EXCEPT !.files = files]
    <3>1. backups[n].files \in States
      BY <2>2 DEF Backup
    <3>2. files \in States
      BY <2>2, <3>1 DEF States
    <3>. HIDE DEF files
    <3>3. b \in Backup /\ b.files = files
      BY <2>2, <3>2 DEF Backup
    <3>4. backups' = [backups EXCEPT ![n] = b]
      BY <2>1 DEF files
    <3>. HIDE DEF b
    <3>. QED
      BY <2>2, <3>3, <3>4, StepFacts DEF files
  <2>4. /\ op' \in OpType /\ op'.step = "backup" /\ op'.index = op.index + 1 /\ op'.done = op.done
        /\ op'.command = op.command /\ op'.next = op.next /\ op'.previous = op.previous
    BY <1>0, <2>1, CountFacts, StepFacts
  <2>5. StepOK' /\ DiskOK'
    BY <1>0, <2>1, <2>4, StepFacts DEF StepOK, DiskOK
  <2>6. \A i \in 1..op'.index :
           backups'[Len(backups')].files[Order[i]] = Secure(op'.previous[Order[i]])
    <3>1. backups[n].files \in States
      BY <2>2 DEF Backup
    <3>2. \A i \in 1..op.index : backups[n].files[Order[i]] = Secure(op.previous[Order[i]])
      BY <1>0, StepFacts DEF BackupOK
    <3>3. \A f \in Files : backups'[n].files[f] = IF f = Current THEN copy ELSE backups[n].files[f]
      BY <2>3, <3>1 DEF States
    <3>4. /\ \A i \in 1..op.index : Order[i] \in Files /\ Order[i] # Current
          /\ Order[op.index + 1] = Current /\ Current \in Files
          /\ 1..op'.index = 1..op.index \cup {op.index + 1}
      BY <1>0, <2>4, StepFacts, OrderFacts
    <3>. QED
      BY <2>3, <2>4, <3>2, <3>3, <3>4 DEF copy
  <2>. QED
    BY <1>0, <2>1, <2>2, <2>3, <2>4, <2>5, <2>6, StepFacts, AdvanceInv
<1>2. CASE ~ok
  <2>1. Return("error") /\ UNCHANGED backups
    BY <1>2 DEF BackupFile
  <2>. QED
    BY <1>0, <2>1, StepFacts, ReturnInv DEF Idle, StepOK, DiskOK
<1>. QED
  BY <1>1, <1>2

\* The manifest completes the backup (createBackup).
LEMMA WriteManifestInv ==
    ASSUME SetupInv, NEW ok \in BOOLEAN, WriteManifest(ok)
    PROVE  SetupInv'
<1>0. op.step = "backup" /\ op.index = Len(Order) /\ UNCHANGED <<disk, temps, edits>>
  BY DEF WriteManifest
<1>1. CASE ok
  <2>. DEFINE n == Len(backups)
  <2>1. backups' = [backups EXCEPT ![n].manifest = TRUE] /\ Goto("mkdir") /\ UNCHANGED last
    BY <1>1 DEF WriteManifest
  <2>2. n \in 1..Len(backups) /\ backups[n] \in Backup
    BY <1>0, StepFacts DEF BackupOK
  <2>3. /\ backups' \in Seq(Backup) /\ Len(backups') = n
        /\ backups'[n].files = backups[n].files /\ backups'[n].manifest
    <3>. DEFINE b == [backups[n] EXCEPT !.manifest = TRUE]
    <3>1. b \in Backup /\ b.files = backups[n].files /\ b.manifest
      BY <2>2 DEF Backup
    <3>2. backups' = [backups EXCEPT ![n] = b]
      BY <2>1
    <3>. HIDE DEF b
    <3>. QED
      BY <2>2, <3>1, <3>2, StepFacts
  <2>4. /\ op' \in OpType /\ op'.step = "mkdir" /\ op'.index = 0 /\ op'.done = op.done
        /\ op'.command = op.command /\ op'.next = op.next /\ op'.previous = op.previous
    BY <2>1, GotoFacts, StepFacts DEF Steps
  <2>5. StepOK' /\ DiskOK'
    BY <1>0, <2>1, <2>4, StepFacts DEF StepOK, DiskOK
  <2>6. backups'[n].files = [f \in Files |-> Secure(op.previous[f])]
    <3>1. backups[n].files \in States
      BY <2>2 DEF Backup
    <3>2. \A i \in 1..Len(Order) : backups[n].files[Order[i]] = Secure(op.previous[Order[i]])
      BY <1>0, StepFacts DEF BackupOK
    <3>3. \A f \in Files : backups[n].files[f] = Secure(op.previous[f])
      BY <3>2, OrderFacts
    <3>. QED
      BY <2>3, <3>1, <3>3 DEF States
  <2>7. Covered(op.previous)'
    BY <2>2, <2>3, <2>4, <2>6 DEF Covered
  <2>. QED
    BY <1>0, <2>1, <2>3, <2>4, <2>5, <2>7, StepFacts, AdvanceInv
<1>2. CASE ~ok
  <2>1. Return("error") /\ UNCHANGED backups
    BY <1>2 DEF WriteManifest
  <2>. QED
    BY <1>0, <2>1, StepFacts, ReturnInv DEF Idle, StepOK, DiskOK
<1>. QED
  BY <1>1, <1>2

\* A complete backup stays one while the backups do.
LEMMA CoveredKept ==
    ASSUME UNCHANGED backups, op'.previous = op.previous, Covered(op.previous)
    PROVE  Covered(op.previous)'
  BY DEF Covered

\* The agents directory keeps the invariant (SetupCodex).
LEMMA MakeAgentsDirInv ==
    ASSUME SetupInv, NEW ok \in BOOLEAN, MakeAgentsDir(ok)
    PROVE  SetupInv'
<1>0. op.step = "mkdir" /\ UNCHANGED <<disk, temps, backups, edits>>
  BY DEF MakeAgentsDir
<1>1. CASE Goto("stage") /\ UNCHANGED last
  <2>1. /\ op' \in OpType /\ op'.step = "stage" /\ op'.index = 0 /\ op'.done = op.done
        /\ op'.command = op.command /\ op'.next = op.next /\ op'.previous = op.previous
    BY <1>1, GotoFacts, StepFacts DEF Steps
  <2>2. StepOK' /\ DiskOK'
    BY <1>0, <1>1, <2>1, StepFacts DEF StepOK, DiskOK
  <2>3. op'.command = "setup" => Covered(op.previous)'
    BY <1>0, <2>1, StepFacts, CoveredKept DEF BackupOK
  <2>. QED
    BY <1>0, <1>1, <2>1, <2>2, <2>3, StepFacts, AdvanceInv
<1>2. CASE Return("error")
  BY <1>0, <1>2, StepFacts, ReturnInv DEF Idle, StepOK, DiskOK
<1>. QED
  BY <1>1, <1>2 DEF MakeAgentsDir

\* Staging keeps the invariant: nothing that is managed is touched (replaceFilesWith).
LEMMA StageFileInv ==
    ASSUME SetupInv, NEW ok \in BOOLEAN, StageFile(ok)
    PROVE  SetupInv'
<1>0. op.step = "stage" /\ op.index < Len(Order) /\ UNCHANGED <<disk, backups, edits>>
  BY DEF StageFile
<1>1. CASE ok
  <2>1. /\ temps' = temps \/ temps' = temps \cup {Current}
        /\ op' = [op EXCEPT !.index = @ + 1] /\ UNCHANGED last
    BY <1>1 DEF StageFile
  <2>2. /\ op' \in OpType /\ op'.step = "stage" /\ op'.index = op.index + 1 /\ op'.done = op.done
        /\ op'.command = op.command /\ op'.next = op.next /\ op'.previous = op.previous
    BY <1>0, <2>1, CountFacts, StepFacts
  <2>3. temps' \subseteq {Order[i] : i \in 1..op'.index}
    BY <1>0, <2>1, <2>2, StepFacts DEF StepOK
  <2>4. StepOK' /\ DiskOK'
    BY <1>0, <2>1, <2>2, <2>3, StepFacts DEF StepOK, DiskOK
  <2>5. op'.command = "setup" => Covered(op.previous)'
    BY <1>0, <2>2, StepFacts, CoveredKept DEF BackupOK
  <2>. QED
    BY <1>0, <2>1, <2>2, <2>4, <2>5, StepFacts, AdvanceInv
<1>2. CASE ~ok
  <2>1. temps' = {} /\ Return("error")
    BY <1>2 DEF StageFile
  <2>. QED
    BY <1>0, <2>1, StepFacts, ReturnInv DEF Idle, DiskOK
<1>. QED
  BY <1>1, <1>2

\* The replacement begins with every file staged and none replaced (replaceFilesWith).
LEMMA StagedInv ==
    ASSUME SetupInv, Staged
    PROVE  SetupInv'
<1>0. /\ op.step = "stage" /\ op.index = Len(Order) /\ Goto("replace")
      /\ UNCHANGED <<disk, temps, backups, last, edits>>
  BY DEF Staged
<1>1. /\ op' \in OpType /\ op'.step = "replace" /\ op'.index = 0 /\ op'.done = op.done
      /\ op'.command = op.command /\ op'.next = op.next /\ op'.previous = op.previous
  BY <1>0, GotoFacts, StepFacts DEF Steps
<1>2. op.done = 0 /\ temps \subseteq {Order[i] : i \in 1..Len(Order)}
  BY <1>0, StepFacts DEF StepOK
<1>3. StepOK'
  BY <1>0, <1>1, <1>2, StepFacts DEF StepOK
<1>4. DiskOK'
  BY <1>0, <1>1, <1>2, StepFacts DEF DiskOK
<1>5. op'.command = "setup" => Covered(op.previous)'
  BY <1>0, <1>1, StepFacts, CoveredKept DEF BackupOK
<1>. QED
  BY <1>0, <1>1, <1>3, <1>4, <1>5, StepFacts, AdvanceInv

\* One rename keeps the invariant, and so does a failed one, which starts the rollback.
LEMMA ReplaceFileInv ==
    ASSUME SetupInv, NEW ok \in BOOLEAN, ReplaceFile(ok)
    PROVE  SetupInv'
<1>0. op.step = "replace" /\ op.index < Len(Order) /\ UNCHANGED <<backups, last, edits>>
  BY DEF ReplaceFile
<1>1. op.done = op.index /\ temps \subseteq {Order[i] : i \in (op.index + 1)..Len(Order)}
  BY <1>0, StepFacts DEF StepOK
<1>2. CASE ok
  <2>1. /\ disk' = [disk EXCEPT ![Current] = op.next[Current]]
        /\ temps' = temps \ {Current}
        /\ op' = [op EXCEPT !.index = @ + 1, !.done = @ + 1]
    BY <1>2 DEF ReplaceFile
  <2>2. /\ op' \in OpType /\ op'.step = "replace" /\ op'.index = op.index + 1 /\ op'.done = op.index + 1
        /\ op'.command = op.command /\ op'.next = op.next /\ op'.previous = op.previous
    <3>1. op.index + 1 \in 0..Len(Order) /\ op.done + 1 = op.index + 1
      BY <1>0, <1>1, StepFacts
    <3>2. op \in OpType
      BY StepFacts
    <3>. QED
      BY <1>0, <2>1, <3>1, <3>2 DEF OpType
  <2>3. /\ disk' \in States
        /\ \A f \in Files : disk'[f] = IF f = Current THEN op.next[f] ELSE disk[f]
    BY <1>0, <2>1, StepFacts DEF States
  <2>4. \A i \in 1..Len(Order) : Order[i] = Current <=> i = op.index + 1
    BY <1>0, StepFacts, OrderFacts
  <2>5. DiskOK'
    <3>1. ASSUME NEW i \in 1..Len(Order), ~edits.during
          PROVE  disk'[Order[i]] = IF i =< op.index + 1 THEN op.next[Order[i]] ELSE op.previous[Order[i]]
      <4>1. disk[Order[i]] = IF i =< op.index THEN op.next[Order[i]] ELSE op.previous[Order[i]]
        BY <1>0, <1>1, <3>1, StepFacts DEF DiskOK
      <4>2. disk'[Order[i]] = IF i = op.index + 1 THEN op.next[Order[i]] ELSE disk[Order[i]]
        BY <2>3, <2>4, OrderFacts
      <4>. QED
        BY <4>1, <4>2, StepFacts, OrderFacts
    <3>. QED
      BY <1>0, <2>2, <3>1 DEF DiskOK
  <2>6. temps' \subseteq {Order[i] : i \in (op'.index + 1)..Len(Order)}
    BY <1>0, <1>1, <2>1, <2>2, StepFacts, OrderFacts
  <2>7. StepOK'
    BY <1>0, <2>2, <2>6, StepFacts DEF StepOK
  <2>8. op'.command = "setup" => Covered(op.previous)'
    BY <1>0, <2>2, StepFacts, CoveredKept DEF BackupOK
  <2>9. temps' \subseteq Files
    BY <2>1, StepFacts
  <2>. QED
    BY <1>0, <2>2, <2>3, <2>5, <2>7, <2>8, <2>9, StepFacts, AdvanceInv
<1>3. CASE ~ok
  <2>1. Goto("rollback") /\ temps' = {} /\ UNCHANGED disk
    BY <1>3 DEF ReplaceFile
  <2>2. /\ op' \in OpType /\ op'.step = "rollback" /\ op'.index = 0 /\ op'.done = op.done
        /\ op'.command = op.command /\ op'.next = op.next /\ op'.previous = op.previous
    BY <2>1, GotoFacts, StepFacts DEF Steps
  <2>3. StepOK'
    BY <1>0, <2>1, <2>2, StepFacts DEF StepOK
  <2>4. DiskOK'
    BY <1>0, <2>1, <2>2, StepFacts DEF DiskOK
  <2>5. op'.command = "setup" => Covered(op.previous)'
    BY <1>0, <2>2, StepFacts, CoveredKept DEF BackupOK
  <2>. QED
    BY <1>0, <2>1, <2>2, <2>3, <2>4, <2>5, StepFacts, AdvanceInv
<1>. QED
  BY <1>2, <1>3

\* A replacement that ends well has replaced every file.
LEMMA ReplacedInv ==
    ASSUME SetupInv, Replaced
    PROVE  SetupInv'
<1>0. /\ op.step = "replace" /\ op.index = Len(Order) /\ Return("ok")
      /\ UNCHANGED <<disk, temps, backups, edits>>
  BY DEF Replaced
<1>1. temps = {}
  BY <1>0, StepFacts, OrderFacts DEF StepOK
<1>2. ASSUME ~edits.during
      PROVE  disk = op.next
  <2>1. \A i \in 1..Len(Order) : disk[Order[i]] = op.next[Order[i]]
    BY <1>0, <1>2, StepFacts, OrderFacts DEF DiskOK, StepOK
  <2>2. \A f \in Files : disk[f] = op.next[f]
    BY <2>1, OrderFacts
  <2>. QED
    BY <2>2, StepFacts DEF States
<1>. QED
  BY <1>0, <1>1, <1>2, ReturnInv DEF Idle

\* Putting one file back keeps the invariant (rollbackFiles).
LEMMA RollbackFileInv ==
    ASSUME SetupInv, NEW ok \in BOOLEAN, RollbackFile(ok)
    PROVE  SetupInv'
<1>0. /\ op.step = "rollback" /\ op.index < op.done /\ UNCHANGED <<temps, backups, last, edits>>
      /\ disk' = IF ok THEN [disk EXCEPT ![Current] = op.previous[Current]] ELSE disk
      /\ op' = [op EXCEPT !.index = @ + 1, !.failed = @ \/ ~ok]
  BY DEF RollbackFile
<1>1. op.index < Len(Order)
  BY <1>0, StepFacts, OrderFacts
<1>2. /\ op' \in OpType /\ op'.step = "rollback" /\ op'.index = op.index + 1 /\ op'.done = op.done
      /\ op'.command = op.command /\ op'.next = op.next /\ op'.previous = op.previous
      /\ op'.failed = (op.failed \/ ~ok)
  <2>. DEFINE failed == op.failed \/ ~ok
  <2>1. op.index + 1 \in 0..Len(Order) /\ op \in OpType /\ failed \in BOOLEAN
    BY <1>1, StepFacts
  <2>2. op' = [op EXCEPT !.index = @ + 1, !.failed = failed]
    BY <1>0
  <2>. HIDE DEF failed
  <2>3. /\ op' \in OpType /\ op'.step = op.step /\ op'.index = op.index + 1 /\ op'.done = op.done
        /\ op'.command = op.command /\ op'.next = op.next /\ op'.previous = op.previous
        /\ op'.failed = failed
    BY <2>1, <2>2 DEF OpType
  <2>. QED
    BY <1>0, <2>3 DEF failed
<1>3. disk' \in States /\ (ok => \A f \in Files : disk'[f] = IF f = Current THEN op.previous[f] ELSE disk[f])
  BY <1>0, <1>1, StepFacts DEF States
<1>4. \A i \in 1..Len(Order) : Order[i] = Current <=> i = op.index + 1
  BY <1>1, StepFacts, OrderFacts
<1>5. DiskOK'
  <2>1. ASSUME NEW i \in 1..Len(Order), ~edits.during, ~op.failed, ok
        PROVE  disk'[Order[i]] = IF op.index + 1 < i /\ i =< op.done THEN op.next[Order[i]]
                                                                    ELSE op.previous[Order[i]]
    <3>1. disk[Order[i]] = IF op.index < i /\ i =< op.done THEN op.next[Order[i]]
                                                           ELSE op.previous[Order[i]]
      BY <1>0, <2>1, StepFacts DEF DiskOK
    <3>2. disk'[Order[i]] = IF i = op.index + 1 THEN op.previous[Order[i]] ELSE disk[Order[i]]
      BY <1>3, <1>4, <2>1, OrderFacts
    <3>. QED
      BY <3>1, <3>2, StepFacts, OrderFacts
  <2>. QED
    BY <1>0, <1>2, <2>1 DEF DiskOK
<1>6. StepOK'
  BY <1>0, <1>2, StepFacts, OrderFacts DEF StepOK
<1>7. op'.command = "setup" => Covered(op.previous)'
  BY <1>0, <1>2, StepFacts, CoveredKept DEF BackupOK
<1>. QED
  BY <1>0, <1>2, <1>3, <1>5, <1>6, <1>7, StepFacts, AdvanceInv

\* A rollback without a failure has put every file back.
LEMMA RolledBackInv ==
    ASSUME SetupInv, RolledBack
    PROVE  SetupInv'
<1>0. /\ op.step = "rollback" /\ op.index = op.done
      /\ Return(IF op.failed THEN "rollback_failed" ELSE "error")
      /\ UNCHANGED <<disk, temps, backups, edits>>
  BY DEF RolledBack
<1>1. temps = {} /\ ~Idle
  BY <1>0, StepFacts DEF StepOK, Idle
<1>2. ASSUME ~edits.during, ~op.failed
      PROVE  disk = op.previous
  <2>1. \A i \in 1..Len(Order) : disk[Order[i]] = op.previous[Order[i]]
    BY <1>0, <1>2, StepFacts, OrderFacts DEF DiskOK
  <2>2. \A f \in Files : disk[f] = op.previous[f]
    BY <2>1, OrderFacts
  <2>. QED
    BY <2>2, StepFacts DEF States
<1>3. CASE op.failed
  BY <1>0, <1>1, <1>3, ReturnInv
<1>4. CASE ~op.failed
  BY <1>0, <1>1, <1>2, <1>4, ReturnInv
<1>. QED
  BY <1>3, <1>4

\* Codex's own edits keep the invariant, which then says nothing of the contents.
LEMMA ExternalEditInv ==
    ASSUME SetupInv, NEW f \in Files, NEW c \in Contents, ExternalEdit(f, c)
    PROVE  SetupInv'
<1>0. /\ edits.count < MaxEdits /\ disk' = [disk EXCEPT ![f].data = c]
      /\ edits' = [count |-> edits.count + 1, during |-> TRUE]
      /\ UNCHANGED <<temps, backups, op, last>>
  BY DEF ExternalEdit
<1>1. disk' \in States
  BY <1>0, StepFacts DEF States, Entry
<1>2. edits' \in [count : 0..MaxEdits, during : BOOLEAN] /\ edits'.during
  BY <1>0, SetupAssumption DEF SetupInv, SetupTypeOK
<1>3. SetupTypeOK' /\ OpTypeOK'
  BY <1>0, <1>1, <1>2 DEF SetupInv, SetupTypeOK, OpTypeOK
<1>4. StepOK' /\ DiskOK'
  BY <1>0, <1>2 DEF SetupInv, StepOK, DiskOK
<1>5. BackupOK' /\ AllOrNothing'
  BY <1>0, <1>2 DEF SetupInv, BackupOK, AllOrNothing, Idle, Covered
<1>. QED
  BY <1>3, <1>4, <1>5 DEF SetupInv

\* Every step keeps the invariant.
LEMMA NextSetupInv == SetupInv /\ [SetupNext]_setupVars => SetupInv'
<1>. SUFFICES ASSUME SetupInv, [SetupNext]_setupVars
              PROVE  SetupInv'
  OBVIOUS
<1>1. CASE UNCHANGED setupVars
  BY <1>1
  DEF setupVars, SetupInv, SetupTypeOK, OpTypeOK, StepOK, DiskOK, BackupOK, AllOrNothing, Idle,
      Covered
<1>2. CASE \E dryRun, ok \in BOOLEAN : SetupCodex(dryRun, ok)
  BY <1>2, SetupCodexInv
<1>3. CASE \E b \in 1..Len(backups) : RestoreBackup(b)
  BY <1>3, RestoreBackupInv
<1>4. ASSUME NEW ok \in BOOLEAN,
             \/ BackupFile(ok) \/ WriteManifest(ok) \/ MakeAgentsDir(ok)
             \/ StageFile(ok) \/ ReplaceFile(ok) \/ RollbackFile(ok)
      PROVE  SetupInv'
  BY <1>4, BackupFileInv, WriteManifestInv, MakeAgentsDirInv, StageFileInv, ReplaceFileInv,
     RollbackFileInv
<1>5. CASE Staged \/ Replaced \/ RolledBack
  BY <1>5, StagedInv, ReplacedInv, RolledBackInv
<1>6. CASE Kill
  <2>1. ~Idle /\ Return("killed") /\ temps' = {} /\ UNCHANGED <<disk, backups, edits>>
    BY <1>6 DEF Kill
  <2>. QED
    BY <2>1, ReturnInv
<1>7. CASE \E f \in Files, c \in Contents : ExternalEdit(f, c)
  BY <1>7, ExternalEditInv
<1>. QED
  BY <1>1, <1>2, <1>3, <1>4, <1>5, <1>6, <1>7 DEF SetupNext

-----------------------------------------------------------------------------

\* The inductive invariant holds throughout.
THEOREM SetupInvAlways == SetupSpec => []SetupInv
  BY InitSetupInv, NextSetupInv, PTL DEF SetupSpec

\* Type correctness of the installer.
THEOREM SetupTypeCorrect == SetupSpec => []SetupTypeOK
<1>1. SetupInv => SetupTypeOK
  BY DEF SetupInv
<1>. QED
  BY <1>1, SetupInvAlways, PTL

\* A command that reports success has replaced all files and one that reports an error
\* none, whatever fails in between; only a failed rollback or a kill leaves a mixture.
THEOREM SetupAllOrNothing == SetupSpec => []AllOrNothing
<1>1. SetupInv => AllOrNothing
  BY DEF SetupInv
<1>. QED
  BY <1>1, SetupInvAlways, PTL

\* No file is replaced by a setup before a complete backup of all of them exists.
THEOREM SetupBackedUpFirst == SetupSpec => []BackedUpFirst
<1>1. SetupInv => BackedUpFirst
  <2>. SUFFICES ASSUME SetupInv
                PROVE  BackedUpFirst
    OBVIOUS
  <2>1. op.command = "setup" /\ op.done > 0 => Covered(op.previous)
    BY StepFacts DEF StepOK, BackupOK, Steps
  <2>2. last.command = "setup" /\ last.replaced => Covered(last.previous)
    BY DEF SetupInv, BackupOK
  <2>. QED
    BY <2>1, <2>2 DEF BackedUpFirst, Covered
<1>. QED
  BY <1>1, SetupInvAlways, PTL
================================================================================
