----------------------------- MODULE CodexSetup -----------------------------
(***************************************************************************)
(* The installer of internal/codexsetup/setup.go: SetupCodex renders a     *)
(* handful of files in the Codex home, backs the old ones up, and replaces *)
(* them one rename at a time; RestoreBackup puts a backup back with the    *)
(* same replacement routine.  Every write may fail, the process may be     *)
(* killed between any two, and Codex or its user edits the same files      *)
(* meanwhile.                                                              *)
(***************************************************************************)
EXTENDS Integers, Sequences, FiniteSets, SequencesExt

CONSTANTS
    Order,        \* the managed files, in the order setup replaces them
    Config,       \* the one that is rendered from its old content
    Contents,     \* file contents
    Nothing,      \* the content of a missing file
    Render,       \* by file and old content, what setup writes
    Accepts,      \* by file, the contents its validator accepts
    MaxBackups, MaxEdits   \* bounds

Files == ToSet(Order)

ASSUME SetupAssumption ==
    /\ Order \in Seq(Files)
    /\ Config \in Files
    /\ Nothing \notin Contents
    /\ IsInjective(Order)
    /\ Render \in [Files -> [Contents \cup {Nothing} -> Contents]]
    /\ Accepts \in [Files -> SUBSET Contents]
    /\ \A f \in Files, c \in Contents \cup {Nothing} : Render[f][c] \in Accepts[f]
    /\ MaxBackups \in Nat /\ MaxEdits \in Nat

VARIABLES
    disk,      \* the managed files
    temps,     \* the files for which the command has staged a temporary
    backups,   \* the backup directories, oldest first
    op,        \* the running command
    last,      \* how the last command ended
    edits      \* external edits so far, and whether one hit the running command

setupVars == <<disk, temps, backups, op, last, edits>>

-----------------------------------------------------------------------------

Modes == {"private", "shared"}

\* A fileState: content and permissions.
Entry == [data : Contents \cup {Nothing}, mode : Modes]

Absent == [data |-> Nothing, mode |-> "private"]

Exists(e) == e.data # Nothing

\* secureFileMode keeps owner-only permissions and replaces all others.
Secure(e) == [e EXCEPT !.mode = "private"]

States == [Files -> Entry]

\* A backup directory: the copies written so far, and whether its manifest is.
Backup == [files : States, manifest : BOOLEAN]

\* The steps of a command.  index counts the files a step has dealt with, done
\* the files replaced.
Steps == {"idle", "backup", "mkdir", "stage", "replace", "rollback"}

IdleOp == [command |-> "none", step |-> "idle", index |-> 0, done |-> 0, failed |-> FALSE,
           next |-> [f \in Files |-> Absent], previous |-> [f \in Files |-> Absent]]

Results == {"none", "ok", "unchanged", "refused", "error", "rollback_failed", "killed"}

NoResult == [command |-> "none", result |-> "none", next |-> IdleOp.next,
             previous |-> IdleOp.previous, replaced |-> FALSE]

\* Type correctness; the replacement loop never counts a file more than once, so
\* rollbackFiles indexes within the files.
SetupTypeOK ==
    /\ disk \in States
    /\ temps \in SUBSET Files
    /\ backups \in Seq(Backup) /\ Len(backups) =< MaxBackups
    /\ op.step \in Steps /\ op.index \in 0..Len(Order) /\ op.done \in 0..Len(Order)
    /\ op.next \in States /\ op.previous \in States
    /\ last.result \in Results /\ last.next \in States /\ last.previous \in States
    /\ edits \in [count : 0..MaxEdits, during : BOOLEAN]

SetupInit ==
    /\ disk \in [Files -> {[data |-> c, mode |-> m] : c \in Contents, m \in Modes} \cup {Absent}]
    /\ temps = {}
    /\ backups = << >>
    /\ op = IdleOp
    /\ last = NoResult
    /\ edits = [count |-> 0, during |-> FALSE]

-----------------------------------------------------------------------------

Idle == op.step = "idle"

\* The file the current step is about.
Current == Order[op.index + 1]

Goto(step) == op' = [op EXCEPT !.step = step, !.index = 0]

\* The command ends and reports.
Return(result) ==
    /\ op' = IdleOp
    /\ last' = [command |-> op.command, result |-> result, next |-> op.next,
                previous |-> op.previous, replaced |-> op.done > 0]

\* A command that ends without having written anything.
ReturnEarly(command, result, next) ==
    /\ last' = [command |-> command, result |-> result, next |-> next, previous |-> disk,
                replaced |-> FALSE]
    /\ edits' = [edits EXCEPT !.during = FALSE]
    /\ UNCHANGED <<disk, temps, backups, op>>

Launch(command, step, next) ==
    /\ op' = [IdleOp EXCEPT !.command = command, !.step = step, !.next = next, !.previous = disk]
    /\ last' = NoResult
    /\ edits' = [edits EXCEPT !.during = FALSE]
    /\ UNCHANGED <<disk, temps>>

\* parseTOML, ValidateCatalog, InspectProfile or validateSubagentData, by file.
Valid(f, e) == Exists(e) => e.data \in Accepts[f]

\* The user's config with the managed provider tables edited in and stale gateway
\* routing taken out.
renderConfig(e) == Secure([e EXCEPT !.data = Render[Config][e.data]])

\* The catalog, the profiles and the subagent do not depend on what was there.
Rendered ==
    [f \in Files |-> IF f = Config THEN renderConfig(disk[f])
                     ELSE [data |-> Render[f][Nothing], mode |-> "private"]]

\* SetupCodex up to the backup directory: it reads every file, refuses a config
\* it cannot parse, and has nothing to do when all files are as rendered. A dry run
\* stops here too. ok: the directory can be made.
SetupCodex(dryRun, ok) ==
    /\ Idle
    /\ IF ~Valid(Config, disk[Config])
       THEN ReturnEarly("setup", "refused", disk)
       ELSE IF dryRun \/ disk = Rendered
       THEN ReturnEarly("setup", "unchanged", disk)
       ELSE IF ~ok
       THEN ReturnEarly("setup", "error", disk)
       ELSE /\ Len(backups) < MaxBackups
            /\ backups' = Append(backups, [files |-> [f \in Files |-> Absent], manifest |-> FALSE])
            /\ Launch("setup", "backup", Rendered)

\* Fault: a file that cannot be copied is left out of the backup.
BackupFileQuietly(ok) ==
    /\ op.step = "backup" /\ op.index < Len(Order)
    /\ op' = [op EXCEPT !.index = @ + 1]
    /\ backups' = IF ok THEN [backups EXCEPT ![Len(backups)].files[Current] = Secure(op.previous[Current])]
                        ELSE backups
    /\ UNCHANGED <<disk, temps, last, edits>>

\* createBackup copies one file as it was read; a failure ends the command and
\* leaves the directory without a manifest.
BackupFile(ok) ==
    /\ op.step = "backup" /\ op.index < Len(Order)
    /\ ok \/ Exists(op.previous[Current])
    /\ IF ok
       THEN /\ backups' = [backups EXCEPT ![Len(backups)].files[Current] = Secure(op.previous[Current])]
            /\ op' = [op EXCEPT !.index = @ + 1]
            /\ UNCHANGED last
       ELSE Return("error") /\ UNCHANGED backups
    /\ UNCHANGED <<disk, temps, edits>>

\* The manifest is the last thing written.
WriteManifest(ok) ==
    /\ op.step = "backup" /\ op.index = Len(Order)
    /\ IF ok
       THEN /\ backups' = [backups EXCEPT ![Len(backups)].manifest = TRUE]
            /\ Goto("mkdir")
            /\ UNCHANGED last
       ELSE Return("error") /\ UNCHANGED backups
    /\ UNCHANGED <<disk, temps, edits>>

\* The agents directory is made between the backup and the replacement.
MakeAgentsDir(ok) ==
    /\ op.step = "mkdir"
    /\ IF ok THEN Goto("stage") /\ UNCHANGED last ELSE Return("error")
    /\ UNCHANGED <<disk, temps, backups, edits>>

\* RestoreBackup up to the replacement: the manifest must be there and every file
\* in it must pass its validator.
RestoreBackup(b) ==
    /\ Idle
    /\ IF backups[b].manifest /\ \A f \in Files : Valid(f, backups[b].files[f])
       THEN Launch("restore", "stage", backups[b].files) /\ UNCHANGED backups
       ELSE ReturnEarly("restore", "refused", backups[b].files)

\* replaceFilesWith stages one temporary; a failure removes them all.
StageFile(ok) ==
    /\ op.step = "stage" /\ op.index < Len(Order)
    /\ ok \/ Exists(op.next[Current])
    /\ IF ok
       THEN /\ temps' = IF Exists(op.next[Current]) THEN temps \cup {Current} ELSE temps
            /\ op' = [op EXCEPT !.index = @ + 1]
            /\ UNCHANGED last
       ELSE temps' = {} /\ Return("error")
    /\ UNCHANGED <<disk, backups, edits>>

\* Everything is staged.
Staged ==
    /\ op.step = "stage" /\ op.index = Len(Order)
    /\ Goto("replace")
    /\ UNCHANGED <<disk, temps, backups, last, edits>>

\* One rename, or one removal, which a missing file does not fail; a failure drops
\* the remaining temporaries and starts the rollback.
ReplaceFile(ok) ==
    /\ op.step = "replace" /\ op.index < Len(Order)
    /\ ok \/ Exists(op.next[Current]) \/ Exists(disk[Current])
    /\ IF ok
       THEN /\ disk' = [disk EXCEPT ![Current] = op.next[Current]]
            /\ temps' = temps \ {Current}
            /\ op' = [op EXCEPT !.index = @ + 1, !.done = @ + 1]
       ELSE /\ Goto("rollback")
            /\ temps' = {}
            /\ UNCHANGED disk
    /\ UNCHANGED <<backups, last, edits>>

Replaced ==
    /\ op.step = "replace" /\ op.index = Len(Order)
    /\ Return("ok")
    /\ UNCHANGED <<disk, temps, backups, edits>>

\* Fault: a file that could not be put back is not reported.
RollbackFileSilently(ok) ==
    /\ op.step = "rollback" /\ op.index < op.done
    /\ disk' = IF ok THEN [disk EXCEPT ![Current] = op.previous[Current]] ELSE disk
    /\ op' = [op EXCEPT !.index = @ + 1]
    /\ UNCHANGED <<temps, backups, last, edits>>

\* rollbackFiles puts one replaced file back, permissions included, and goes on
\* past a failure.
RollbackFile(ok) ==
    /\ op.step = "rollback" /\ op.index < op.done
    /\ ok \/ Exists(op.previous[Current]) \/ Exists(disk[Current])
    /\ disk' = IF ok THEN [disk EXCEPT ![Current] = op.previous[Current]] ELSE disk
    /\ op' = [op EXCEPT !.index = @ + 1, !.failed = @ \/ ~ok]
    /\ UNCHANGED <<temps, backups, last, edits>>

RolledBack ==
    /\ op.step = "rollback" /\ op.index = op.done
    /\ Return(IF op.failed THEN "rollback_failed" ELSE "error")
    /\ UNCHANGED <<disk, temps, backups, edits>>

\* The process is killed. What it staged stays on disk, under names that no later
\* command uses.
Kill ==
    /\ ~Idle
    /\ Return("killed")
    /\ temps' = {}
    /\ UNCHANGED <<disk, backups, edits>>

\* Codex, or its user, writes a managed file.
ExternalEdit(f, c) ==
    /\ edits.count < MaxEdits
    /\ disk' = [disk EXCEPT ![f].data = c]
    /\ edits' = [count |-> edits.count + 1, during |-> TRUE]
    /\ UNCHANGED <<temps, backups, op, last>>

SetupNext ==
    \/ \E dryRun, ok \in BOOLEAN : SetupCodex(dryRun, ok)
    \/ \E b \in 1..Len(backups) : RestoreBackup(b)
    \/ \E ok \in BOOLEAN :
          BackupFile(ok) \/ WriteManifest(ok) \/ MakeAgentsDir(ok)
             \/ StageFile(ok) \/ ReplaceFile(ok) \/ RollbackFile(ok)
    \/ Staged
    \/ Replaced
    \/ RolledBack
    \/ Kill
    \/ \E f \in Files, c \in Contents : ExternalEdit(f, c)

SetupSpec == SetupInit /\ [][SetupNext]_setupVars

-----------------------------------------------------------------------------
(* Properties.                                                             *)

\* What a command reports is what happened to all files together: after success
\* every file is the new one, after an error every file is the old one with its
\* old permissions, and only a failed rollback or a kill leaves a mixture. A command that
\* returns leaves no temporary of its own.
AllOrNothing ==
    Idle =>
       /\ temps = {}
       /\ ~edits.during /\ last.result = "ok" => disk = last.next
       /\ ~edits.during /\ last.result \in {"error", "unchanged", "refused"} => disk = last.previous

\* A setup replaces nothing before a complete backup of what it read exists, so
\* that a kill or a failed rollback at any point leaves a way back.
BackedUpFirst ==
    LET Covered(previous) ==
           \E b \in 1..Len(backups) :
              backups[b].manifest /\ backups[b].files = [f \in Files |-> Secure(previous[f])]
    IN /\ op.command = "setup" /\ op.done > 0 => Covered(op.previous)
       /\ last.command = "setup" /\ last.replaced => Covered(last.previous)

\* RestoreBackup restores the exact files recorded by a setup backup: given one
\* that is complete, it does not refuse.
RestoreExact ==
    last.command = "restore" /\ last.result = "refused" =>
       \A b \in 1..Len(backups) : backups[b].files = last.next => ~backups[b].manifest
=============================================================================
