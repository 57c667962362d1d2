---------------------------- MODULE CredentialStore ----------------------------
(***************************************************************************)
(* The gateway's API credential (internal/credentials, with the set-key    *)
(* and remove-key commands of cmd/opencode-gateway): one value kept in the *)
(* Secret Service keyring, through a helper process, or in a private file. *)
(*                                                                         *)
(* A command touches the two backends one after the other and may be       *)
(* killed between any two steps; the keyring comes and goes, and a helper  *)
(* that exceeds its 2 s is killed after it did its work or before; a       *)
(* gateway may be loading the credential meanwhile.  The file is replaced  *)
(* by rename, so it holds one whole value or is absent; on Windows it is   *)
(* removed first if the rename over it fails.  There is a place for the    *)
(* file: without one (no user configuration directory) only the keyring    *)
(* branch of each command is left.                                         *)
(***************************************************************************)
CONSTANTS Values, None

\* "pending", "notFound" and "error" mark the answers of a Load that are no credential.
ASSUME ValuesAssumption ==
    /\ Values # {}
    /\ Values \cap {None, "pending", "notFound", "error"} = {}

VARIABLES
    file,       \* the credential file's value
    keyring,    \* the Secret Service item
    up,         \* does the keyring answer?
    op,         \* the running set-key or remove-key command
    last,       \* how the last command ended
    loader,     \* the running or last Load
    windows     \* is this a Windows machine?

credVars == <<file, keyring, up, op, last, loader, windows>>

Slot == Values \cup {None}

\* enabled: the process found a keyring helper and a session bus, on Linux only.
Op == [kind : {"none", "save", "remove"}, pc : {"idle", "keyring", "oldFile", "file", "rename"},
       value : Slot, enabled : BOOLEAN, failed : BOOLEAN]

Last == [kind : {"none", "save", "remove"}, value : Slot, ok : BOOLEAN,
         enabled : BOOLEAN]

\* steady: since the Load began a credential was configured, the keyring answered,
\* no remove-key ran and no set-key removed the file to make room for the new one.
Loader == [pc : {"idle", "file", "keyring"}, answer : Values \cup {"pending", "notFound", "error"},
           steady : BOOLEAN]

\* Every variable has its type.
CredTypeOK ==
    /\ file \in Slot /\ keyring \in Slot /\ up \in BOOLEAN
    /\ op \in Op /\ last \in Last /\ loader \in Loader /\ windows \in BOOLEAN

IdleOp == [kind |-> "none", pc |-> "idle", value |-> None, enabled |-> FALSE,
           failed |-> FALSE]

NoLast == [kind |-> "none", value |-> None, ok |-> FALSE, enabled |-> FALSE]

IdleLoader == [pc |-> "idle", answer |-> "pending", steady |-> FALSE]

Configured == file # None \/ keyring # None

Finish(ok) ==
    /\ op' = IdleOp
    /\ last' = [kind |-> op.kind, value |-> op.value, ok |-> ok,
                enabled |-> op.enabled]

Goto(pc) == op' = [op EXCEPT !.pc = pc] /\ UNCHANGED last

\* The promise is taken away from a Load that runs meanwhile.
Unsteady == loader' = [loader EXCEPT !.steady = FALSE]

-----------------------------------------------------------------------------
(* Save.                                                                   *)

BeginSave(v, enabled) ==
    /\ op.pc = "idle"
    /\ ~(enabled /\ windows)
    /\ op' = [IdleOp EXCEPT !.kind = "save", !.pc = "keyring", !.value = v, !.enabled = enabled]
    /\ last' = NoLast
    /\ UNCHANGED <<file, keyring, up, loader, windows>>

\* Fault: the old file goes before the new value is anywhere.
SaveKeyringAfterFile ==
    /\ op.kind = "save" /\ op.pc = "keyring"
    /\ file' = None
    /\ Goto("file")
    /\ UNCHANGED <<keyring, up, loader, windows>>

\* keyring.Save: success leads to the old file copy, failure to the file fallback.
\* A helper killed at its timeout may have stored the value nevertheless.
SaveKeyring ==
    /\ op.kind = "save" /\ op.pc = "keyring"
    /\ \/ op.enabled /\ up /\ keyring' = op.value /\ Goto("oldFile")
       \/ op.enabled /\ up /\ keyring' \in {keyring, op.value} /\ Goto("file")
       \/ ~(op.enabled /\ up) /\ UNCHANGED keyring /\ Goto("file")
    /\ UNCHANGED <<file, up, loader, windows>>

\* Fault: a copy that could not be removed does not fail the command.
RemoveOldFileQuietly ==
    /\ op.kind = "save" /\ op.pc = "oldFile"
    /\ file' \in {file, None}
    /\ Finish(TRUE)
    /\ UNCHANGED <<keyring, up, loader, windows>>

\* removeFile after a successful keyring save.
RemoveOldFile ==
    /\ op.kind = "save" /\ op.pc = "oldFile"
    /\ \/ file' = None /\ Finish(TRUE)
       \/ file # None /\ UNCHANGED file /\ Finish(FALSE)
    /\ UNCHANGED <<keyring, up, loader, windows>>

\* saveFile: nothing before the rename is visible; the chmod after it may fail too.
\* Where a file that exists cannot be renamed over, Windows has it removed first.
SaveFile ==
    /\ op.kind = "save" /\ op.pc = "file"
    /\ \/ file' = op.value /\ Finish(TRUE) /\ UNCHANGED loader
       \/ file' \in {file, op.value} /\ Finish(FALSE) /\ UNCHANGED loader
       \/ windows /\ file # None /\ file' = None /\ Goto("rename") /\ Unsteady
    /\ UNCHANGED <<keyring, up, windows>>

\* The second rename, and the chmod.
RenameAgain ==
    /\ op.kind = "save" /\ op.pc = "rename"
    /\ \/ file' = op.value /\ Finish(TRUE)
       \/ file' \in {file, op.value} /\ Finish(FALSE)
    /\ UNCHANGED <<keyring, up, loader, windows>>

-----------------------------------------------------------------------------
(* Remove.                                                                 *)

BeginRemove(enabled) ==
    /\ op.pc = "idle"
    /\ ~(enabled /\ windows)
    /\ op' = [IdleOp EXCEPT !.kind = "remove", !.pc = "keyring", !.enabled = enabled]
    /\ last' = NoLast
    /\ Unsteady
    /\ UNCHANGED <<file, keyring, up, windows>>

\* keyring.Remove looks the item up first and takes any failure to do so for
\* ErrNotFound, which Store.Remove takes for success.
RemoveKeyring ==
    /\ op.kind = "remove" /\ op.pc = "keyring"
    /\ \/ op.enabled /\ up /\ keyring' = None /\ Goto("file")
       \/ /\ op.enabled /\ up /\ keyring # None
          /\ keyring' \in {keyring, None}
          /\ op' = [op EXCEPT !.pc = "file", !.failed = TRUE]
          /\ UNCHANGED last
       \/ ~(op.enabled /\ up) /\ UNCHANGED keyring /\ Goto("file")
    /\ UNCHANGED <<file, up, loader, windows>>

\* removeFile; the keyring's error, if any, is the one reported.
RemoveFile ==
    /\ op.kind = "remove" /\ op.pc = "file"
    /\ \/ file' = None /\ Finish(~op.failed)
       \/ file # None /\ UNCHANGED file /\ Finish(FALSE)
    /\ UNCHANGED <<keyring, up, loader, windows>>

-----------------------------------------------------------------------------
(* Load, by a gateway that starts meanwhile.                               *)

BeginLoad ==
    /\ loader.pc = "idle"
    /\ loader' = [pc |-> "file", answer |-> "pending",
                  steady |-> Configured /\ up /\ op.kind # "remove"]
    /\ UNCHANGED <<file, keyring, up, op, last, windows>>

\* Fault: the keyring is asked before the file.
LoadFileLast ==
    /\ loader.pc = "file"
    /\ loader' = IF up /\ keyring # None THEN [loader EXCEPT !.pc = "idle", !.answer = keyring]
                 ELSE [loader EXCEPT !.pc = "keyring"]
    /\ UNCHANGED <<file, keyring, up, op, last, windows>>

\* loadFile: a value, an error, or nothing there.
LoadFile ==
    /\ loader.pc = "file"
    /\ \/ file # None /\ loader' = [loader EXCEPT !.pc = "idle", !.answer = file]
       \/ file # None /\ loader' = [loader EXCEPT !.pc = "idle", !.answer = "error"]
       \/ file = None /\ loader' = [loader EXCEPT !.pc = "keyring"]
    /\ UNCHANGED <<file, keyring, up, op, last, windows>>

\* keyring.Load: any failure counts as nothing there.
LoadKeyring ==
    /\ loader.pc = "keyring"
    /\ loader' = [loader EXCEPT !.pc = "idle",
                    !.answer = IF up /\ keyring # None THEN keyring ELSE "notFound"]
    /\ UNCHANGED <<file, keyring, up, op, last, windows>>

-----------------------------------------------------------------------------
(* The environment.                                                        *)

\* The command is killed; backends stay as they are.
Crash ==
    /\ op.pc # "idle"
    /\ op' = IdleOp
    /\ UNCHANGED <<file, keyring, up, last, loader, windows>>

KeyringGoes ==
    /\ up
    /\ up' = FALSE
    /\ Unsteady
    /\ UNCHANGED <<file, keyring, op, last, windows>>

KeyringComes ==
    /\ ~up
    /\ up' = TRUE
    /\ UNCHANGED <<file, keyring, op, last, loader, windows>>

CredInit ==
    /\ file = None /\ keyring = None /\ up \in BOOLEAN
    /\ op = IdleOp /\ last = NoLast /\ loader = IdleLoader
    /\ windows \in BOOLEAN

CredNext ==
    \/ \E v \in Values, enabled \in BOOLEAN : BeginSave(v, enabled)
    \/ SaveKeyring
    \/ RemoveOldFile
    \/ SaveFile
    \/ RenameAgain
    \/ \E enabled \in BOOLEAN : BeginRemove(enabled)
    \/ RemoveKeyring
    \/ RemoveFile
    \/ BeginLoad
    \/ LoadFile
    \/ LoadKeyring
    \/ Crash
    \/ KeyringGoes
    \/ KeyringComes

CredSpec == CredInit /\ [][CredNext]_credVars

-----------------------------------------------------------------------------
(* Properties.                                                             *)

\* What Load prefers.
Effective == IF file # None THEN file ELSE keyring

\* A set-key that reported success is what a later Load finds first, whichever
\* backend took it and whatever an earlier command left in the other (Store.Save).
SaveTakesEffect ==
    op.pc = "idle" /\ last.kind = "save" /\ last.ok => Effective = last.value

\* A command that is not remove-key never leaves a configured gateway without a
\* credential, even if it is killed half-way: Save fills the keyring before it
\* removes the file, and replaces the file in one rename.  The exception is the window
\* between removal and second rename on Windows (store.go:229): a kill there, or a
\* second rename that fails, loses old and new credential.
SaveKeepsOne ==
    [][Configured /\ op.kind # "remove" =>
          (Configured)' \/ (windows /\ op'.pc = "rename")]_credVars

\* A Load that overlaps any number of set-key commands, with the keyring up, does
\* not miss a credential that was there all the time, though never in both backends
\* (Store.Load reads the file first).
LoadFinds == loader.answer = "notFound" => ~loader.steady

\* "Remove deletes the configured credential from every enabled backend"
\* (store.go:114): a remove-key that reported success leaves no credential behind.
RemoveClears ==
    op.pc = "idle" /\ last.kind = "remove" /\ last.ok /\ last.enabled => ~Configured
================================================================================
