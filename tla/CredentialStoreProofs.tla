------------------------- MODULE CredentialStoreProofs -------------------------
(***************************************************************************)
(* Proofs about CredentialStore, for every set of credential values.       *)
(*                                                                         *)
(* SaveTakesEffect and LoadFinds speak of commands that have ended.  What  *)
(* carries them there is what holds half-way: a save that has reached the  *)
(* old file has filled the keyring, and a Load that has passed the file    *)
(* leaves a credential in the keyring.                                     *)
(***************************************************************************)
EXTENDS CredentialStore, TLAPS

\* A running command carries what it was started with, and its predecessor's result
\* is forgotten.
OpShape ==
    /\ op.pc # "idle" => last = NoLast /\ op.kind # "none"
    /\ op.pc = "idle" => op.kind = "none"
    /\ op.kind = "save" => op.value \in Values
    /\ op.pc = "oldFile" => op.kind = "save"

\* Save removes the file only after the keyring took the value.
KeyringFilled == op.pc = "oldFile" => keyring = op.value

\* What a Load that is still promised a credential can count on.
LoadPromise ==
    loader.steady /\ loader.pc # "idle" =>
       /\ op.kind # "remove" /\ up /\ Configured
       /\ loader.pc = "keyring" => keyring # None

CredInv ==
    /\ CredTypeOK /\ OpShape /\ KeyringFilled /\ LoadPromise
    /\ SaveTakesEffect /\ LoadFinds

\* How a command ends has its type.
LEMMA FinishType ==
    ASSUME op \in Op, NEW ok \in BOOLEAN, Finish(ok)
    PROVE  op' \in Op /\ last' \in Last
<1>1. op.kind \in {"none", "save", "remove"} /\ op.value \in Slot /\ op.enabled \in BOOLEAN
  BY DEF Op
<1>2. last' \in Last
  BY <1>1 DEF Finish, Last
<1>3. op' \in Op
  BY DEF Finish, IdleOp, Op, Slot
<1>. QED
  BY <1>2, <1>3

\* How a Load ends has its type, and its promise is what it was.
LEMMA AnswerType ==
    ASSUME loader \in Loader, NEW answer \in Values \cup {"notFound", "error"},
           loader' = [loader EXCEPT !.pc = "idle", !.answer = answer]
    PROVE  /\ loader' \in Loader
           /\ loader'.pc = "idle" /\ loader'.answer = answer /\ loader'.steady = loader.steady
BY DEF Loader

\* A machine without credential satisfies the invariant.
LEMMA InitCredInv == CredInit => CredInv
BY ValuesAssumption
DEF CredInit, CredInv, CredTypeOK, Slot, Op, Last, Loader, IdleOp, NoLast, IdleLoader,
    OpShape, KeyringFilled, LoadPromise, SaveTakesEffect, LoadFinds

\* A set-key that ends after a rename, whatever it reports, keeps the invariant.
LEMMA SaveEnds ==
    ASSUME CredInv, op.kind = "save", NEW ok \in BOOLEAN, Finish(ok),
           file' \in {file, op.value}, ok => file' = op.value,
           UNCHANGED <<keyring, up, loader, windows>>
    PROVE  CredInv'
<1>. USE ValuesAssumption DEF CredInv, CredTypeOK
<1>1. op' \in Op /\ last' \in Last
  BY FinishType
<1>2. op.value \in Values /\ op.value # None
  BY DEF OpShape
<1>3. /\ op'.pc = "idle" /\ op'.kind = "none"
      /\ last'.kind = "save" /\ last'.value = op.value /\ last'.ok = ok
  BY DEF Finish, IdleOp
<1>4. CredTypeOK'
  BY <1>1, <1>2 DEF Slot
<1>5. OpShape' /\ KeyringFilled'
  BY <1>3 DEF OpShape, KeyringFilled
<1>6. LoadPromise'
  BY <1>2, <1>3 DEF LoadPromise, Configured
<1>7. SaveTakesEffect'
  BY <1>2, <1>3 DEF SaveTakesEffect, Effective
<1>8. LoadFinds'
  BY DEF LoadFinds
<1>. QED
  BY <1>4, <1>5, <1>6, <1>7, <1>8

\* The steps of set-key keep the invariant (Store.Save).
LEMMA SaveCredInv ==
    ASSUME CredInv,
           \/ \E v \in Values, enabled \in BOOLEAN : BeginSave(v, enabled)
           \/ SaveKeyring \/ RemoveOldFile \/ SaveFile \/ RenameAgain
    PROVE  CredInv'
<1>. USE ValuesAssumption
     DEF CredInv, CredTypeOK, Slot, Op, Last, Loader, IdleOp, NoLast, OpShape, KeyringFilled,
         LoadPromise, Configured, SaveTakesEffect, Effective, LoadFinds, Goto, Finish, Unsteady
<1>1. ASSUME NEW v \in Values, NEW enabled \in BOOLEAN, BeginSave(v, enabled)
      PROVE  CredInv'
  <2>1. /\ op' \in Op /\ op'.pc = "keyring" /\ op'.kind = "save" /\ op'.value = v
        /\ last' = NoLast /\ NoLast \in Last /\ NoLast.kind = "none"
    BY <1>1 DEF BeginSave, IdleOp
  <2>2. UNCHANGED <<file, keyring, up, loader, windows>> /\ op.kind # "remove"
    BY <1>1 DEF BeginSave
  <2>3. CredTypeOK'
    BY <2>1, <2>2
  <2>4. OpShape' /\ KeyringFilled'
    BY <2>1
  <2>5. LoadPromise' /\ SaveTakesEffect' /\ LoadFinds'
    BY <2>1, <2>2
  <2>. QED
    BY <2>3, <2>4, <2>5
<1>2. CASE SaveKeyring
  BY <1>2 DEF SaveKeyring
<1>3. CASE RemoveOldFile
  <2>1. CredTypeOK'
    <3>1. op' \in Op /\ last' \in Last
      BY <1>3, FinishType DEF RemoveOldFile
    <3>. QED
      BY <1>3, <3>1 DEF RemoveOldFile
  <2>2. OpShape' /\ KeyringFilled'
    BY <1>3 DEF RemoveOldFile
  <2>3. LoadPromise'
    BY <1>3 DEF RemoveOldFile
  <2>4. SaveTakesEffect'
    BY <1>3 DEF RemoveOldFile
  <2>5. LoadFinds'
    BY <1>3 DEF RemoveOldFile
  <2>. QED
    BY <2>1, <2>2, <2>3, <2>4, <2>5
<1>4. CASE SaveFile
  <2>1. PICK ok \in BOOLEAN :
          \/ Finish(ok) /\ UNCHANGED loader /\ file' \in {file, op.value} /\ (ok => file' = op.value)
          \/ windows /\ file' = None /\ Goto("rename") /\ Unsteady
    BY <1>4 DEF SaveFile
  <2>2. /\ op.kind = "save" /\ op.pc = "file" /\ op.value \in Values
        /\ UNCHANGED <<keyring, up, windows>>
    BY <1>4 DEF SaveFile
  <2>3. CASE Finish(ok) /\ UNCHANGED loader /\ file' \in {file, op.value} /\ (ok => file' = op.value)
    BY <2>2, <2>3, SaveEnds
  <2>4. CASE windows /\ file' = None /\ Goto("rename") /\ Unsteady
    <3>1. /\ op' \in Op /\ op'.pc = "rename" /\ op'.kind = "save" /\ op'.value = op.value
          /\ UNCHANGED last
      BY <2>2, <2>4
    <3>2. /\ loader' \in Loader /\ loader'.steady = FALSE
      BY <2>4
    <3>3. CredTypeOK' /\ OpShape' /\ KeyringFilled'
      BY <2>2, <2>4, <3>1, <3>2
    <3>. QED
      BY <3>1, <3>2, <3>3
  <2>. QED
    BY <2>1, <2>3, <2>4
<1>5. CASE RenameAgain
  <2>1. PICK ok \in BOOLEAN :
          Finish(ok) /\ file' \in {file, op.value} /\ (ok => file' = op.value)
    BY <1>5 DEF RenameAgain
  <2>2. /\ op.kind = "save" /\ op.value \in Values
        /\ UNCHANGED <<keyring, up, loader, windows>>
    BY <1>5 DEF RenameAgain
  <2>. QED
    BY <2>1, <2>2, SaveEnds
<1>. QED
  BY <1>1, <1>2, <1>3, <1>4, <1>5

\* The steps of remove-key keep the invariant (Store.Remove).
LEMMA RemoveCredInv ==
    ASSUME CredInv,
           \/ \E enabled \in BOOLEAN : BeginRemove(enabled)
           \/ RemoveKeyring \/ RemoveFile
    PROVE  CredInv'
<1>. USE ValuesAssumption
     DEF CredInv, CredTypeOK, Slot, Op, Last, Loader, IdleOp, NoLast, OpShape, KeyringFilled,
         LoadPromise, Configured, SaveTakesEffect, Effective, LoadFinds, Goto, Finish, Unsteady
<1>1. ASSUME NEW enabled \in BOOLEAN, BeginRemove(enabled)
      PROVE  CredInv'
  BY <1>1 DEF BeginRemove
<1>2. CASE RemoveKeyring
  BY <1>2, ZenonT(60) DEF RemoveKeyring
<1>3. CASE RemoveFile
  <2>1. CredTypeOK'
    <3>1. op' \in Op /\ last' \in Last
      BY <1>3, FinishType DEF RemoveFile
    <3>. QED
      BY <1>3, <3>1 DEF RemoveFile
  <2>2. OpShape' /\ KeyringFilled'
    BY <1>3 DEF RemoveFile
  <2>3. LoadPromise'
    BY <1>3 DEF RemoveFile
  <2>4. SaveTakesEffect'
    BY <1>3 DEF RemoveFile
  <2>5. LoadFinds'
    BY <1>3 DEF RemoveFile
  <2>. QED
    BY <2>1, <2>2, <2>3, <2>4, <2>5
<1>. QED
  BY <1>1, <1>2, <1>3

\* The steps of a Load keep the invariant (Store.Load).
LEMMA LoadCredInv ==
    ASSUME CredInv, BeginLoad \/ LoadFile \/ LoadKeyring
    PROVE  CredInv'
<1>. USE ValuesAssumption
     DEF CredInv, CredTypeOK, Slot, Op, Last, Loader, OpShape, KeyringFilled, LoadPromise,
         Configured, SaveTakesEffect, Effective, LoadFinds
<1>1. CASE BeginLoad
  <2>1. CredTypeOK'
    BY <1>1 DEF BeginLoad
  <2>2. OpShape' /\ KeyringFilled'
    BY <1>1 DEF BeginLoad
  <2>3. LoadPromise'
    BY <1>1 DEF BeginLoad
  <2>4. SaveTakesEffect'
    BY <1>1 DEF BeginLoad
  <2>5. LoadFinds'
    BY <1>1 DEF BeginLoad
  <2>. QED
    BY <2>1, <2>2, <2>3, <2>4, <2>5
<1>2. CASE LoadFile
  <2>1. CASE file # None
    <3>1. PICK answer \in {file, "error"} : loader' = [loader EXCEPT !.pc = "idle", !.answer = answer]
      BY <1>2, <2>1 DEF LoadFile
    <3>2. answer \in Values \cup {"notFound", "error"} /\ answer # "notFound"
      BY <2>1
    <3>3. loader' \in Loader /\ loader'.pc = "idle" /\ loader'.answer = answer
      BY <3>1, <3>2, AnswerType
    <3>. QED
      BY <1>2, <3>2, <3>3 DEF LoadFile
  <2>2. CASE file = None
    BY <1>2, <2>2 DEF LoadFile
  <2>. QED
    BY <2>1, <2>2
<1>3. CASE LoadKeyring
  <2>. DEFINE answer == IF up /\ keyring # None THEN keyring ELSE "notFound"
  <2>1. answer \in Values \cup {"notFound", "error"}
    OBVIOUS
  <2>2. loader' = [loader EXCEPT !.pc = "idle", !.answer = answer] /\ loader.pc = "keyring"
    BY <1>3 DEF LoadKeyring
  <2>3. answer = "notFound" => ~loader.steady
    BY <2>2
  <2>. HIDE DEF answer
  <2>4. /\ loader' \in Loader /\ loader'.pc = "idle"
        /\ loader'.answer = answer /\ loader'.steady = loader.steady
    BY <2>1, <2>2, AnswerType
  <2>. QED
    BY <1>3, <2>3, <2>4 DEF LoadKeyring
<1>. QED
  BY <1>1, <1>2, <1>3

\* A killed command and a keyring that comes and goes keep the invariant.
LEMMA EnvCredInv ==
    ASSUME CredInv, Crash \/ KeyringGoes \/ KeyringComes
    PROVE  CredInv'
<1>. USE ValuesAssumption
     DEF CredInv, CredTypeOK, Slot, Op, Last, Loader, IdleOp, NoLast, OpShape, KeyringFilled,
         LoadPromise, Configured, SaveTakesEffect, Effective, LoadFinds, Unsteady
<1>1. CASE Crash
  <2>1. CredTypeOK'
    BY <1>1 DEF Crash
  <2>2. OpShape' /\ KeyringFilled'
    BY <1>1 DEF Crash
  <2>3. LoadPromise'
    BY <1>1 DEF Crash
  <2>4. SaveTakesEffect'
    BY <1>1 DEF Crash
  <2>5. LoadFinds'
    BY <1>1 DEF Crash
  <2>. QED
    BY <2>1, <2>2, <2>3, <2>4, <2>5
<1>2. CASE KeyringGoes
  <2>1. /\ loader' \in Loader /\ loader'.pc = loader.pc
        /\ loader'.answer = loader.answer /\ loader'.steady = FALSE
    BY <1>2 DEF KeyringGoes
  <2>2. UNCHANGED <<file, keyring, op, last, windows>> /\ up' \in BOOLEAN
    BY <1>2 DEF KeyringGoes
  <2>3. CredTypeOK'
    BY <2>1, <2>2
  <2>4. OpShape' /\ KeyringFilled' /\ SaveTakesEffect'
    BY <2>2
  <2>5. LoadPromise' /\ LoadFinds'
    BY <2>1
  <2>. QED
    BY <2>3, <2>4, <2>5
<1>3. CASE KeyringComes
  BY <1>3 DEF KeyringComes
<1>. QED
  BY <1>1, <1>2, <1>3

\* Every step of a command, a Load or the environment keeps the invariant.
LEMMA NextCredInv == CredInv /\ [CredNext]_credVars => CredInv'
<1>. SUFFICES ASSUME CredInv, [CredNext]_credVars
              PROVE  CredInv'
  OBVIOUS
<1>1. CASE UNCHANGED credVars
  BY <1>1 DEF credVars, CredInv, CredTypeOK, OpShape, KeyringFilled, LoadPromise, Configured,
              SaveTakesEffect, Effective, LoadFinds
<1>2. CASE CredNext
  BY <1>2, SaveCredInv, RemoveCredInv, LoadCredInv, EnvCredInv DEF CredNext
<1>. QED
  BY <1>1, <1>2

\* The inductive invariant holds in every reachable state.
THEOREM CredInvAlways == CredSpec => []CredInv
BY InitCredInv, NextCredInv, PTL DEF CredSpec

\* A set-key that reported success decides what the next Load finds, whatever
\* earlier commands, failed or killed, left in the other backend (Store.Save).
THEOREM SaveEffective == CredSpec => []SaveTakesEffect
<1>1. CredInv => SaveTakesEffect
  BY DEF CredInv
<1>. QED
  BY <1>1, CredInvAlways, PTL

\* A Load beside any number of set-key commands does not miss a credential that was
\* there throughout (Store.Load reads the file first, Store.Save fills the keyring first).
THEOREM LoadComplete == CredSpec => []LoadFinds
<1>1. CredInv => LoadFinds
  BY DEF CredInv
<1>. QED
  BY <1>1, CredInvAlways, PTL

\* No step outside remove-key takes the last credential away, a kill included, but for
\* the one that makes room for the second rename on Windows.
THEOREM SaveSafe == CredSpec => SaveKeepsOne
<1>1. CredInv /\ [CredNext]_credVars =>
         [Configured /\ op.kind # "remove" =>
             (Configured)' \/ (windows /\ op'.pc = "rename")]_credVars
  <2>. SUFFICES ASSUME CredInv, CredNext, Configured, op.kind # "remove"
                PROVE  (Configured)' \/ (windows /\ op'.pc = "rename")
    OBVIOUS
  <2>1. CASE SaveFile
    <3>1. op \in Op /\ op.value # None
      BY <2>1, ValuesAssumption DEF CredInv, CredTypeOK, OpShape, SaveFile
    <3>. QED
      BY <2>1, <3>1 DEF SaveFile, Goto, Op, Configured
  <2>2. CASE ~SaveFile
    BY <2>2, ValuesAssumption
    DEF CredInv, CredTypeOK, Slot, Op, OpShape, KeyringFilled, Configured, CredNext,
        BeginSave, SaveKeyring, RemoveOldFile, RenameAgain, BeginRemove, RemoveKeyring,
        RemoveFile, BeginLoad, LoadFile, LoadKeyring, Crash, KeyringGoes, KeyringComes
  <2>. QED
    BY <2>1, <2>2
<1>. QED
  BY <1>1, CredInvAlways, PTL DEF CredSpec, SaveKeepsOne
================================================================================
