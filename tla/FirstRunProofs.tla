--------------------------- MODULE FirstRunProofs ---------------------------
(***************************************************************************)
(* FirstRun for any number of processes: one inductive invariant carries   *)
(* the four properties its run checks.                                     *)
(***************************************************************************)
EXTENDS FirstRun, TLAPS

Creating == {"tables", "insert"}

(* Only the process that created the file may insert a user, and it finds  *)
(* none: before the file there is neither a user nor such a process.       *)
OneCreator ==
  /\ \A p, q \in Procs : pc[p] \in Creating /\ pc[q] \in Creating => p = q
  /\ \A p \in Procs : pc[p] \in Creating => users = {}
  /\ file = "absent" => users = {} /\ \A p \in Procs : pc[p] \notin Creating

OneUser ==
  /\ \A u, v \in users : u = v
  /\ \A p \in Procs : pc[p] = "ready" => id[p] \in users

(* The directory is tightened first, then the file is created or tightened. *)
Tightened ==
  \A p \in Procs :
    /\ pc[p] \in Opened => file = "private"
    /\ pc[p] \in Opened \cup {"exists", "create", "chmod"} => dir = "private"

(* A process past validation has a valid configuration. *)
Validated ==
  /\ \A p \in Procs : pc[p] \notin {"start", "failed"} => p \notin BadConfig
  /\ users \cap BadConfig = {}

IInv == TypeOK /\ OneCreator /\ OneUser /\ Tightened /\ Validated

-----------------------------------------------------------------------------
LEMMA InitIInv == Init => IInv
<1> SUFFICES ASSUME Init PROVE IInv
  OBVIOUS
<1> USE FirstRunAssumption DEF Init, Modes, PCs, Opened, Creating
<1>1. TypeOK
  BY DEF TypeOK
<1>2. OneCreator
  BY DEF OneCreator
<1>3. OneUser
  BY DEF OneUser
<1>4. Tightened
  BY DEF Tightened
<1>5. Validated
  BY DEF Validated
<1> QED
  BY <1>1, <1>2, <1>3, <1>4, <1>5 DEF IInv

(* A step that leaves the disk alone and moves one process to a place that *)
(* asks for nothing new keeps the invariant.                               *)
LEMMA StepIInv == IInv /\ [Next]_vars => IInv'
<1> SUFFICES ASSUME IInv, [Next]_vars PROVE IInv'
  OBVIOUS
<1> USE FirstRunAssumption
    DEF IInv, TypeOK, OneCreator, OneUser, Tightened, Validated, Modes, PCs,
        Opened, Creating, Goto, disk
<1>1. ASSUME NEW p \in Procs, Validate(p) PROVE IInv'
  BY <1>1 DEF Validate
<1>2. ASSUME NEW p \in Procs, MakeDir(p) PROVE IInv'
  BY <1>2 DEF MakeDir
<1>3. ASSUME NEW p \in Procs, ChmodDir(p) PROVE IInv'
  BY <1>3 DEF ChmodDir
<1>4. ASSUME NEW p \in Procs, CheckFile(p) PROVE IInv'
  BY <1>4 DEF CheckFile
<1>5. ASSUME NEW p \in Procs, CreateFile(p) PROVE IInv'
  <2>1. CASE file = "absent"
    BY <1>5, <2>1 DEF CreateFile
  <2>2. CASE file # "absent"
    BY <1>5, <2>2 DEF CreateFile
  <2> QED
    BY <2>1, <2>2
<1>6. ASSUME NEW p \in Procs, CreateTables(p) PROVE IInv'
  BY <1>6 DEF CreateTables
<1>7. ASSUME NEW p \in Procs, InsertUser(p) PROVE IInv'
  BY <1>7 DEF InsertUser
<1>8. ASSUME NEW p \in Procs, ChmodFile(p) PROVE IInv'
  BY <1>8 DEF ChmodFile
<1>9. ASSUME NEW p \in Procs, Migrate(p) PROVE IInv'
  BY <1>9 DEF Migrate
<1>10. ASSUME NEW p \in Procs, LoadUser(p) PROVE IInv'
  BY <1>10 DEF LoadUser
<1>11. ASSUME NEW p \in Procs, Fail(p) PROVE IInv'
  BY <1>11 DEF Fail
<1>12. ASSUME NEW p \in Procs, Exit(p) PROVE IInv'
  BY <1>12 DEF Exit
<1>13. CASE UNCHANGED vars
  BY <1>13 DEF vars
<1> QED
  BY <1>1, <1>2, <1>3, <1>4, <1>5, <1>6, <1>7, <1>8, <1>9, <1>10, <1>11, <1>12,
     <1>13 DEF Next, Step

LEMMA Invariance == Spec => []IInv
  BY InitIInv, StepIInv, PTL DEF Spec

(* The state variables keep their types, and a command is ready exactly    *)
(* when it has loaded an identity.                                         *)
THEOREM TypeCorrect == Spec => []TypeOK
  BY Invariance, PTL DEF IInv

(* However many commands are started at once on a fresh machine, those     *)
(* that come as far as having keys have the keys of one and the same       *)
(* stored mnemonic.                                                        *)
THEOREM ContextsAgreeAlways == Spec => []ContextsAgree
<1>1. IInv => ContextsAgree
  BY DEF IInv, OneUser, ContextsAgree
<1> QED
  BY <1>1, Invariance, PTL

(* sqlite never works on a file, or in a directory, others may read. *)
THEOREM OpenedPrivateAlways == Spec => []OpenedPrivate
<1>1. IInv => OpenedPrivate
  BY DEF IInv, Tightened, OpenedPrivate
<1> QED
  BY <1>1, Invariance, PTL

(* A command with an invalid configuration stores no mnemonic. *)
THEOREM NoSecretFromBadConfigAlways == Spec => []NoSecretFromBadConfig
<1>1. IInv => NoSecretFromBadConfig
  BY DEF IInv, Validated, NoSecretFromBadConfig
<1> QED
  BY <1>1, Invariance, PTL

(* A stored identity stays what it is. *)
THEOREM IdentityIsStableAlways == Spec => IdentityIsStable
<1>1. IInv /\ [Next]_vars => [users # {} => users' = users]_users
  <2> SUFFICES ASSUME IInv, [Next]_vars, users # {} PROVE users' = users
    OBVIOUS
  <2>1. ASSUME NEW p \in Procs, InsertUser(p) PROVE FALSE
    BY <2>1 DEF InsertUser, IInv, OneCreator, Creating
  <2> QED
    BY <2>1 DEF Next, Step, vars, disk, Validate, MakeDir, ChmodDir, CheckFile,
       CreateFile, CreateTables, ChmodFile, Migrate, LoadUser, Fail, Exit
<1> QED
  BY <1>1, Invariance, PTL DEF Spec, IdentityIsStable

=============================================================================
