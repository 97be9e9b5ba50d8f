------------------------------ MODULE FirstRun ------------------------------
(***************************************************************************)
(* How a command comes by its identity.  Every command validates its       *)
(* configuration, makes ~/.mcli private, and then either creates mcli.db   *)
(* (file, tables, mnemonic: three steps, each of which may be the last one *)
(* the process takes) or tightens and migrates the file it finds, before   *)
(* it loads the mnemonic.  Several commands may be started at once.        *)
(*                                                                         *)
(* A mnemonic is identified with the process that generated it.            *)
(***************************************************************************)
CONSTANTS
  Procs,      \* command processes; a process runs any number of commands
  BadConfig,  \* those whose configuration or ADMIN_NSEC is not valid
  Legacy,     \* mnemonic of a database left by an older version
  NoUser      \* no identity loaded

ASSUME FirstRunAssumption ==
  /\ BadConfig \subseteq Procs
  /\ Legacy \notin Procs
  /\ NoUser \notin Procs \cup {Legacy}

VARIABLES
  dir,     \* ~/.mcli: does not exist, readable by others, or mode 0700
  file,    \* mcli.db: does not exist, readable by others, or mode 0600
  tables,  \* do the tables exist?
  tokens,  \* legacy columns of the orders table
  users,   \* mnemonics in the users table
  pc,
  id       \* mnemonic each running command works with

vars == <<dir, file, tables, tokens, users, pc, id>>
disk == <<dir, file, tables, tokens, users>>

Modes == {"absent", "lax", "private"}
PCs == {"start", "mkdir", "chmodDir", "exists", "create", "tables", "insert",
        "chmod", "migrate", "load", "ready", "failed"}
(* The database is open: sqlite reads or writes the mnemonic. *)
Opened == {"tables", "insert", "migrate", "load", "ready"}

(* Types; a command is ready exactly when it holds an identity. *)
TypeOK ==
  /\ dir \in Modes
  /\ file \in Modes
  /\ tables \in BOOLEAN
  /\ tokens \subseteq {"buyer_token", "seller_token"}
  /\ users \subseteq Procs \cup {Legacy}
  /\ pc \in [Procs -> PCs]
  /\ id \in [Procs -> Procs \cup {Legacy, NoUser}]
  /\ \A p \in Procs : pc[p] = "ready" <=> id[p] # NoUser

Init ==
  /\ pc = [p \in Procs |-> "start"]
  /\ id = [p \in Procs |-> NoUser]
  /\ \/ /\ dir \in {"absent", "lax"}
        /\ file = "absent" /\ tables = FALSE /\ tokens = {} /\ users = {}
     \/ /\ dir = "lax" /\ file = "lax" /\ tables = TRUE /\ users = {Legacy}
        /\ tokens \in {{}, {"buyer_token", "seller_token"}}

Goto(p, l) == pc' = [pc EXCEPT ![p] = l]

(* Any call into the file system or sqlite may fail and ends the command. *)
Fail(p) ==
  /\ pc[p] \notin {"start", "exists", "ready", "failed"}
  /\ Goto(p, "failed")
  /\ UNCHANGED <<disk, id>>

(* Mutant: the configuration is only looked at once the database is open. *)
MutValidateLate(p) ==
  /\ pc[p] = "start"
  /\ Goto(p, "mkdir")
  /\ UNCHANGED <<disk, id>>

(* init_context: pubkey, relays and ADMIN_NSEC come before the database. *)
Validate(p) ==
  /\ pc[p] = "start"
  /\ Goto(p, IF p \in BadConfig THEN "failed" ELSE "mkdir")
  /\ UNCHANGED <<disk, id>>

MakeDir(p) ==
  /\ pc[p] = "mkdir"
  /\ dir' = IF dir = "absent" THEN "private" ELSE dir
  /\ Goto(p, "chmodDir")
  /\ UNCHANGED <<file, tables, tokens, users, id>>

ChmodDir(p) ==
  /\ pc[p] = "chmodDir"
  /\ dir' = "private"
  /\ Goto(p, "exists")
  /\ UNCHANGED <<file, tables, tokens, users, id>>

(* The check and the creation are two steps. *)
CheckFile(p) ==
  /\ pc[p] = "exists"
  /\ Goto(p, IF file = "absent" THEN "create" ELSE "chmod")
  /\ UNCHANGED <<disk, id>>

(* Mutant: create(true).truncate(true) in place of create_new(true). *)
MutCreateTruncates(p) ==
  /\ pc[p] = "create"
  /\ file' = "private" /\ tables' = FALSE /\ users' = {} /\ tokens' = {}
  /\ Goto(p, "tables")
  /\ UNCHANGED <<dir, id>>

(* create_new fails on a file that appeared since the check. *)
CreateFile(p) ==
  /\ pc[p] = "create"
  /\ IF file = "absent"
     THEN file' = "private" /\ Goto(p, "tables")
     ELSE Goto(p, "failed") /\ UNCHANGED file
  /\ UNCHANGED <<dir, tables, tokens, users, id>>

CreateTables(p) ==
  /\ pc[p] = "tables"
  /\ tables' = TRUE
  /\ Goto(p, "insert")
  /\ UNCHANGED <<dir, file, tokens, users, id>>

InsertUser(p) ==
  /\ pc[p] = "insert"
  /\ users' = users \cup {p}
  /\ Goto(p, "load")
  /\ UNCHANGED <<dir, file, tables, tokens, id>>

(* Mutant: a failing chmod is ignored. *)
MutChmodFailsOpen(p) ==
  /\ pc[p] = "chmod"
  /\ file' \in {file, "private"}
  /\ Goto(p, "migrate")
  /\ UNCHANGED <<dir, tables, tokens, users, id>>

ChmodFile(p) ==
  /\ pc[p] = "chmod"
  /\ file' = "private"
  /\ Goto(p, "migrate")
  /\ UNCHANGED <<dir, tables, tokens, users, id>>

(* A column that cannot be dropped only causes a warning. *)
Migrate(p) ==
  /\ pc[p] = "migrate"
  /\ tokens' \in SUBSET tokens
  /\ Goto(p, "load")
  /\ UNCHANGED <<dir, file, tables, users, id>>

(* Mutant: a missing user is not an error. *)
MutLoadOptional(p) ==
  /\ pc[p] = "load"
  /\ \/ \E u \in users : id' = [id EXCEPT ![p] = u]
     \/ users = {} /\ UNCHANGED id
  /\ Goto(p, "ready")
  /\ UNCHANGED disk

(* User::get: SELECT ... LIMIT 1, an error if there is no table or no row. *)
LoadUser(p) ==
  /\ pc[p] = "load"
  /\ \/ /\ tables
        /\ \E u \in users : id' = [id EXCEPT ![p] = u]
        /\ Goto(p, "ready")
     \/ /\ ~tables \/ users = {}
        /\ Goto(p, "failed")
        /\ UNCHANGED id
  /\ UNCHANGED disk

(* The command ends or is killed; the process may run another one. *)
Exit(p) ==
  /\ pc[p] # "start"
  /\ Goto(p, "start")
  /\ id' = [id EXCEPT ![p] = NoUser]
  /\ UNCHANGED disk

Step(p) ==
  \/ Validate(p) \/ MakeDir(p) \/ ChmodDir(p) \/ CheckFile(p)
  \/ CreateFile(p) \/ CreateTables(p) \/ InsertUser(p)
  \/ ChmodFile(p) \/ Migrate(p) \/ LoadUser(p)
  \/ Fail(p) \/ Exit(p)

Next == \E p \in Procs : Step(p)

Spec == Init /\ [][Next]_vars

-----------------------------------------------------------------------------
(* All running commands work with the same mnemonic, and it is the stored  *)
(* one: no command holds keys that the next command could not derive.      *)
ContextsAgree ==
  \A p, q \in Procs : pc[p] = "ready" =>
    /\ id[p] \in users
    /\ pc[q] = "ready" => id[p] = id[q]

(* "must not be readable by other local users" (db.rs:19): the database is *)
(* private, and so is its directory, whenever a command has it open.       *)
OpenedPrivate ==
  \A p \in Procs : pc[p] \in Opened => file = "private" /\ dir = "private"

(* "a mistaken command with missing config must fail here, without ever    *)
(* writing that sensitive material to disk" (cli.rs:465).                  *)
NoSecretFromBadConfig == users \cap BadConfig = {}

(* The identity, once stored, is never replaced or joined by another one.  *)
IdentityIsStable == [][users # {} => users' = users]_users

(* "Your first command creates your user - no separate init step needed"   *)
(* (README.md:112): a database without a user is only ever one that some   *)
(* command is still creating.                                              *)
FirstCommandCreatesUser ==
  file # "absent" /\ users = {} =>
    \E p \in Procs : pc[p] \in {"tables", "insert"}

=============================================================================
