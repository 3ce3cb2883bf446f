------------------------------- MODULE Storage -------------------------------
(* The sqlite layer (SQLDatabase, SQLQuery, SQLTransactionScope,              *)
(* DriverManager) and the table of folders kept with it (FoldersStorage).     *)
(*                                                                            *)
(* A call of FoldersStorage runs transactions one after the other.  Another   *)
(* connection may hold the file when one begins; any statement may fail; the  *)
(* process may be killed between two steps.  An exception that leaves a       *)
(* transaction's end, or the slot that made the call, ends the process.       *)
EXTENDS Integers, Sequences, FiniteSets

CONSTANTS Names,       \* names of folders
          All,         \* "All"
          Special,     \* "Mobile"
          MaxId,       \* bound: ids of rows
          Memory,      \* bound: what the two ids may hold before they are set
          MaxRemoved,  \* bound: bookmarks deleted with a folder
          RetryCount   \* SQL_RETRY_COUNT

StorageAssumption ==
    /\ {All, Special} \subseteq Names /\ All # Special
    /\ MaxId \in Nat /\ MaxRemoved \in Nat
    /\ Memory \subseteq 0 .. MaxId
    /\ RetryCount \in Nat \ {0}

VARIABLES disk,      \* the rows that are committed
          work,      \* the rows inside the transaction
          conn,      \* the connection DriverManager keeps
          scope,     \* the transaction: where it is, how often it was tried
          job,       \* the transactions the call on its way still makes
          folders,   \* AllFolder, SpecialFolder, m_dbFoldersInitialised
          table,     \* the table exists
          process,   \* "starting", "running" or "dead"
          held       \* another connection holds the file

vars == <<disk, work, conn, scope, job, folders, table, process, held>>

Ids == 1 .. MaxId
Rows == UNION {[D -> Names] : D \in SUBSET Ids}   \* the name of each folder
NoRows == [i \in {} |-> 0]

Statements == {"exists", "getId", "add", "number", "set", "rename", "delete",
               "deleteOthers", "zero", "count"}

(* for says what is done with the answer.  The numbers kept with a folder are *)
(* left out, and the statements that write them change nothing.               *)
Transaction(do, id, name, for) == [do |-> do, id |-> id, name |-> name, for |-> for]
Transactions == [do : Statements, id : 0 .. MaxId, name : Names,
                 for : {"all", "special", "popup", "other"}]

Idle == [at |-> "idle", tries |-> 0, answer |-> 0]

TypeOK ==
    /\ disk \in Rows /\ work \in Rows
    /\ conn \in {"closed", "open", "stuck"}
    /\ scope \in [at : {"idle", "open", "commit", "rollback", "done"},
                  tries : 0 .. RetryCount, answer : 0 .. MaxId \cup {1}]
    /\ job \in Seq(Transactions)
    /\ folders \in [all : 0 .. MaxId, special : 0 .. MaxId, initialised : BOOLEAN]
    /\ table \in BOOLEAN
    /\ process \in {"starting", "running", "dead"}
    /\ held \in BOOLEAN

Exists(name, for) == Transaction("exists", 0, name, for)

(* initDatabaseFolders, once the table is there.                              *)
Initialisation == <<Exists(All, "all"), Exists(Special, "special")>>

Init ==
    /\ disk = NoRows /\ work = NoRows
    /\ conn = "closed"
    /\ scope = Idle
    /\ job = <<>>
    /\ folders = [all |-> 0, special |-> 0, initialised |-> FALSE]
    /\ table = FALSE
    /\ process = "dead"
    /\ held = FALSE

-----------------------------------------------------------------------------
(* What a statement reads and writes; a query without a row reads 0.          *)
Named(rows, name) == {i \in DOMAIN rows : rows[i] = name}
FreeIds(rows) == {i \in Ids : \A j \in DOMAIN rows : j < i}
FirstOf(S) == IF S = {} THEN 0 ELSE CHOOSE i \in S : \A j \in S : i <= j

Answer(t, rows) ==
    CASE t.do = "exists" -> IF Named(rows, t.name) = {} THEN 0 ELSE 1
      [] t.do = "getId"  -> FirstOf(Named(rows, t.name))
      [] t.do = "add"    -> FirstOf(FreeIds(rows))
      [] OTHER           -> 0

Without(rows, S) == [i \in DOMAIN rows \ S |-> rows[i]]

Effect(t, rows) ==
    CASE t.do = "add" ->
           [i \in DOMAIN rows \cup {FirstOf(FreeIds(rows))} |->
              IF i \in DOMAIN rows THEN rows[i] ELSE t.name]
      [] t.do = "rename" ->
           [i \in DOMAIN rows |-> IF i = t.id THEN t.name ELSE rows[i]]
      [] t.do = "delete" -> Without(rows, {t.id})
      [] t.do = "deleteOthers" ->
           Without(rows, DOMAIN rows \ {folders.all, folders.special})
      [] OTHER -> rows

Fits(t, rows) == t.do = "add" => FreeIds(rows) # {}

(* Mutant: a failed ifFolderExists says that there is none.                   *)
DefaultsToZero(t) == 0

(* The functions with the scope inside their try roll back and return a       *)
(* default; the others catch inside the scope, which then commits.            *)
ScopeInTry(t) == t.do \notin {"set", "rename", "delete"}
Default(t) == IF t.do = "exists" THEN 1 ELSE 0

-----------------------------------------------------------------------------
(* What a call does next with an answer.                                      *)
AddNumber(id) ==
    LET one(i) == Transaction("number", i, All, "other")
    IN IF id = folders.all THEN <<one(id)>> ELSE <<one(folders.all), one(id)>>

DeleteFolder(id) ==
    IF id \in {folders.all, folders.special} THEN <<>>
    ELSE <<Transaction("delete", id, All, "other")>>

(* SimpleUI::onDeleteFolderPopupClicked and onRemoveFoldersClicked.           *)
DeleteWithBookmarks(id) ==
    LET removed[n \in 0 .. MaxRemoved] ==
            IF n = 0 THEN DeleteFolder(id) ELSE AddNumber(id) \o removed[n - 1]
    IN {removed[n] : n \in 0 .. MaxRemoved}

After(t, answer) ==
    CASE t.do = "exists" /\ t.for \in {"all", "special"} ->
           {<<Transaction(IF answer = 1 THEN "getId" ELSE "add", 0, t.name, t.for)>>}
      [] t.do = "exists" /\ t.for = "popup" /\ answer = 1 ->
           {<<Transaction("getId", 0, t.name, "popup")>>}
      [] t.do = "getId" /\ t.for = "popup" -> DeleteWithBookmarks(answer)
      [] t.do = "number" -> {<<Transaction("set", t.id, All, "other")>>}
      [] OTHER -> {<<>>}

Kept(t, answer) ==
    IF t.do \in {"getId", "add"} /\ t.for \in {"all", "special"}
    THEN [folders EXCEPT !.all = IF t.for = "all" THEN answer ELSE @,
                         !.special = IF t.for = "special" THEN answer ELSE @]
    ELSE folders

Terminate ==
    /\ process' = "dead"
    /\ conn' = "closed"
    /\ scope' = Idle
    /\ job' = <<>>
    /\ work' = NoRows
    /\ UNCHANGED <<disk, folders, table, held>>

(* The exception reaches the function: caught, or let out to the slot.        *)
Throw ==
    IF ScopeInTry(Head(job))
    THEN /\ scope' = [Idle EXCEPT !.at = "done", !.answer = Default(Head(job))]
         /\ UNCHANGED <<disk, work, conn, job, folders, table, process, held>>
    ELSE Terminate

-----------------------------------------------------------------------------
(* DriverManager::getDatabase keeps a connection that was opened.             *)
Open ==
    /\ job # <<>> /\ conn = "closed" /\ scope.at = "idle"
    /\ conn' = "open"
    /\ UNCHANGED <<disk, work, scope, job, folders, table, process, held>>

OpenFailed ==
    /\ job # <<>> /\ conn = "closed" /\ scope.at = "idle"
    /\ Throw

(* The constructor of the scope: BEGIN EXCLUSIVE, again while the file is     *)
(* held, RetryCount times at most.                                            *)
Begin ==
    /\ job # <<>> /\ scope.at = "idle" /\ conn = "open" /\ ~held
    /\ scope' = [Idle EXCEPT !.at = "open"]
    /\ work' = disk
    /\ UNCHANGED <<disk, conn, job, folders, table, process, held>>

BeginRetried ==
    /\ job # <<>> /\ scope.at = "idle" /\ conn = "open" /\ held
    /\ scope.tries < RetryCount
    /\ scope' = [scope EXCEPT !.tries = @ + 1]
    /\ UNCHANGED <<disk, work, conn, job, folders, table, process, held>>

BeginFailed ==
    /\ job # <<>> /\ scope.at = "idle"
    /\ conn = "stuck" \/ scope.tries = RetryCount
    /\ Throw

(* prepare, bind and exec of the query inside the scope.                      *)
Executed ==
    /\ scope.at = "open"
    /\ table /\ Fits(Head(job), work)
    /\ work' = Effect(Head(job), work)
    /\ scope' = [scope EXCEPT !.at = "commit", !.answer = Answer(Head(job), work)]
    /\ UNCHANGED <<disk, conn, job, folders, table, process, held>>

ExecutionFailed ==
    /\ scope.at = "open" /\ table
    /\ scope' = [scope EXCEPT !.at = IF ScopeInTry(Head(job)) THEN "rollback" ELSE "commit",
                              !.answer = Default(Head(job))]
    /\ UNCHANGED <<disk, work, conn, job, folders, table, process, held>>

(* prepare returns a query without a statement, which bind and exec assert on. *)
PrepareFailed ==
    /\ scope.at = "open"
    /\ Terminate

(* The destructor of the scope.                                               *)
Commit ==
    /\ scope.at = "commit"
    /\ disk' = work
    /\ work' = NoRows
    /\ scope' = [scope EXCEPT !.at = "done"]
    /\ UNCHANGED <<conn, job, folders, table, process, held>>

CommitFailed ==
    /\ scope.at = "commit"
    /\ Terminate

(* sql_rollback's result is not read: a failure leaves the transaction open.  *)
Rollback ==
    /\ scope.at = "rollback"
    /\ conn' \in {"open", "stuck"}
    /\ work' = NoRows
    /\ scope' = [scope EXCEPT !.at = "done"]
    /\ UNCHANGED <<disk, job, folders, table, process, held>>

(* The function returns to its caller, which goes on with the answer.         *)
Return ==
    /\ scope.at = "done"
    /\ \E more \in After(Head(job), scope.answer) : job' = more \o Tail(job)
    /\ LET ends == process = "starting" /\ job' = <<>>
       IN /\ folders' = [Kept(Head(job), scope.answer) EXCEPT !.initialised = ends \/ @]
          /\ process' = IF ends THEN "running" ELSE process
    /\ scope' = Idle
    /\ UNCHANGED <<disk, work, conn, table, held>>

-----------------------------------------------------------------------------
Call(transactions) ==
    /\ process = "running" /\ job = <<>>
    /\ job' = transactions
    /\ UNCHANGED <<disk, work, conn, scope, folders, table, process, held>>

OnDeleteFolderPopupClicked(name) == Call(<<Exists(name, "popup")>>)
AddFolder(name) == Call(<<Transaction("add", 0, name, "other")>>)
UpdateFolderName(id, name) ==
    Call(IF id = folders.all THEN <<>> ELSE <<Transaction("rename", id, name, "other")>>)
RemoveNumberInFolder(id) == Call(AddNumber(id))   \* addNumberInFolder is the same
DeleteAllFolders ==
    Call(<<Transaction("deleteOthers", 0, All, "other"),
           Transaction("zero", 0, All, "other")>>)
GetFolders == Call(<<Transaction("count", 0, All, "other"),
                     Transaction("count", 0, All, "other")>>)

(* A start creates the table when it is not there; the two ids are what the   *)
(* memory held.                                                               *)
Unset == [all : Memory, special : Memory, initialised : {FALSE}]

StartProcess ==
    /\ process = "dead"
    /\ process' = "starting"
    /\ table' = TRUE
    /\ conn' = "open"
    /\ folders' \in Unset
    /\ job' = Initialisation
    /\ UNCHANGED <<disk, work, scope, held>>

(* It fails: the exception is caught, and the process runs without the ids.   *)
StartWithoutTable ==
    /\ process = "dead"
    /\ process' = "running"
    /\ conn' \in {"closed", "open"}
    /\ folders' \in Unset
    /\ UNCHANGED <<disk, work, scope, job, table, held>>

Kill == process # "dead" /\ Terminate

(* External: another connection takes the file and lets it go.                *)
HoldFile ==
    /\ held' = ~held
    /\ scope.at \in {"idle", "done"} \/ held
    /\ UNCHANGED <<disk, work, conn, scope, job, folders, table, process>>

Step == \/ Open \/ OpenFailed
        \/ Begin \/ BeginRetried \/ BeginFailed
        \/ Executed \/ ExecutionFailed \/ PrepareFailed
        \/ Commit \/ CommitFailed \/ Rollback \/ Return

Next ==
    \/ Step \/ StartProcess \/ StartWithoutTable \/ Kill \/ HoldFile
    \/ DeleteAllFolders \/ GetFolders
    \/ \E n \in Names : OnDeleteFolderPopupClicked(n)
    \/ \E n \in Names \ {All, Special} : AddFolder(n)
    \/ \E i \in Ids : RemoveNumberInFolder(i)
    \/ \E i \in Ids, n \in Names \ {All, Special} : UpdateFolderName(i, n)

(* A call runs to its end on the thread that made it.                         *)
Fairness == WF_vars(Step)

Spec == Init /\ [][Next]_vars /\ Fairness

-----------------------------------------------------------------------------
(* However starts and statements fail, the two folders initDatabaseFolders    *)
(* makes are never made twice (ifFolderExists answers TRUE when it fails).    *)
ReservedOnce ==
    \A n \in {All, Special} : Cardinality(Named(disk, n)) <= 1

(* A process that is initialised has the ids of rows that are there, or 0:    *)
(* no sequence of its calls deletes them, nor renames All.                    *)
ReservedStay ==
    (process = "running" /\ folders.initialised) =>
      /\ folders.all # 0 => folders.all \in Named(disk, All)
      /\ folders.special # 0 => folders.special \in DOMAIN disk

(* Between calls no transaction is open, unless a rollback failed.            *)
NoTransactionLeft ==
    job = <<>> => scope = Idle /\ work = NoRows

(* A call returns or the process ends, also when another connection never     *)
(* lets the file go (sql_step gives up after SQL_RETRY_COUNT).                *)
CallsReturn == job # <<>> ~> job = <<>>

StorageIsSound ==
    [](ReservedOnce /\ ReservedStay /\ NoTransactionLeft) /\ CallsReturn
=============================================================================
