------------------------------ MODULE Settings ------------------------------
(***************************************************************************)
(* The settings collection: the migrations that make it, fill it and take  *)
(* from it (pkg/migrations, run by cmd/migrate), the admin menu that drops *)
(* or truncates it, and the programs, which copy it into their environment *)
(* when they boot (pkg/initapp) and read that for as long as they live     *)
(* (pkg/settings).                                                         *)
(*                                                                         *)
(* A migration is the sequence of database calls it has still to make; the *)
(* engine, a library, notes it in its ledger when all of them succeeded.   *)
(* Five migrations stand for all: "limits" for those that delete what they *)
(* insert first, and for the settings of populate one before, one after    *)
(* and BL_RPS_SPREAD.  Values are left out: every run writes the same.     *)
(***************************************************************************)
EXTENDS Integers, Sequences, SequencesExt

CONSTANTS
    Programs,      \* processes that read settings
    Preset,        \* the keys that .env sets
    MaxCommands,   \* bounds the commands given to migrate
    MaxFaults      \* bounds failures and uses of the admin menu

Order == <<"create", "populate", "limits", "regions", "remove">>
Migrations == Range(Order)
Keys == {"before", "spread", "after", "limit", "frequency", "regions"}

ASSUME SettingsAssumption == Preset \subseteq Keys /\ MaxCommands \in Nat /\ MaxFaults \in Nat

\* What the programs look for: all but BL_RPS_SPREAD.
Needed == Keys \ {"spread"}

VARIABLES
    present,    \* the collection exists
    unique,     \* with its index on key
    copies,     \* how many records each key has
    ledger,     \* the migrations that the engine has noted
    doing,      \* the migration at work and its direction
    todo,       \* the calls it has still to make
    up, env,    \* which programs run, and the keys in their environment
    commands, faults,
    cut,        \* history: pending migrations that were begun
    undone,     \* history: noted migrations whose records were touched since
    disorder,   \* history: a migration was run or rolled back out of order
    firm        \* history: programs that booted on a complete database

database == <<present, unique, copies>>
work == <<doing, todo>>
programs == <<up, env, firm>>
vars == <<database, ledger, work, programs, commands, faults, cut, undone, disorder>>

Idle == <<"none", "none">>

Call == {"create", "index", "insert", "delete", "drop"} \X (Keys \cup {""})

TypeOK ==
    /\ present \in BOOLEAN /\ unique \in BOOLEAN
    /\ copies \in [Keys -> Nat]
    /\ ledger \subseteq Migrations
    /\ doing \in (Migrations \X {"up", "down"}) \cup {Idle}
    /\ todo \in Seq(Call)
    /\ up \in [Programs -> BOOLEAN] /\ env \in [Programs -> SUBSET Keys]
    /\ firm \in [Programs -> BOOLEAN]
    /\ commands \in 0 .. MaxCommands /\ faults \in 0 .. MaxFaults
    /\ cut \subseteq Migrations /\ undone \subseteq Migrations /\ disorder \in BOOLEAN
    /\ doing = Idle => todo = <<>>

\* The keys of a migration, in the order in which it inserts them.
KeysOf(m) ==
    CASE m = "populate" -> <<"before", "spread", "after">>
      [] m = "limits" -> <<"limit", "frequency">>
      [] m = "regions" -> <<"regions">>
      [] m = "remove" -> <<"spread">>
      [] OTHER -> <<>>

Each(op, keys) == [i \in DOMAIN keys |-> <<op, keys[i]>>]
Inserts(m) == Each("insert", KeysOf(m))
Deletes(m) == Each("delete", KeysOf(m))

Init ==
    /\ present = FALSE /\ unique = FALSE
    /\ copies = [k \in Keys |-> 0]
    /\ ledger = {} /\ doing = Idle /\ todo = <<>>
    /\ up = [p \in Programs |-> FALSE]
    /\ env = [p \in Programs |-> {}]
    /\ firm = [p \in Programs |-> FALSE]
    /\ commands = 0 /\ faults = 0
    /\ cut = {} /\ undone = {} /\ disorder = FALSE

-----------------------------------------------------------------------------
\* up_20220201220119.
CreateCalls == IF present THEN <<>> ELSE <<<<"create", "">>, <<"index", "">>>>

\* Mutant of UpCalls: the old records are deleted after the new are inserted.
UpCallsTidyLast(m) ==
    CASE m = "create" -> CreateCalls
      [] m = "limits" -> Inserts(m) \o Deletes(m)
      [] m = "remove" -> Deletes(m)
      [] OTHER -> Inserts(m)

\* Mutant of UpCalls: nothing is deleted before it is inserted.
UpCallsPlain(m) ==
    CASE m = "create" -> CreateCalls
      [] m = "remove" -> Deletes(m)
      [] OTHER -> Inserts(m)

\* The up functions.
UpCalls(m) ==
    CASE m = "create" -> CreateCalls
      [] m = "limits" -> Deletes(m) \o Inserts(m)
      [] m = "remove" -> Deletes(m)
      [] OTHER -> Inserts(m)

\* The down functions.
DownCalls(m) ==
    CASE m = "create" -> <<<<"drop", "">>>>
      [] m = "remove" -> Inserts(m)
      [] OTHER -> Deletes(m)

LaterThan(m) == {Order[j] : j \in {j \in DOMAIN Order : \E i \in 1 .. j - 1 : Order[i] = m}}
EarlierThan(m) == {n \in Migrations : m \in LaterThan(n)}

(***************************************************************************)
(* A command of the menu.  The ones that run or roll back several          *)
(* migrations are as many of these.  The engine may refuse some of those   *)
(* that are out of order: how strict it is, is its own.                    *)
(***************************************************************************)
Command(m, direction, calls) ==
    /\ doing = Idle
    /\ commands < MaxCommands
    /\ commands' = commands + 1
    /\ doing' = <<m, direction>>
    /\ todo' = calls
    /\ undone' = IF direction = "up" THEN undone \ {m} ELSE undone
    /\ UNCHANGED <<database, ledger, programs, faults, cut>>

Up(m) ==
    /\ m \notin ledger
    /\ Command(m, "up", UpCalls(m))
    /\ disorder' = (disorder \/ LaterThan(m) \cap ledger # {}
                             \/ ~(EarlierThan(m) \subseteq ledger))

Down(m) ==
    /\ m \in ledger
    /\ Command(m, "down", DownCalls(m))
    /\ disorder' = (disorder \/ LaterThan(m) \cap ledger # {})

-----------------------------------------------------------------------------
Calling(call) == todo # <<>> /\ Head(todo)[1] = call

CallDone ==
    /\ todo' = Tail(todo)
    /\ UNCHANGED <<ledger, doing, programs, commands, faults, cut, disorder>>

\* The migration ends with an error, or the process with FailOnError.
Fail ==
    /\ doing' = Idle
    /\ todo' = <<>>
    /\ IF doing[2] = "up"
       THEN cut' = cut \cup {doing[1]} /\ UNCHANGED undone
       ELSE undone' = undone \cup {doing[1]} /\ UNCHANGED cut
    /\ UNCHANGED <<database, ledger, programs, commands, disorder>>

\* CreateCollection, whose index is a call of its own.
Create ==
    /\ Calling("create")
    /\ present' = TRUE
    /\ UNCHANGED <<unique, copies, undone>>
    /\ CallDone

Index ==
    /\ Calling("index")
    /\ present' = TRUE
    /\ unique' = TRUE
    /\ UNCHANGED <<copies, undone>>
    /\ CallDone

\* SaveNewSett, or a record of SaveManyRecords.  MongoDB makes a collection
\* that is missing, without the index.
Insert ==
    /\ Calling("insert")
    /\ LET k == Head(todo)[2] IN
       /\ ~unique \/ copies[k] = 0
       /\ copies' = [copies EXCEPT ![k] = @ + 1]
    /\ present' = TRUE
    /\ UNCHANGED <<unique, undone>>
    /\ CallDone

\* DeleteSettingByKey.
Delete ==
    /\ Calling("delete")
    /\ copies' = [copies EXCEPT ![Head(todo)[2]] = 0]
    /\ UNCHANGED <<present, unique, undone>>
    /\ CallDone

Emptied ==
    /\ copies' = [k \in Keys |-> 0]
    /\ undone' = undone \cup ledger \cup ({doing[1]} \cap Migrations)

Drop ==
    /\ Calling("drop")
    /\ Emptied
    /\ present' = FALSE /\ unique' = FALSE
    /\ CallDone

\* The key is there and must not be twice.
Refused ==
    /\ Calling("insert")
    /\ unique /\ copies[Head(todo)[2]] > 0
    /\ Fail
    /\ UNCHANGED faults

\* A call fails, or the process dies: also after the last call.
CallFails ==
    /\ doing # Idle
    /\ faults < MaxFaults
    /\ faults' = faults + 1
    /\ Fail

\* The engine's note.
Noted ==
    /\ doing # Idle /\ todo = <<>>
    /\ ledger' = IF doing[2] = "up" THEN ledger \cup {doing[1]} ELSE ledger \ {doing[1]}
    /\ doing' = Idle
    /\ cut' = cut \ {doing[1]}
    /\ undone' = IF doing[2] = "up" THEN undone ELSE undone \ {doing[1]}
    /\ UNCHANGED <<database, todo, programs, commands, faults, disorder>>

\* dropCollectionMenu, and truncateCollectionMenu as a whole.
AdminEmpties ==
    /\ present
    /\ faults < MaxFaults
    /\ faults' = faults + 1
    /\ Emptied
    /\ present' \in BOOLEAN
    /\ unique' = present'
    /\ UNCHANGED <<ledger, work, programs, commands, cut, disorder>>

-----------------------------------------------------------------------------
\* The database is what the migrations should have made of it.
Complete ==
    /\ ledger = Migrations /\ doing = Idle
    /\ cut = {} /\ undone = {} /\ ~disorder

\* Mutant of Imported: the import ends at the first key it finds set.
ImportedUpToSet == IF \E k \in Preset : copies[k] > 0 THEN Preset ELSE {k \in Keys : copies[k] > 0}

\* importSettings: what is set already wins, a missing collection is empty.
Imported == Preset \cup {k \in Keys : copies[k] > 0}

\* InitApp.
Boot(p) ==
    /\ ~up[p]
    /\ up' = [up EXCEPT ![p] = TRUE]
    /\ env' = [env EXCEPT ![p] = Imported]
    /\ firm' = [firm EXCEPT ![p] = Complete]
    /\ UNCHANGED <<database, ledger, work, commands, faults, cut, undone, disorder>>

End(p) ==
    /\ up[p]
    /\ up' = [up EXCEPT ![p] = FALSE]
    /\ env' = [env EXCEPT ![p] = {}]
    /\ firm' = [firm EXCEPT ![p] = FALSE]
    /\ UNCHANGED <<database, ledger, work, commands, faults, cut, undone, disorder>>

\* GetEnv: a key that is not there ends the process, at its first use.
Missing(p) == Needed \ env[p]

ReadMissing(p) == Missing(p) # {} /\ End(p)

Next ==
    \/ \E m \in Migrations : Up(m) \/ Down(m)
    \/ Create
    \/ Index
    \/ Insert
    \/ Delete
    \/ Drop
    \/ Refused
    \/ CallFails
    \/ Noted
    \/ AdminEmpties
    \/ \E p \in Programs : Boot(p) \/ End(p) \/ ReadMissing(p)

Spec == Init /\ [][Next]_vars

-----------------------------------------------------------------------------
\* The migrations that decide whether a key is there.
Deciders(k) == {m \in Migrations : \E i \in DOMAIN KeysOf(m) : KeysOf(m)[i] = k}

Unsettled == cut \cup undone \cup {doing[1]}

Wanted(k) == LET by == Deciders(k) \cap ledger IN by # {} /\ "remove" \notin by

(***************************************************************************)
(* The ledger tells the truth: a setting is there exactly if the noted     *)
(* migrations insert it and none of them removes it, unless one of these   *)
(* stopped half-way, the collection was emptied under the ledger, or       *)
(* migrations were run out of order.  (pkg/migrations)                     *)
(***************************************************************************)
LedgerTrue ==
    ~disorder => \A k \in Keys :
        Deciders(k) \cap Unsettled = {} => (copies[k] > 0 <=> Wanted(k))

(***************************************************************************)
(* Why it holds, as an inductive invariant.  Orderly and Explained tie the *)
(* engine's ledger to the history; Prepared says which calls a migration   *)
(* at work has still to make, and Progress what those it made have done.   *)
(* A key that two migrations decide, one of them unsettled, escapes        *)
(* LedgerTrue: SpreadGone says what is still known of it.                  *)
(***************************************************************************)
Orderly ==
    ~disorder =>
        /\ \A m \in ledger : EarlierThan(m) \subseteq ledger
        /\ doing # Idle => LaterThan(doing[1]) \cap ledger = {}
        /\ doing[2] = "up" => EarlierThan(doing[1]) \subseteq ledger

Explained ==
    /\ cut \cap ledger = {}
    /\ undone \subseteq ledger \cup cut \cup {doing[1]}
    /\ doing # Idle => (doing[2] = "up" <=> doing[1] \notin ledger)

\* The migration at work leaves its keys in the collection, or takes them out.
Adds == doing[1] # "create" /\ (doing[2] = "up" <=> doing[1] # "remove")

Ahead(op, k) == \E i \in DOMAIN todo : todo[i] = <<op, k>>

Prepared ==
    /\ \A i \in DOMAIN todo :
          /\ todo[i][1] \in {"insert", "delete"} => todo[i][2] \in Range(KeysOf(doing[1]))
          /\ todo[i][1] = "insert" => Adds
          /\ \A j \in i + 1 .. Len(todo) :
                /\ todo[i] # todo[j]
                /\ todo[i][1] = "insert" => todo[j][1] = "insert"
    /\ Adds => \A k, j \in Range(KeysOf(doing[1])) : Ahead("delete", k) => Ahead("insert", j)

\* Nothing has emptied the collection under the insertions of this run.
Undisturbed ==
    IF doing[1] = "remove" THEN ~disorder /\ "populate" \notin undone
                           ELSE doing[1] \notin undone

Repeatable == doing[1] = "limits" \/ (doing[1] \notin cut \cup undone /\ ~disorder)

Progress ==
    doing # Idle => \A k \in Range(KeysOf(doing[1])) :
        IF Adds
        THEN /\ Undisturbed /\ ~Ahead("insert", k) => copies[k] > 0
             /\ Repeatable /\ Ahead("insert", k) /\ ~Ahead("delete", k) => copies[k] = 0
        ELSE ~Ahead("delete", k) => copies[k] = 0

SpreadGone ==
    ~disorder =>
        /\ "populate" \notin ledger \cup cut \cup {doing[1]} => copies["spread"] = 0
        /\ "remove" \in ledger \ undone /\ doing[1] # "remove" => copies["spread"] = 0

SettingsInv ==
    /\ TypeOK
    /\ LedgerTrue
    /\ Orderly
    /\ Explained
    /\ Prepared
    /\ Progress
    /\ SpreadGone

(***************************************************************************)
(* A migration is refused only if a run of itself stopped half-way, or     *)
(* migrations were run out of order; one that deletes what it inserts can  *)
(* always be run again.  (SaveNewSett, SaveManyRecords in pkg/migrations)  *)
(***************************************************************************)
RefusalExplained ==
    [][Refused => doing[1] # "limits" /\ (doing[1] \in cut \cup undone \/ disorder)]_vars

(***************************************************************************)
(* A program that boots when all migrations have run in order, none of     *)
(* them half-way, never ends for a setting that it does not find, however  *)
(* late it looks for it and whatever becomes of the collection.            *)
(* (importSettings, GetEnv)                                                *)
(***************************************************************************)
BootFindsAll == \A p \in Programs : up[p] /\ firm[p] => Missing(p) = {}
=============================================================================
