----------------------------- MODULE Migration ------------------------------
(***************************************************************************)
(* scripts/migrate_enum_lowercase.py, run by hand on a database that older *)
(* code has filled with upper-case statuses.  MySQL commits every ALTER at *)
(* once, so a run that dies leaves what it has done, and the next run      *)
(* starts from the beginning.                                              *)
(*                                                                         *)
(* The tables, columns and constraints of one phase do not depend on each  *)
(* other; a phase may take them in any order.                              *)
(***************************************************************************)
EXTENDS Integers, FiniteSets

CONSTANTS
  StatusColumns,  \* STATUS_COLUMNS, and the CHECKs on them
  OtherChecks,    \* the CHECKs that are not about a status
  OtherDefaults,  \* the columns of COLUMN_DEFAULTS that are no status
  MaxCrashes      \* bound on runs that are cut off

ASSUME MigrationAssumption ==
  /\ IsFiniteSet(StatusColumns) /\ IsFiniteSet(OtherChecks) /\ IsFiniteSet(OtherDefaults)
  /\ StatusColumns \cap (OtherChecks \cup OtherDefaults) = {}
  /\ MaxCrashes \in Nat

VARIABLES
  created,    \* the tables exist
  upper,      \* status columns with rows in upper case
  strict,     \* status columns with collation utf8mb4_bin
  checks,     \* CHECK constraints that exist
  defaults,   \* columns with a server default
  phase,      \* what the running script does
  todo,       \* what is left to do in this phase
  crashes,    \* cut-off runs that may still happen
  completed,  \* history: a run has said that it is complete
  refused     \* history: a run was refused a constraint by the rows

schemaVars == <<created, upper, strict, checks, defaults>>
vars == <<schemaVars, phase, todo, crashes, completed, refused>>

Constraints == StatusColumns \cup OtherChecks
DefaultColumns == StatusColumns \cup OtherDefaults
Phases == {"stopped", "normalise", "collate", "check", "default"}

\* What each phase goes through.
ItemsOf(p) ==
  CASE p = "collate" -> StatusColumns
    [] p = "check" -> Constraints
    [] p = "default" -> DefaultColumns
    [] OTHER -> {}

MigrationTypeOK ==
  /\ created \in BOOLEAN /\ completed \in BOOLEAN /\ refused \in BOOLEAN
  /\ upper \subseteq StatusColumns /\ strict \subseteq StatusColumns
  /\ checks \subseteq Constraints /\ defaults \subseteq DefaultColumns
  /\ phase \in Phases
  /\ todo \subseteq (IF phase = "collate" THEN StatusColumns ELSE Constraints \cup DefaultColumns)
  /\ crashes \in 0 .. MaxCrashes

\* Tables as create_all makes them from today's models: nothing to migrate.
Fresh ==
  /\ upper = {} /\ strict = StatusColumns
  /\ checks = Constraints /\ defaults = DefaultColumns

\* Tables of earlier models: the server's collation, which does not tell case,
\* and any of the constraints and defaults.
Legacy ==
  /\ upper \in SUBSET StatusColumns /\ strict = {}
  /\ checks \in SUBSET Constraints /\ defaults \in SUBSET DefaultColumns

Init ==
  /\ created \in BOOLEAN
  /\ IF created THEN Fresh \/ Legacy ELSE Fresh
  /\ phase = "stopped" /\ todo = {}
  /\ crashes = MaxCrashes
  /\ completed = FALSE /\ refused = FALSE

-----------------------------------------------------------------------------
\* init_database: create_all makes the tables that are missing.
CreateTables ==
  /\ ~created
  /\ created' = TRUE
  /\ UNCHANGED <<upper, strict, checks, defaults, phase, todo, crashes, completed, refused>>

\* The operator starts the script; without the tables it stops at once.
Start ==
  /\ phase = "stopped"
  /\ created
  /\ phase' = "normalise"
  /\ UNCHANGED <<schemaVars, todo, crashes, completed, refused>>

Enter(p) == phase' = p /\ todo' = ItemsOf(p)

\* Faulty variant: the constraints come before the collation.
AfterSwapped(p) ==
  CASE p = "normalise" -> "check"
    [] p = "check" -> "collate"
    [] p = "collate" -> "default"
    [] OTHER -> "stopped"

\* The order of the four steps, which must not be changed (11-15).
After(p) ==
  CASE p = "normalise" -> "collate"
    [] p = "collate" -> "check"
    [] p = "check" -> "default"
    [] OTHER -> "stopped"

\* Faulty variant: the UPDATE compares without case on every collation.
FoundNever(c) == FALSE

\* status <> LOWER(status) holds of no row where the collation ignores case.
FoundByUpdate(c) == c \in upper /\ c \in strict

\* One transaction with an UPDATE per column.
Normalise ==
  /\ phase = "normalise"
  /\ upper' = {c \in upper : ~FoundByUpdate(c)}
  /\ Enter(After(phase))
  /\ UNCHANGED <<created, strict, checks, defaults, crashes, completed, refused>>

\* Faulty variant: every run changes every column.
CollatesAlways(c) == TRUE

\* The collation is not utf8mb4_bin yet.
Collates(c) == c \notin strict

\* Faulty variant: the CHECK is left where it is.
CheckIgnored(c) == FALSE

\* A CHECK of the old collation is in the way.
CheckInTheWay(c) == c \in checks

SkipCollation(c) ==
  /\ phase = "collate" /\ c \in todo
  /\ ~Collates(c)
  /\ todo' = todo \ {c}
  /\ UNCHANGED <<schemaVars, phase, crashes, completed, refused>>

\* ALTER TABLE DROP CHECK, committed by itself.
DropCheck(c) ==
  /\ phase = "collate" /\ c \in todo
  /\ Collates(c) /\ CheckInTheWay(c)
  /\ checks' = checks \ {c}
  /\ UNCHANGED <<created, upper, strict, defaults, phase, todo, crashes, completed, refused>>

\* ALTER TABLE MODIFY: the binary collation, NOT NULL and the default.
Modify(c) ==
  /\ phase = "collate" /\ c \in todo
  /\ Collates(c) /\ ~CheckInTheWay(c)
  /\ strict' = strict \cup {c}
  /\ defaults' = defaults \cup {c}
  /\ todo' = todo \ {c}
  /\ UNCHANGED <<created, upper, checks, phase, crashes, completed, refused>>

\* MySQL refuses a CHECK that a row violates; it sees the case of a row only
\* where the collation does.  Balances have never been negative.
Violated(k) == k \in upper \cap strict

\* ADD CONSTRAINT where there is none of that name.
AddCheck(k) ==
  /\ phase = "check" /\ k \in todo
  /\ k \in checks \/ ~Violated(k)
  /\ checks' = checks \cup {k}
  /\ todo' = todo \ {k}
  /\ UNCHANGED <<created, upper, strict, defaults, phase, crashes, completed, refused>>

\* ADD CONSTRAINT raises and the script ends.
CheckRefused(k) ==
  /\ phase = "check" /\ k \in todo
  /\ k \notin checks /\ Violated(k)
  /\ phase' = "stopped" /\ todo' = {}
  /\ refused' = TRUE
  /\ UNCHANGED <<schemaVars, crashes, completed>>

\* ALTER COLUMN SET DEFAULT where the default is another one.
SetDefault(c) ==
  /\ phase = "default" /\ c \in todo
  /\ defaults' = defaults \cup {c}
  /\ todo' = todo \ {c}
  /\ UNCHANGED <<created, upper, strict, checks, phase, crashes, completed, refused>>

\* All items of a phase are done.
NextPhase ==
  /\ phase \in {"collate", "check"} /\ todo = {}
  /\ Enter(After(phase))
  /\ UNCHANGED <<schemaVars, crashes, completed, refused>>

\* The script says that the migration is complete.
Complete ==
  /\ phase = "default" /\ todo = {}
  /\ phase' = "stopped" /\ UNCHANGED todo
  /\ completed' = TRUE
  /\ UNCHANGED <<schemaVars, crashes, refused>>

\* The run is cut off, its transaction rolled back: what is committed stays.
CutOff ==
  /\ phase # "stopped"
  /\ crashes > 0 /\ crashes' = crashes - 1
  /\ phase' = "stopped" /\ todo' = {}
  /\ UNCHANGED <<schemaVars, completed, refused>>

ScriptStep ==
  \/ Normalise
  \/ \E c \in StatusColumns : SkipCollation(c) \/ DropCheck(c) \/ Modify(c)
  \/ \E k \in Constraints : AddCheck(k) \/ CheckRefused(k)
  \/ \E c \in DefaultColumns : SetDefault(c)
  \/ NextPhase
  \/ Complete

Next == CreateTables \/ Start \/ ScriptStep \/ CutOff

Spec == Init /\ [][Next]_vars

\* The operator runs the script again until it says that it is complete.
FairSpec ==
  /\ Spec
  /\ WF_vars(CreateTables)
  /\ WF_vars(Start /\ ~completed)
  /\ WF_vars(ScriptStep)

-----------------------------------------------------------------------------
Migrated ==
  /\ upper = {} /\ strict = StatusColumns
  /\ checks = Constraints /\ defaults = DefaultColumns

\* A CHECK that tells case speaks the truth about every row that is there: the
\* script never lets one of the old collation live on under the new one, where
\* MySQL would have accepted 'ONLINE' and the ORM would not read it (17-19).
StrictCheckHolds == upper \cap strict \cap checks = {}

\* A run that says it is complete has left the schema of models.py and no row
\* that the ORM cannot read, whatever runs were cut off before, or after.
CompletedMeansMigrated == completed => Migrated

\* "Idempotent, safe to repeat" (9): no later step, and no later run however far
\* it gets, takes back what was done: a strict CHECK is never dropped again, a
\* rewritten row, a collation and a default stay.
ProgressKept ==
  [][ /\ (strict \cap checks) \subseteq (strict' \cap checks')
      /\ upper' \subseteq upper /\ strict \subseteq strict'
      /\ defaults \subseteq defaults' ]_vars

\* Whatever the database looked like and wherever runs were cut off, an operator
\* who runs the script until it completes ends with a migrated database.
EventuallyMigrated == <>[](completed /\ Migrated)

\* "An existing database must run this script by hand once" (8); step 3 comes
\* after 1 and 2 because old data would fail it (11-14).
RunIsNotRefused == ~refused
=============================================================================
