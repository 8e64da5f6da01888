-------------------------- MODULE MigrationProofs ---------------------------
(***************************************************************************)
(* For any set of columns, constraints and defaults, any database the      *)
(* script is run on and any number of runs, cut off anywhere: what a run   *)
(* that completes leaves, and what no run takes back.                      *)
(***************************************************************************)
EXTENDS Migration, TLAPS

\* What the phases that a run has been through have achieved so far.
CollateDone == phase = "collate" => StatusColumns \ todo \subseteq strict
CheckDone ==
  phase = "check" => strict = StatusColumns /\ Constraints \ todo \subseteq checks
DefaultDone ==
  phase = "default" =>
    strict = StatusColumns /\ checks = Constraints /\ DefaultColumns \ todo \subseteq defaults

MigrationInv ==
  /\ MigrationTypeOK
  /\ CollateDone /\ CheckDone /\ DefaultDone
  /\ StrictCheckHolds
  /\ CompletedMeansMigrated

-----------------------------------------------------------------------------
LEMMA InitMigration ==
  ASSUME Init
  PROVE  MigrationInv
<1>1. /\ upper \subseteq StatusColumns /\ strict \subseteq StatusColumns
      /\ checks \subseteq Constraints /\ defaults \subseteq DefaultColumns
      /\ upper = {} \/ strict = {}
  BY DEF Init, Fresh, Legacy
<1>2. MigrationTypeOK
  <2>1. /\ phase = "stopped" /\ todo = {} /\ crashes = MaxCrashes
        /\ created \in BOOLEAN /\ completed \in BOOLEAN /\ refused \in BOOLEAN
    BY DEF Init
  <2>2. crashes \in 0 .. MaxCrashes
    BY <2>1, MigrationAssumption
  <2> QED
    BY <1>1, <2>1, <2>2 DEF MigrationTypeOK, Phases
<1>3. CollateDone /\ CheckDone /\ DefaultDone /\ CompletedMeansMigrated
  BY DEF Init, CollateDone, CheckDone, DefaultDone, CompletedMeansMigrated
<1>4. StrictCheckHolds
  BY <1>1 DEF StrictCheckHolds
<1> QED
  BY <1>2, <1>3, <1>4 DEF MigrationInv

\* What every step leaves true of the schema, a completed one included.
LEMMA SchemaStep ==
  ASSUME MigrationInv, [Next]_vars
  PROVE  /\ (strict \cap checks) \subseteq (strict' \cap checks')
         /\ upper' \subseteq upper /\ strict \subseteq strict'
         /\ defaults \subseteq defaults'
         /\ StrictCheckHolds'
         /\ Migrated => Migrated'
<1> DEFINE Goal == /\ (strict \cap checks) \subseteq (strict' \cap checks')
                   /\ upper' \subseteq upper /\ strict \subseteq strict'
                   /\ defaults \subseteq defaults'
                   /\ StrictCheckHolds'
                   /\ Migrated => Migrated'
<1>0. MigrationTypeOK /\ StrictCheckHolds /\ CheckDone
  BY DEF MigrationInv
<1>1. CASE UNCHANGED <<upper, strict, checks, defaults>>
  BY <1>0, <1>1 DEF StrictCheckHolds, Migrated
<1>2. CASE Normalise
  <2>1. upper' \subseteq upper /\ UNCHANGED <<strict, checks, defaults>>
    BY <1>2 DEF Normalise
  <2> QED
    BY <1>0, <2>1 DEF StrictCheckHolds, Migrated
<1>3. ASSUME NEW c \in StatusColumns, DropCheck(c) PROVE Goal
  <2>1. c \notin strict /\ checks' = checks \ {c} /\ UNCHANGED <<upper, strict, defaults>>
    BY <1>3 DEF DropCheck, Collates
  <2> QED
    BY <1>0, <2>1 DEF StrictCheckHolds, Migrated
<1>4. ASSUME NEW c \in StatusColumns, Modify(c) PROVE Goal
  <2>1. /\ c \notin strict /\ c \notin checks
        /\ strict' = strict \cup {c} /\ defaults' = defaults \cup {c}
        /\ UNCHANGED <<upper, checks>>
    BY <1>4 DEF Modify, Collates, CheckInTheWay
  <2> QED
    BY <1>0, <2>1 DEF StrictCheckHolds, Migrated
<1>5. ASSUME NEW k \in Constraints, AddCheck(k) PROVE Goal
  <2>1. /\ k \in checks \/ ~(k \in upper \cap strict)
        /\ checks' = checks \cup {k}
        /\ UNCHANGED <<upper, strict, defaults>>
    BY <1>5 DEF AddCheck, Violated
  <2> QED
    BY <1>0, <1>5, <2>1 DEF StrictCheckHolds, Migrated
<1>6. ASSUME NEW c \in DefaultColumns, SetDefault(c) PROVE Goal
  <2>1. defaults' = defaults \cup {c} /\ UNCHANGED <<upper, strict, checks>>
    BY <1>6 DEF SetDefault
  <2> QED
    BY <1>0, <1>6, <2>1 DEF StrictCheckHolds, Migrated
<1>7. CASE CreateTables \/ Start \/ NextPhase \/ Complete \/ CutOff
  BY <1>1, <1>7 DEF CreateTables, Start, NextPhase, Complete, CutOff, schemaVars
<1>8. ASSUME NEW c, SkipCollation(c) \/ CheckRefused(c) PROVE Goal
  BY <1>1, <1>8 DEF SkipCollation, CheckRefused, schemaVars
<1>9. CASE UNCHANGED vars
  BY <1>1, <1>9 DEF vars, schemaVars
<1> QED
  BY <1>2, <1>3, <1>4, <1>5, <1>6, <1>7, <1>8, <1>9 DEF Next, ScriptStep

\* A rewritten row, a collation and a constraint outlive their phase.
LEMMA PhaseStep ==
  ASSUME MigrationInv, [Next]_vars
  PROVE  CollateDone' /\ CheckDone' /\ DefaultDone'
<1> DEFINE Goal == CollateDone' /\ CheckDone' /\ DefaultDone'
<1>0. MigrationTypeOK /\ CollateDone /\ CheckDone /\ DefaultDone
  BY DEF MigrationInv
<1>1. CASE UNCHANGED <<strict, checks, defaults, phase, todo>>
  BY <1>0, <1>1 DEF CollateDone, CheckDone, DefaultDone
<1>2. CASE phase' \in {"stopped", "normalise"}
  BY <1>2 DEF CollateDone, CheckDone, DefaultDone
<1>3. CASE Normalise
  <2>1. phase' = "collate" /\ todo' = StatusColumns
    BY <1>3 DEF Normalise, Enter, After, ItemsOf
  <2> QED
    BY <2>1 DEF CollateDone, CheckDone, DefaultDone
<1>4. CASE NextPhase
  <2>1. /\ todo = {} /\ UNCHANGED <<strict, checks, defaults>>
        /\ \/ phase = "collate" /\ phase' = "check" /\ todo' = Constraints
           \/ phase = "check" /\ phase' = "default" /\ todo' = DefaultColumns
    BY <1>4 DEF NextPhase, Enter, After, ItemsOf, schemaVars
  <2>2. strict \subseteq StatusColumns /\ checks \subseteq Constraints
    BY <1>0 DEF MigrationTypeOK
  <2> QED
    BY <1>0, <2>1, <2>2 DEF CollateDone, CheckDone, DefaultDone
<1>5. ASSUME NEW c \in StatusColumns, SkipCollation(c) \/ DropCheck(c) \/ Modify(c) PROVE Goal
  <2>1. /\ phase = "collate" /\ phase' = "collate"
        /\ strict \subseteq strict'
        /\ todo' = todo \/ (todo' = todo \ {c} /\ c \in strict')
    BY <1>5 DEF SkipCollation, DropCheck, Modify, Collates, schemaVars
  <2> QED
    BY <1>0, <2>1 DEF CollateDone, CheckDone, DefaultDone
<1>6. ASSUME NEW k \in Constraints, AddCheck(k) PROVE Goal
  <2>1. /\ phase = "check" /\ phase' = "check"
        /\ checks' = checks \cup {k} /\ todo' = todo \ {k} /\ UNCHANGED strict
    BY <1>6 DEF AddCheck
  <2> QED
    BY <1>0, <2>1 DEF CollateDone, CheckDone, DefaultDone
<1>7. ASSUME NEW c \in DefaultColumns, SetDefault(c) PROVE Goal
  <2>1. /\ phase = "default" /\ phase' = "default"
        /\ defaults' = defaults \cup {c} /\ todo' = todo \ {c} /\ UNCHANGED <<strict, checks>>
    BY <1>7 DEF SetDefault
  <2> QED
    BY <1>0, <2>1 DEF CollateDone, CheckDone, DefaultDone
<1>8. ASSUME NEW k \in Constraints, CheckRefused(k) PROVE Goal
  BY <1>2, <1>8 DEF CheckRefused
<1>9. CASE Start \/ Complete \/ CutOff
  BY <1>2, <1>9 DEF Start, Complete, CutOff
<1>10. CASE CreateTables \/ UNCHANGED vars
  BY <1>1, <1>10 DEF CreateTables, vars, schemaVars
<1> QED
  BY <1>3, <1>4, <1>5, <1>6, <1>7, <1>8, <1>9, <1>10 DEF Next, ScriptStep

LEMMA TypeStep ==
  ASSUME MigrationTypeOK, [Next]_vars
  PROVE  MigrationTypeOK'
<1> USE DEF MigrationTypeOK, Phases
<1>1. CASE CreateTables \/ Start \/ CutOff \/ UNCHANGED vars
  <2>1. CASE CreateTables
    BY <2>1 DEF CreateTables
  <2>2. CASE Start
    BY <2>2 DEF Start, schemaVars
  <2>3. CASE CutOff
    <3>1. crashes' \in 0 .. MaxCrashes
      BY <2>3, MigrationAssumption DEF CutOff
    <3> QED
      BY <2>3, <3>1 DEF CutOff, schemaVars
  <2>4. CASE UNCHANGED vars
    BY <2>4 DEF vars, schemaVars
  <2> QED
    BY <1>1, <2>1, <2>2, <2>3, <2>4
<1>2. CASE Normalise
  <2>1. phase' = "collate" /\ todo' = StatusColumns
    BY <1>2 DEF Normalise, Enter, After, ItemsOf
  <2>2. upper' \subseteq upper
    BY <1>2 DEF Normalise
  <2> QED
    BY <1>2, <2>1, <2>2 DEF Normalise
<1>3. CASE NextPhase \/ Complete
  <2>1. CASE NextPhase
    <3>1. \/ phase' = "check" /\ todo' = Constraints
          \/ phase' = "default" /\ todo' = DefaultColumns
      BY <2>1 DEF NextPhase, Enter, After, ItemsOf
    <3> QED
      BY <2>1, <3>1 DEF NextPhase, schemaVars
  <2>2. CASE Complete
    BY <2>2 DEF Complete, schemaVars
  <2> QED
    BY <1>3, <2>1, <2>2
<1>4. ASSUME NEW c \in StatusColumns, SkipCollation(c) \/ DropCheck(c) \/ Modify(c)
      PROVE  MigrationTypeOK'
  BY <1>4 DEF SkipCollation, DropCheck, Modify, schemaVars, DefaultColumns
<1>5. ASSUME NEW k \in Constraints, AddCheck(k) \/ CheckRefused(k) PROVE MigrationTypeOK'
  BY <1>5 DEF AddCheck, CheckRefused, schemaVars
<1>6. ASSUME NEW c \in DefaultColumns, SetDefault(c) PROVE MigrationTypeOK'
  BY <1>6 DEF SetDefault
<1> QED
  BY <1>1, <1>2, <1>3, <1>4, <1>5, <1>6 DEF Next, ScriptStep

\* Only a run that has been through all four steps says that it is complete.
LEMMA CompletedStep ==
  ASSUME MigrationInv, [Next]_vars
  PROVE  CompletedMeansMigrated'
<1>1. CASE Complete
  <2>1. phase = "default" /\ todo = {} /\ UNCHANGED <<upper, strict, checks, defaults>>
    BY <1>1 DEF Complete, schemaVars
  <2>2. strict = StatusColumns /\ checks = Constraints /\ DefaultColumns \subseteq defaults
    BY <2>1 DEF MigrationInv, DefaultDone
  <2>3. upper = {} /\ defaults = DefaultColumns
    BY <2>2 DEF MigrationInv, StrictCheckHolds, MigrationTypeOK, Constraints
  <2> QED
    BY <2>1, <2>2, <2>3 DEF CompletedMeansMigrated, Migrated
<1>2. CASE ~Complete
  <2>1. UNCHANGED completed
    BY <1>2 DEF Next, ScriptStep, CreateTables, Start, CutOff, Normalise, SkipCollation,
                DropCheck, Modify, AddCheck, CheckRefused, SetDefault, NextPhase, vars
  <2>2. Migrated => Migrated'
    BY SchemaStep
  <2> QED
    BY <2>1, <2>2 DEF MigrationInv, CompletedMeansMigrated
<1> QED
  BY <1>1, <1>2

LEMMA MigrationStep ==
  ASSUME MigrationInv, [Next]_vars
  PROVE  MigrationInv'
<1>1. MigrationTypeOK
  BY DEF MigrationInv
<1> QED
  BY <1>1, TypeStep, SchemaStep, PhaseStep, CompletedStep DEF MigrationInv

\* The invariant that the theorems below are parts of: what each phase has
\* achieved stays achieved, however often the script is cut off and run again
\* (migrate_enum_lowercase.py 131-213).
THEOREM MigrationInvariant == Spec => []MigrationInv
<1> QED
  BY InitMigration, MigrationStep, PTL DEF Spec

\* The types of Migration.
THEOREM MigrationTyped == Spec => []MigrationTypeOK
<1>1. MigrationInv => MigrationTypeOK
  BY DEF MigrationInv
<1> QED
  BY <1>1, MigrationInvariant, PTL

\* Where the column tells case and its CHECK stands, no upper-case status is
\* left, although the UPDATE ran under another collation than the CHECK
\* (migrate_enum_lowercase.py 141, 155-176).
THEOREM StrictStaysStrict == Spec => []StrictCheckHolds
<1>1. MigrationInv => StrictCheckHolds
  BY DEF MigrationInv
<1> QED
  BY <1>1, MigrationInvariant, PTL

\* A run that says it is complete leaves no upper-case status, collation,
\* constraint or default undone, and none is undone later
\* (migrate_enum_lowercase.py 215-238).
THEOREM CompletionIsTrue == Spec => []CompletedMeansMigrated
<1>1. MigrationInv => CompletedMeansMigrated
  BY DEF MigrationInv
<1> QED
  BY <1>1, MigrationInvariant, PTL

\* No step of any run takes back what was done (9, 155-176).
THEOREM NothingTakenBack == Spec => ProgressKept
<1>1. MigrationInv /\ [Next]_vars =>
        [ /\ (strict \cap checks) \subseteq (strict' \cap checks')
          /\ upper' \subseteq upper /\ strict \subseteq strict'
          /\ defaults \subseteq defaults' ]_vars
  BY SchemaStep
<1> QED
  BY <1>1, MigrationInvariant, PTL DEF Spec, ProgressKept
=============================================================================
