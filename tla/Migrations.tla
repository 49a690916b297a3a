------------------------------ MODULE Migrations ------------------------------
(***************************************************************************)
(* Store.Migrate, which every command calls first.  Several processes, of  *)
(* one release or of several, open one database, new or old.               *)
(*                                                                         *)
(* A migration is its version; its statements fail if they have taken      *)
(* effect before (CREATE TABLE, ADD COLUMN without IF NOT EXISTS).  The    *)
(* transaction of a migration is one step: SQLite makes it atomic.         *)
(***************************************************************************)
EXTENDS Integers

CONSTANTS
    Openers,        \* processes
    Newest,         \* the newest migration of any release
    Known,          \* Known[p]: the newest migration in the binary of p
    OldVersions     \* versions the database may start with, 0 if it is new

ASSUME MigrationsAssumption ==
    /\ Newest \in Nat /\ OldVersions \subseteq 0 .. Newest
    /\ Known \in [Openers -> 0 .. Newest]

VARIABLES
    executed,   \* executed[v]: how often the statements of v took effect
    versions,   \* the rows of schema_migrations
    opener,     \* where a process is
    current,    \* the version a process knows the database to have
    disturbed   \* did a process crash, or find the database locked too long?

migrationVars == <<executed, versions, opener, current, disturbed>>

MigrateInit ==
    /\ \E old \in OldVersions :
          /\ executed = [v \in 1 .. Newest |-> IF v <= old THEN 1 ELSE 0]
          /\ versions = 1 .. old
    /\ opener = [p \in Openers |-> "read"]
    /\ current = [p \in Openers |-> 0]
    /\ disturbed = FALSE

(* Mutant: the number of an older migration is taken for the version.      *)
SchemaVersion_Least == IF versions = {} THEN 0
                       ELSE CHOOSE v \in versions : \A w \in versions : v <= w

(* COALESCE(MAX(version), 0)                                               *)
SchemaVersion == IF versions = {} THEN 0
                 ELSE CHOOSE v \in versions : \A w \in versions : w <= v

ReadVersion(p) ==
    /\ opener[p] = "read"
    /\ current' = [current EXCEPT ![p] = SchemaVersion]
    /\ opener' = [opener EXCEPT ![p] = "apply"]
    /\ UNCHANGED <<executed, versions, disturbed>>

(* Mutant: the statements may be repeated.                                 *)
Repeated_Tolerated(v) == FALSE

(* The tables or columns are there, or the row is.                         *)
Repeated(v) == executed[v] > 0 \/ v \in versions

Apply(p) ==
    LET v == current[p] + 1
    IN /\ opener[p] = "apply" /\ v <= Known[p] /\ ~Repeated(v)
       /\ executed' = [executed EXCEPT ![v] = @ + 1]
       /\ versions' = versions \cup {v}
       /\ current' = [current EXCEPT ![p] = v]
       /\ UNCHANGED <<opener, disturbed>>

(* The transaction is rolled back and Migrate returns the error.           *)
ApplyFails(p) ==
    LET v == current[p] + 1
    IN /\ opener[p] = "apply" /\ v <= Known[p] /\ Repeated(v)
       /\ opener' = [opener EXCEPT ![p] = "failed"]
       /\ UNCHANGED <<executed, versions, current, disturbed>>

Return(p) ==
    /\ opener[p] = "apply" /\ current[p] >= Known[p]
    /\ opener' = [opener EXCEPT ![p] = "migrated"]
    /\ UNCHANGED <<executed, versions, current, disturbed>>

(* The busy timeout ends, or the process does, at any point.               *)
Disturb(p) ==
    /\ opener[p] \in {"read", "apply"}
    /\ opener' = [opener EXCEPT ![p] = "failed"] /\ disturbed' = TRUE
    /\ UNCHANGED <<executed, versions, current>>

Migrate(p) == ReadVersion(p) \/ Apply(p) \/ ApplyFails(p) \/ Return(p) \/ Disturb(p)

MigrateNext == \E p \in Openers : Migrate(p)

MigrateSpec == MigrateInit /\ [][MigrateNext]_migrationVars

(***************************************************************************)
(* Properties                                                              *)
(***************************************************************************)

MigrationsTypeOK ==
    /\ executed \in [1 .. Newest -> Nat]
    /\ versions \subseteq 1 .. Newest
    /\ opener \in [Openers -> {"read", "apply", "migrated", "failed"}]
    /\ current \in [Openers -> 0 .. Newest]
    /\ disturbed \in BOOLEAN

(* Whichever processes open the database at once, of whichever release,    *)
(* every migration has taken effect once if schema_migrations has its row  *)
(* and not at all otherwise, and none is left out: Store.Migrate.          *)
SchemaExact ==
    /\ \A v \in 1 .. Newest : executed[v] = IF v \in versions THEN 1 ELSE 0
    /\ \A v \in versions : 1 .. v \subseteq versions

(* A process whose Migrate succeeded finds all the tables it knows.        *)
MigratedIsWhole ==
    \A p \in Openers : opener[p] = "migrated" => 1 .. Known[p] \subseteq versions

(* A process that loses the race for a migration fails, but not all do:    *)
(* undisturbed, one gets through.                                          *)
OneGetsThrough ==
    (\A p \in Openers : opener[p] = "failed") /\ Openers # {} => disturbed
===============================================================================
