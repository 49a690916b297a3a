--------------------------- MODULE MigrationsProofs ---------------------------
(***************************************************************************)
(* Whatever releases the processes are of and however many there are:      *)
(* the schema is never torn or skipped, and undisturbed one gets through.  *)
(*                                                                         *)
(* SchemaExact is not inductive: that a version is not skipped rests on    *)
(* what each process believes the version to be (Believed), and that the   *)
(* version can be read as a maximum rests on there being no gap (Prefix).  *)
(* A process fails only because another is ahead of it: AheadAlive says    *)
(* that the one furthest ahead has not failed.                             *)
(***************************************************************************)
EXTENDS Migrations, TLAPS

(* The rows are those of the first so many migrations.                     *)
Prefix == \E k \in 0 .. Newest : versions = 1 .. k

(* The rows of all the migrations a process counts as applied are there.   *)
Believed ==
    \A p \in Openers :
       /\ opener[p] \in {"apply", "migrated"} => 1 .. current[p] \subseteq versions
       /\ opener[p] = "migrated" => current[p] >= Known[p]

(* Some process knows the version the database has, if any has read it.    *)
AheadAlive ==
    ~disturbed =>
       \/ \A p \in Openers : opener[p] = "read"
       \/ \E q \in Openers : /\ opener[q] \in {"apply", "migrated"}
                             /\ current[q] + 1 \notin versions

MigrationsInv ==
    MigrationsTypeOK /\ SchemaExact /\ Prefix /\ Believed /\ AheadAlive

(* What Store.SchemaVersion reads from rows without a gap.                 *)
LEMMA SchemaVersionOfPrefix ==
    ASSUME NEW k \in Nat, versions = 1 .. k
    PROVE  SchemaVersion = k
<1>1. CASE k = 0
  <2>1. versions = {}
    BY <1>1
  <2> QED
    BY <2>1, <1>1 DEF SchemaVersion
<1>2. CASE k # 0
  <2>1. k \in versions /\ \A w \in versions : w <= k
    BY <1>2
  <2>2. \A v \in versions : (\A w \in versions : w <= v) => v = k
    BY <2>1
  <2> QED
    BY <2>1, <2>2 DEF SchemaVersion
<1> QED
  BY <1>1, <1>2

LEMMA InitMigrationsInv == MigrateInit => MigrationsInv
<1> SUFFICES ASSUME MigrateInit PROVE MigrationsInv
  OBVIOUS
<1>1. PICK old \in OldVersions :
        /\ executed = [v \in 1 .. Newest |-> IF v <= old THEN 1 ELSE 0]
        /\ versions = 1 .. old
  BY DEF MigrateInit
<1>2. old \in 0 .. Newest /\ Newest \in Nat /\ Known \in [Openers -> 0 .. Newest]
  BY MigrationsAssumption
<1>3. /\ opener = [p \in Openers |-> "read"]
      /\ current = [p \in Openers |-> 0]
      /\ disturbed = FALSE
  BY DEF MigrateInit
<1>4. MigrationsTypeOK
  <2>1. executed \in [1 .. Newest -> Nat]
    BY <1>1, <1>2
  <2>2. versions \subseteq 1 .. Newest
    BY <1>1, <1>2
  <2>3. opener \in [Openers -> {"read", "apply", "migrated", "failed"}]
    BY <1>3
  <2>4. 0 \in 0 .. Newest
    BY <1>2
  <2>5. current \in [Openers -> 0 .. Newest]
    BY <1>3, <2>4
  <2>6. disturbed \in BOOLEAN
    BY <1>3
  <2> QED
    BY <2>1, <2>2, <2>3, <2>5, <2>6 DEF MigrationsTypeOK
<1>5. SchemaExact
  BY <1>1, <1>2 DEF SchemaExact
<1>6. Prefix
  BY <1>1, <1>2 DEF Prefix
<1>7. Believed /\ AheadAlive
  BY <1>3 DEF Believed, AheadAlive
<1> QED
  BY <1>4, <1>5, <1>6, <1>7 DEF MigrationsInv

(* Reading the version puts a process level with the database.             *)
LEMMA ReadKeepsInv ==
    ASSUME NEW p \in Openers, MigrationsInv, ReadVersion(p)
    PROVE  MigrationsInv'
<1> USE DEF MigrationsInv, ReadVersion
<1>1. PICK k \in 0 .. Newest : versions = 1 .. k
  BY DEF Prefix
<1>2. Newest \in Nat /\ k \in Nat
  BY MigrationsAssumption
<1>3. current' = [current EXCEPT ![p] = k]
  BY <1>1, <1>2, SchemaVersionOfPrefix
<1>4. MigrationsTypeOK'
  BY <1>2, <1>3 DEF MigrationsTypeOK
<1>5. SchemaExact' /\ Prefix'
  BY <1>1 DEF SchemaExact, Prefix
<1>6. Believed'
  <2> SUFFICES ASSUME NEW q \in Openers
               PROVE  /\ opener'[q] \in {"apply", "migrated"} => 1 .. current'[q] \subseteq versions'
                      /\ opener'[q] = "migrated" => current'[q] >= Known[q]
    BY DEF Believed
  <2>1. CASE q = p
    BY <2>1, <1>1, <1>3 DEF MigrationsTypeOK
  <2>2. CASE q # p
    BY <2>2, <1>3 DEF MigrationsTypeOK, Believed
  <2> QED
    BY <2>1, <2>2
<1>7. AheadAlive'
  BY <1>1, <1>2, <1>3 DEF MigrationsTypeOK, AheadAlive
<1> QED
  BY <1>4, <1>5, <1>6, <1>7

(* A migration is applied by a process that is level with the database.    *)
LEMMA ApplyKeepsInv ==
    ASSUME NEW p \in Openers, MigrationsInv, Apply(p)
    PROVE  MigrationsInv'
<1> DEFINE v == current[p] + 1
<1>1. PICK k \in 0 .. Newest : versions = 1 .. k
  BY DEF MigrationsInv, Prefix
<1>2. Newest \in Nat /\ k \in Nat /\ Known[p] \in 0 .. Newest /\ current[p] \in 0 .. Newest
  BY MigrationsAssumption DEF MigrationsInv, MigrationsTypeOK
<1>3. /\ opener[p] = "apply" /\ v <= Known[p] /\ ~Repeated(v)
      /\ executed' = [executed EXCEPT ![v] = @ + 1]
      /\ versions' = versions \cup {v}
      /\ current' = [current EXCEPT ![p] = v]
      /\ opener' = opener /\ disturbed' = disturbed
  BY DEF Apply
<1>4. v \in 1 .. Newest /\ v \notin versions /\ executed[v] = 0
  BY <1>2, <1>3 DEF Repeated, MigrationsInv, MigrationsTypeOK
<1>5. 1 .. current[p] \subseteq versions
  BY <1>3 DEF MigrationsInv, Believed
<1>6. v = k + 1
  <2>1. current[p] <= k
    <3>1. CASE current[p] = 0
      BY <3>1, <1>2
    <3>2. CASE current[p] # 0
      BY <3>2, <1>1, <1>2, <1>5
    <3> QED
      BY <3>1, <3>2
  <2>2. ~(v <= k)
    BY <1>1, <1>2, <1>4
  <2> QED
    BY <2>1, <2>2, <1>2
<1>7. versions' = 1 .. k + 1
  BY <1>1, <1>2, <1>3, <1>6
<1>8. MigrationsTypeOK'
  <2>1. /\ executed \in [1 .. Newest -> Nat]
        /\ versions \subseteq 1 .. Newest
        /\ opener \in [Openers -> {"read", "apply", "migrated", "failed"}]
        /\ current \in [Openers -> 0 .. Newest]
        /\ disturbed \in BOOLEAN
    BY DEF MigrationsInv, MigrationsTypeOK
  <2>2. executed' \in [1 .. Newest -> Nat]
    BY <2>1, <1>3, <1>4
  <2>3. versions' \subseteq 1 .. Newest
    BY <2>1, <1>3, <1>4
  <2>4. current' \in [Openers -> 0 .. Newest]
    <3>1. v \in 0 .. Newest
      BY <1>2, <1>4
    <3> QED
      BY <2>1, <1>3, <3>1
  <2> QED
    BY <2>1, <2>2, <2>3, <2>4, <1>3 DEF MigrationsTypeOK
<1>9. SchemaExact'
  <2>1. \A w \in 1 .. Newest : executed'[w] = IF w \in versions' THEN 1 ELSE 0
    BY <1>2, <1>3, <1>4 DEF MigrationsInv, MigrationsTypeOK, SchemaExact
  <2>2. \A w \in versions' : 1 .. w \subseteq versions'
    BY <1>7, <1>2
  <2> QED
    BY <2>1, <2>2 DEF SchemaExact
<1>10. Prefix'
  BY <1>2, <1>4, <1>6, <1>7 DEF Prefix
<1>11. Believed'
  <2> SUFFICES ASSUME NEW q \in Openers
               PROVE  /\ opener'[q] \in {"apply", "migrated"} => 1 .. current'[q] \subseteq versions'
                      /\ opener'[q] = "migrated" => current'[q] >= Known[q]
    BY DEF Believed
  <2>1. CASE q = p
    BY <2>1, <1>2, <1>3, <1>6, <1>7 DEF MigrationsInv, MigrationsTypeOK
  <2>2. CASE q # p
    BY <2>2, <1>3 DEF MigrationsInv, MigrationsTypeOK, Believed
  <2> QED
    BY <2>1, <2>2
<1>12. AheadAlive'
  <2>1. current'[p] + 1 \notin versions'
    BY <1>2, <1>3, <1>6, <1>7 DEF MigrationsInv, MigrationsTypeOK
  <2> QED
    BY <2>1, <1>3 DEF AheadAlive
<1> QED
  BY <1>8, <1>9, <1>10, <1>11, <1>12 DEF MigrationsInv

(* A process fails because another has gone ahead, which has not failed.   *)
LEMMA ApplyFailsKeepsInv ==
    ASSUME NEW p \in Openers, MigrationsInv, ApplyFails(p)
    PROVE  MigrationsInv'
<1> DEFINE v == current[p] + 1
<1>1. /\ opener[p] = "apply" /\ v <= Known[p] /\ Repeated(v)
      /\ opener' = [opener EXCEPT ![p] = "failed"]
      /\ UNCHANGED <<executed, versions, current, disturbed>>
  BY DEF ApplyFails
<1>2. Newest \in Nat /\ Known[p] \in 0 .. Newest /\ current[p] \in 0 .. Newest
  BY MigrationsAssumption DEF MigrationsInv, MigrationsTypeOK
<1>3. v \in versions
  BY <1>1, <1>2 DEF Repeated, MigrationsInv, SchemaExact
<1>4. MigrationsTypeOK' /\ SchemaExact' /\ Prefix'
  BY <1>1 DEF MigrationsInv, MigrationsTypeOK, SchemaExact, Prefix
<1>5. Believed'
  BY <1>1 DEF MigrationsInv, MigrationsTypeOK, Believed
<1>6. AheadAlive'
  <2> SUFFICES ASSUME ~disturbed
               PROVE  \E q \in Openers : /\ opener'[q] \in {"apply", "migrated"}
                                         /\ current'[q] + 1 \notin versions'
    BY <1>1 DEF AheadAlive
  <2>1. PICK q \in Openers : opener[q] \in {"apply", "migrated"} /\ current[q] + 1 \notin versions
    BY <1>1 DEF MigrationsInv, AheadAlive
  <2>2. q # p
    BY <2>1, <1>3
  <2>3. opener'[q] = opener[q]
    BY <2>2, <1>1 DEF MigrationsInv, MigrationsTypeOK
  <2> QED
    BY <2>1, <2>3, <1>1
<1> QED
  BY <1>4, <1>5, <1>6 DEF MigrationsInv

LEMMA ReturnKeepsInv ==
    ASSUME NEW p \in Openers, MigrationsInv, Return(p)
    PROVE  MigrationsInv'
<1>1. /\ opener[p] = "apply" /\ current[p] >= Known[p]
      /\ opener' = [opener EXCEPT ![p] = "migrated"]
      /\ UNCHANGED <<executed, versions, current, disturbed>>
  BY DEF Return
<1>2. MigrationsTypeOK' /\ SchemaExact' /\ Prefix'
  BY <1>1 DEF MigrationsInv, MigrationsTypeOK, SchemaExact, Prefix
<1>3. Believed'
  BY <1>1 DEF MigrationsInv, MigrationsTypeOK, Believed
<1>4. AheadAlive'
  BY <1>1 DEF MigrationsInv, MigrationsTypeOK, AheadAlive
<1> QED
  BY <1>2, <1>3, <1>4 DEF MigrationsInv

LEMMA DisturbKeepsInv ==
    ASSUME NEW p \in Openers, MigrationsInv, Disturb(p)
    PROVE  MigrationsInv'
<1>1. /\ opener' = [opener EXCEPT ![p] = "failed"] /\ disturbed' = TRUE
      /\ UNCHANGED <<executed, versions, current>>
  BY DEF Disturb
<1>2. MigrationsTypeOK' /\ SchemaExact' /\ Prefix' /\ AheadAlive'
  BY <1>1 DEF MigrationsInv, MigrationsTypeOK, SchemaExact, Prefix, AheadAlive
<1>3. Believed'
  BY <1>1 DEF MigrationsInv, MigrationsTypeOK, Believed
<1> QED
  BY <1>2, <1>3 DEF MigrationsInv

LEMMA NextKeepsMigrationsInv ==
    MigrationsInv /\ [MigrateNext]_migrationVars => MigrationsInv'
<1> SUFFICES ASSUME MigrationsInv, [MigrateNext]_migrationVars PROVE MigrationsInv'
  OBVIOUS
<1>1. ASSUME NEW p \in Openers, Migrate(p) PROVE MigrationsInv'
  BY <1>1, ReadKeepsInv, ApplyKeepsInv, ApplyFailsKeepsInv, ReturnKeepsInv, DisturbKeepsInv
     DEF Migrate
<1>2. CASE UNCHANGED migrationVars
  BY <1>2 DEF migrationVars, MigrationsInv, MigrationsTypeOK, SchemaExact, Prefix, Believed,
              AheadAlive
<1> QED
  BY <1>1, <1>2 DEF MigrateNext

LEMMA MigrationsInvHolds == MigrateSpec => []MigrationsInv
<1> QED
  BY InitMigrationsInv, NextKeepsMigrationsInv, PTL DEF MigrateSpec

(* The variables of Store.Migrate keep their types.                        *)
THEOREM MigrationsTypeCorrect == MigrateSpec => []MigrationsTypeOK
<1>1. MigrationsInv => MigrationsTypeOK
  BY DEF MigrationsInv
<1> QED
  BY <1>1, MigrationsInvHolds, PTL

(* However many processes of whichever releases run Store.Migrate at once, *)
(* each migration takes effect with its row, once, and none is skipped.    *)
THEOREM SchemaIsExact == MigrateSpec => []SchemaExact
<1>1. MigrationsInv => SchemaExact
  BY DEF MigrationsInv
<1> QED
  BY <1>1, MigrationsInvHolds, PTL

(* When Store.Migrate succeeds all the tables its release needs are there. *)
THEOREM MigratedDatabaseIsWhole == MigrateSpec => []MigratedIsWhole
<1>1. MigrationsInv => MigratedIsWhole
  <2> SUFFICES ASSUME MigrationsInv, NEW p \in Openers, opener[p] = "migrated"
               PROVE  1 .. Known[p] \subseteq versions
    BY DEF MigratedIsWhole
  <2>1. 1 .. current[p] \subseteq versions /\ current[p] >= Known[p]
    BY DEF MigrationsInv, Believed
  <2>2. current[p] \in Nat /\ Known[p] \in Nat
    BY MigrationsAssumption DEF MigrationsInv, MigrationsTypeOK
  <2> QED
    BY <2>1, <2>2
<1> QED
  BY <1>1, MigrationsInvHolds, PTL

(* The race for a migration has a winner: a process of Store.Migrate fails *)
(* for lack of time or a crash, or because another is ahead and alive.     *)
THEOREM RaceHasAWinner == MigrateSpec => []OneGetsThrough
<1>1. MigrationsInv => OneGetsThrough
  BY DEF MigrationsInv, AheadAlive, OneGetsThrough
<1> QED
  BY <1>1, MigrationsInvHolds, PTL
===============================================================================
