--------------------------- MODULE ExperimentProofs ---------------------------
(***************************************************************************)
(* Proofs about Experiment, for any commands, arms, tasks, repeats and     *)
(* faults: the types, the store's properties (what names a run's profile,  *)
(* what a truncated run reads as, what Ctrl-C leaves), and what the plan   *)
(* makes of the runs (however a command ends its arms have been compared   *)
(* on equal terms, and one that completes has run the whole plan).         *)
(***************************************************************************)
EXTENDS Experiment, FiniteSetTheorems, TLAPS

(***************************************************************************)
(* The plan                                                                *)
(***************************************************************************)

(* The plan of a command has at least one step, each for one of its arms   *)
(* and one of its tasks.                                                   *)
LEMMA PlanLenNat ==
    ASSUME NEW c \in Commands PROVE PlanLen(c) \in Nat
<1>1. Len(Tasks[c]) \in Nat /\ Len(Arms[c]) \in Nat /\ Repeat[c] \in Nat
  BY ExperimentAssumption
<1>2. ASSUME NEW i \in Nat, NEW j \in Nat PROVE i * j \in Nat
  OBVIOUS
<1>3. Len(Tasks[c]) * Len(Arms[c]) \in Nat
  BY <1>1, <1>2
<1> QED
  BY <1>1, <1>2, <1>3 DEF PlanLen

LEMMA ArmOfStep ==
    ASSUME NEW c \in Commands, NEW n \in Nat \ {0}
    PROVE  PlanStep(c, n).arm \in ToSet(Arms[c])
<1> DEFINE a == Len(Arms[c])
<1>1. a \in Nat \ {0} /\ DOMAIN Arms[c] = 1 .. a
  BY ExperimentAssumption
<1>2. n - 1 \in Nat
  OBVIOUS
<1>3. ((n - 1) % a) + 1 \in 1 .. a
  <2> HIDE DEF a
  <2> QED BY <1>1, <1>2
<1>4. PlanStep(c, n).arm = Arms[c][((n - 1) % a) + 1]
  BY DEF PlanStep
<1> QED
  BY <1>1, <1>3, <1>4 DEF ToSet

LEMMA DivBound ==
    ASSUME NEW m \in Nat \ {0}, NEW t \in Nat, NEW k \in Nat, k < t * m
    PROVE  k \div m \in Nat /\ k \div m < t
<1>1. (k \div m) * m <= k /\ k \div m \in Nat
  OBVIOUS
<1>2. ASSUME t <= k \div m PROVE FALSE
  <2>1. PICK d \in Nat : k \div m = t + d
    BY <1>1, <1>2
  <2>2. (k \div m) * m = t * m + d * m
    BY <2>1
  <2>3. d * m \in Nat /\ t * m \in Nat
    OBVIOUS
  <2> QED
    BY <1>1, <2>2, <2>3
<1> QED
  BY <1>1, <1>2

LEMMA TaskOfStep ==
    ASSUME NEW c \in Commands, NEW n \in 1 .. PlanLen(c)
    PROVE  PlanStep(c, n).task \in ToSet(Tasks[c])
<1> DEFINE a == Len(Arms[c])
           r == Repeat[c]
           t == Len(Tasks[c])
<1>1. /\ a \in Nat \ {0} /\ r \in Nat \ {0} /\ t \in Nat
      /\ DOMAIN Tasks[c] = 1 .. t
  BY ExperimentAssumption
<1>2. PlanLen(c) = (t * a) * r
  BY DEF PlanLen
<1>3. PlanStep(c, n).task = Tasks[c][((n - 1) \div (a * r)) + 1]
  BY DEF PlanStep
<1>4. PlanLen(c) \in Nat
  BY PlanLenNat
<1> HIDE DEF a, r, t
<1>5. (t * a) * r = t * (a * r) /\ a * r \in Nat \ {0}
  BY <1>1
<1>6. n - 1 \in Nat /\ n - 1 < t * (a * r)
  BY <1>2, <1>4, <1>5
<1>7. (n - 1) \div (a * r) \in Nat /\ (n - 1) \div (a * r) < t
  BY <1>1, <1>5, <1>6, DivBound
<1>8. ((n - 1) \div (a * r)) + 1 \in DOMAIN Tasks[c]
  BY <1>1, <1>7
<1> QED
  BY <1>3, <1>8 DEF ToSet

(***************************************************************************)
(* Frames: a step of one command leaves the others' locals alone.          *)
(***************************************************************************)

Functions ==
    /\ pc \in [Commands -> PCs]
    /\ arm \in [Commands -> Nat] /\ step \in [Commands -> Nat]
    /\ DOMAIN identity = Commands
    /\ outcome \in [Commands -> AllOutcomes \cup {"none"}]
    /\ ctx \in [Commands -> {"live", "cancelled"}]
    /\ atCancel \in [Commands -> Nat]

Act(c) == Advance(c) \/ StoreFails(c) \/ Cancel(c) \/ Crash(c)

LEMMA NextAct == [Next]_vars => UNCHANGED vars \/ \E c \in Commands : Act(c)
  BY DEF Next, Act

SameLocals(d) ==
    /\ pc'[d] = pc[d] /\ arm'[d] = arm[d] /\ identity'[d] = identity[d]
    /\ step'[d] = step[d] /\ outcome'[d] = outcome[d] /\ ctx'[d] = ctx[d]
    /\ atCancel'[d] = atCancel[d]

LEMMA Others ==
    ASSUME Functions, NEW c \in Commands, Act(c), NEW d \in Commands, d # c
    PROVE  SameLocals(d)
<1> USE DEF SameLocals, Functions, Goto
<1>1. CASE Cancel(c)
  BY <1>1 DEF Cancel
<1>2. CASE Crash(c)
  BY <1>2 DEF Crash
<1>3. CASE StoreFails(c)
  BY <1>3 DEF StoreFails
<1>4. CASE InsertExperiment(c)
  BY <1>4 DEF InsertExperiment
<1>5. CASE LookUp(c)
  BY <1>5 DEF LookUp
<1>6. CASE InsertProfile(c)
  BY <1>6 DEF InsertProfile
<1>7. CASE InsertArm(c)
  BY <1>7 DEF InsertArm
<1>8. CASE NextStep(c)
  BY <1>8 DEF NextStep
<1>9. CASE Execute(c)
  BY <1>9 DEF Execute
<1>10. CASE RunError(c)
  BY <1>10 DEF RunError
<1>11. CASE InsertSuite(c)
  BY <1>11 DEF InsertSuite
<1>12. CASE InsertTask(c)
  BY <1>12 DEF InsertTask
<1>13. CASE InsertRun(c)
  BY <1>13 DEF InsertRun
<1>14. CASE InsertRunMetrics(c)
  BY <1>14 DEF InsertRunMetrics
<1>15. CASE InsertRunValidations(c)
  BY <1>15 DEF InsertRunValidations
<1>16. CASE Recorded(c)
  BY <1>16 DEF Recorded
<1> QED
  BY <1>1, <1>2, <1>3, <1>4, <1>5, <1>6, <1>7, <1>8, <1>9, <1>10, <1>11, <1>12, <1>13, <1>14, <1>15, <1>16 DEF Act, Advance

(* Rows are never removed or changed.                                      *)
LEMMA TablesGrow ==
    ASSUME NEW c \in Commands, Act(c)
    PROVE  profiles \subseteq profiles' /\ arms \subseteq arms' /\ runs \subseteq runs'
<1> USE DEF tables
<1>1. CASE Cancel(c)
  BY <1>1 DEF Cancel
<1>2. CASE Crash(c)
  BY <1>2 DEF Crash
<1>3. CASE StoreFails(c)
  BY <1>3 DEF StoreFails
<1>4. CASE InsertExperiment(c)
  BY <1>4 DEF InsertExperiment
<1>5. CASE LookUp(c)
  BY <1>5 DEF LookUp
<1>6. CASE InsertProfile(c)
  BY <1>6 DEF InsertProfile
<1>7. CASE InsertArm(c)
  BY <1>7 DEF InsertArm
<1>8. CASE NextStep(c)
  BY <1>8 DEF NextStep
<1>9. CASE Execute(c)
  BY <1>9 DEF Execute
<1>10. CASE RunError(c)
  BY <1>10 DEF RunError
<1>11. CASE InsertSuite(c)
  BY <1>11 DEF InsertSuite
<1>12. CASE InsertTask(c)
  BY <1>12 DEF InsertTask
<1>13. CASE InsertRun(c)
  BY <1>13 DEF InsertRun
<1>14. CASE InsertRunMetrics(c)
  BY <1>14 DEF InsertRunMetrics
<1>15. CASE InsertRunValidations(c)
  BY <1>15 DEF InsertRunValidations
<1>16. CASE Recorded(c)
  BY <1>16 DEF Recorded
<1> QED
  BY <1>1, <1>2, <1>3, <1>4, <1>5, <1>6, <1>7, <1>8, <1>9, <1>10, <1>11, <1>12, <1>13, <1>14, <1>15, <1>16 DEF Act, Advance

(***************************************************************************)
(* Types                                                                   *)
(***************************************************************************)

(* TypeOK, by parts.                                                       *)
Hashes == UNION {Range(Hash[c]) : c \in Commands}
PlainRows ==
    /\ experiments \subseteq Commands /\ suites \in BOOLEAN
    /\ tasks \subseteq UNION {ToSet(Tasks[c]) : c \in Commands}
ProfileRows == \A p \in profiles : p \in [id : Ids, hash : Hashes]
ArmRow(a) == a.cmd \in Commands /\ a.label \in ToSet(Arms[a.cmd]) /\ a.profile \in Ids
RunRow(r) == /\ r.cmd \in Commands /\ r.step \in Steps(r.cmd)
             /\ r.profile \in Ids /\ r.status \in {"passed", "failed", "error"}
DetailRow(m) == m.cmd \in Commands /\ m.step \in Steps(m.cmd)

Rows == /\ PlainRows /\ ProfileRows
        /\ \A a \in arms : ArmRow(a)
        /\ \A r \in runs : RunRow(r)
        /\ \A m \in metrics \cup validations : DetailRow(m)

Ranges(c) ==
    /\ 1 <= arm[c] /\ arm[c] <= Len(Arms[c])
    /\ identity[c] \in [ToSet(Arms[c]) -> Ids \cup {<<>>}]
    /\ 1 <= step[c] /\ step[c] <= PlanLen(c) + 1

Started == {"running", "suite row", "task row", "run row", "metrics rows",
            "validations rows", "recorded"}

(* A fresh id is inserted only for the arm it was made for, and a step     *)
(* under way is one of the plan's.                                         *)
Place(c) ==
    /\ pc[c] = "insert profile" => identity[c][Label(c)] = FreshId(c, Label(c))
    /\ pc[c] \in Started => step[c] <= PlanLen(c)

TInv == Rows /\ Functions /\ \A c \in Commands : Ranges(c) /\ Place(c)

LEMMA TInvTypes == TInv => TypeOK
<1> SUFFICES ASSUME TInv PROVE TypeOK
  OBVIOUS
<1>1. ASSUME NEW c \in Commands
      PROVE  /\ arm[c] \in 1 .. Len(Arms[c])
             /\ identity[c] \in [ToSet(Arms[c]) -> Ids \cup {<<>>}]
             /\ step[c] \in 1 .. PlanLen(c) + 1
  <2>1. Len(Arms[c]) \in Nat /\ PlanLen(c) \in Nat
    BY PlanLenNat, ExperimentAssumption
  <2>2. arm[c] \in Nat /\ step[c] \in Nat /\ Ranges(c)
    BY DEF TInv, Functions
  <2> QED
    BY <2>1, <2>2 DEF Ranges
<1> QED
  BY <1>1 DEF TInv, TypeOK, Rows, Functions, Hashes, PlainRows, ProfileRows,
              ArmRow, RunRow, DetailRow

LEMMA LabelOfArm ==
    ASSUME NEW c \in Commands, arm[c] \in Nat, Ranges(c)
    PROVE  Label(c) \in ToSet(Arms[c])
<1>1. Len(Arms[c]) \in Nat /\ DOMAIN Arms[c] = 1 .. Len(Arms[c])
  BY ExperimentAssumption
<1>2. arm[c] \in DOMAIN Arms[c]
  BY <1>1 DEF Ranges
<1> QED
  BY <1>2 DEF Label, ToSet

(* The little arithmetic the steps need.                                   *)
LEMMA Succ ==
    \A n \in Nat : n + 1 \in Nat /\ 1 <= n + 1 /\ (1 <= n => n - 1 \in Nat)
  OBVIOUS

LEMMA Bound ==
    \A n, m \in Nat : /\ n <= m => n + 1 <= m + 1
                      /\ n < m => n + 1 <= m
                      /\ ~(n > m) => n <= m
  OBVIOUS

LEMMA TInit == Init => TInv
<1> SUFFICES ASSUME Init PROVE TInv
  OBVIOUS
<1>1. Rows
  BY DEF Init, Rows, PlainRows, ProfileRows
<1>2. Functions
  BY DEF Init, Functions, PCs
<1>3. ASSUME NEW c \in Commands PROVE Ranges(c) /\ Place(c)
  <2>1. Len(Arms[c]) \in Nat \ {0} /\ PlanLen(c) \in Nat
    BY ExperimentAssumption, PlanLenNat
  <2>2. /\ arm[c] = 1 /\ step[c] = 1
        /\ identity[c] = [l \in ToSet(Arms[c]) |-> <<>>]
        /\ pc[c] \in {"look up", "experiment"}
    BY DEF Init
  <2>3. 1 <= 1 /\ 1 <= Len(Arms[c]) /\ 1 <= PlanLen(c) + 1
    BY <2>1
  <2>4. [l \in ToSet(Arms[c]) |-> <<>>] \in [ToSet(Arms[c]) -> Ids \cup {<<>>}]
    OBVIOUS
  <2>5. Ranges(c)
    BY <2>2, <2>3, <2>4, Zenon DEF Ranges
  <2>6. Place(c)
    BY <2>2 DEF Place, Started
  <2> QED
    BY <2>5, <2>6
<1> QED
  BY <1>1, <1>2, <1>3 DEF TInv

LEMMA FunctionsStep ==
    ASSUME TInv, NEW c \in Commands, Act(c) PROVE Functions'
<1> USE DEF Functions, Goto, PCs
<1>0. Functions /\ arm[c] \in Nat /\ step[c] \in Nat /\ 1 <= step[c]
  BY DEF TInv, Ranges
<1>1. CASE Cancel(c)
  <2>1. step[c] - 1 \in Nat
    BY <1>0, Succ, Zenon
  <2> QED
    BY <1>1, <1>0, <2>1 DEF Cancel
<1>2. CASE Crash(c)
  BY <1>2, <1>0 DEF Crash
<1>3. CASE StoreFails(c)
  BY <1>3, <1>0 DEF StoreFails
<1>4. CASE InsertExperiment(c)
  BY <1>4, <1>0 DEF InsertExperiment
<1>5. CASE LookUp(c)
  BY <1>5, <1>0 DEF LookUp, AfterProfile
<1>6. CASE InsertProfile(c)
  BY <1>6, <1>0 DEF InsertProfile, AfterProfile
<1>7. CASE InsertArm(c)
  <2>1. arm[c] + 1 \in Nat
    BY <1>0, Succ, Zenon
  <2> QED
    BY <1>7, <1>0, <2>1 DEF InsertArm
<1>8. CASE NextStep(c)
  BY <1>8, <1>0 DEF NextStep
<1>9. CASE Execute(c)
  <2>1. Outcomes[c] \subseteq AllOutcomes
    BY ExperimentAssumption
  <2> QED
    BY <1>9, <1>0, <2>1 DEF Execute
<1>10. CASE RunError(c)
  BY <1>10, <1>0 DEF RunError
<1>11. CASE InsertSuite(c)
  BY <1>11, <1>0 DEF InsertSuite
<1>12. CASE InsertTask(c)
  BY <1>12, <1>0 DEF InsertTask
<1>13. CASE InsertRun(c)
  BY <1>13, <1>0 DEF InsertRun
<1>14. CASE InsertRunMetrics(c)
  BY <1>14, <1>0 DEF InsertRunMetrics
<1>15. CASE InsertRunValidations(c)
  BY <1>15, <1>0 DEF InsertRunValidations
<1>16. CASE Recorded(c)
  <2>1. step[c] + 1 \in Nat
    BY <1>0, Succ, Zenon
  <2> QED
    BY <1>16, <1>0, <2>1 DEF Recorded
<1> QED
  BY <1>1, <1>2, <1>3, <1>4, <1>5, <1>6, <1>7, <1>8, <1>9, <1>10, <1>11, <1>12, <1>13, <1>14, <1>15, <1>16 DEF Act, Advance

LEMMA LocalStep ==
    ASSUME TInv, NEW c \in Commands, Act(c) PROVE Ranges(c)' /\ Place(c)'
<1> USE DEF Ranges, Place, Started, Goto, Label
<1>a. Functions /\ Ranges(c) /\ Place(c) /\ arm[c] \in Nat /\ step[c] \in Nat
  BY DEF TInv, Functions
<1>b. Len(Arms[c]) \in Nat
  BY ExperimentAssumption
<1>c. PlanLen(c) \in Nat /\ Label(c) \in ToSet(Arms[c])
  BY <1>a, PlanLenNat, LabelOfArm
<1>0. /\ Functions /\ Ranges(c) /\ Place(c) /\ arm[c] \in Nat /\ step[c] \in Nat
      /\ PlanLen(c) \in Nat /\ Len(Arms[c]) \in Nat
      /\ Label(c) \in ToSet(Arms[c])
  BY <1>a, <1>b, <1>c
<1> USE DEF Functions
<1>1. CASE Cancel(c)
  BY <1>1, <1>0 DEF Cancel
<1>2. CASE Crash(c)
  BY <1>2, <1>0 DEF Crash
<1>3. CASE StoreFails(c)
  BY <1>3, <1>0 DEF StoreFails, tables
<1>4. CASE InsertExperiment(c)
  BY <1>4, <1>0 DEF InsertExperiment
<1>5. CASE LookUp(c)
  <2>1. PICK id \in Ids :
          /\ identity' = [identity EXCEPT ![c][Label(c)] = id]
          /\ pc'[c] = "insert profile" => id = FreshId(c, Label(c))
    <3>1. FreshId(c, Label(c)) \in Ids
      <4> DEFINE l == Label(c)
      <4>1. l \in UNION {ToSet(Arms[k]) : k \in Commands}
        BY <1>0
      <4> HIDE DEF l
      <4>2. FreshId(c, l) \in Ids
        BY <4>1 DEF Ids
      <4> QED
        BY <4>2 DEF l
    <3>2. \A p \in profiles : p.id \in Ids
      BY DEF TInv, Rows, ProfileRows
    <3> QED
      BY <1>5, <1>0, <3>1, <3>2 DEF LookUp, AfterProfile
  <2>2. identity'[c] = [identity[c] EXCEPT ![Label(c)] = id]
    BY <1>0, <2>1
  <2>3. /\ pc'[c] \notin Started /\ arm'[c] = arm[c] /\ step'[c] = step[c]
        /\ Label(c)' = Label(c)
    BY <1>5, <1>0 DEF LookUp, AfterProfile
  <2> QED
    BY <1>0, <2>1, <2>2, <2>3
<1>6. CASE InsertProfile(c)
  BY <1>6, <1>0 DEF InsertProfile, AfterProfile
<1>7. CASE InsertArm(c)
  <2>1. arm[c] < Len(Arms[c]) => 1 <= arm[c] + 1 /\ arm[c] + 1 <= Len(Arms[c])
    BY <1>0, Succ, Bound, Zenon
  <2>2. /\ \/ arm'[c] = arm[c]
           \/ arm[c] < Len(Arms[c]) /\ arm'[c] = arm[c] + 1
        /\ identity'[c] = identity[c] /\ step'[c] = step[c]
        /\ pc'[c] \in {"look up", "next step", "error"}
    <3>0. identity' = identity /\ step' = step
      BY <1>7 DEF InsertArm
    <3>1. CASE arm' = arm /\ pc'[c] \in {"look up", "next step", "error"}
      <4>1. identity'[c] = identity[c] /\ step'[c] = step[c]
        BY <3>0
      <4>2. arm'[c] = arm[c]
        BY <3>1
      <4> QED
        BY <3>1, <4>1, <4>2, Zenon
    <3>2. CASE /\ arm[c] < Len(Arms[c]) /\ arm' = [arm EXCEPT ![c] = arm[c] + 1]
               /\ Goto(c, "look up")
      BY <3>0, <3>2, <1>0
    <3>3. \/ Goto(c, "next step") /\ arm' = arm
          \/ Goto(c, "error") /\ arm' = arm
          \/ /\ arm[c] < Len(Arms[c]) /\ arm' = [arm EXCEPT ![c] = arm[c] + 1]
             /\ Goto(c, "look up")
      BY <1>7, Zenon DEF InsertArm
    <3> QED
      BY <3>1, <3>2, <3>3, <1>0
  <2> QED
    BY <1>0, <2>1, <2>2
<1>8. CASE NextStep(c)
  <2>1. ~(step[c] > PlanLen(c)) => step[c] <= PlanLen(c)
    BY <1>0, Bound, Zenon
  <2>2. /\ arm'[c] = arm[c] /\ identity'[c] = identity[c] /\ step'[c] = step[c]
        /\ pc'[c] \in {"done", "running", "error"}
        /\ pc'[c] = "running" => ~(step[c] > PlanLen(c))
    BY <1>8, <1>0 DEF NextStep
  <2> QED
    BY <1>0, <2>1, <2>2
<1>9. CASE Execute(c)
  BY <1>9, <1>0 DEF Execute
<1>10. CASE RunError(c)
  BY <1>10, <1>0 DEF RunError
<1>11. CASE InsertSuite(c)
  BY <1>11, <1>0 DEF InsertSuite
<1>12. CASE InsertTask(c)
  BY <1>12, <1>0 DEF InsertTask
<1>13. CASE InsertRun(c)
  BY <1>13, <1>0 DEF InsertRun
<1>14. CASE InsertRunMetrics(c)
  BY <1>14, <1>0 DEF InsertRunMetrics
<1>15. CASE InsertRunValidations(c)
  BY <1>15, <1>0 DEF InsertRunValidations
<1>16. CASE Recorded(c)
  <2>1. 1 <= step[c] + 1 /\ (step[c] <= PlanLen(c) => step[c] + 1 <= PlanLen(c) + 1)
    BY <1>0, Succ, Bound, Zenon
  <2>2. /\ arm'[c] = arm[c] /\ identity'[c] = identity[c]
        /\ step'[c] = step[c] + 1 /\ pc[c] = "recorded"
        /\ pc'[c] \in {"next step", "error"}
    BY <1>16, <1>0 DEF Recorded
  <2> QED
    BY <1>0, <2>1, <2>2
<1> QED
  BY <1>1, <1>2, <1>3, <1>4, <1>5, <1>6, <1>7, <1>8, <1>9, <1>10, <1>11, <1>12, <1>13, <1>14, <1>15, <1>16 DEF Act, Advance

LEMMA RowsStep ==
    ASSUME TInv, NEW c \in Commands, Act(c) PROVE Rows'
<1> USE DEF Rows, PlainRows, ProfileRows
<1>a. Rows /\ Functions /\ Ranges(c) /\ Place(c) /\ arm[c] \in Nat /\ step[c] \in Nat
  BY DEF TInv, Functions
<1>b. Label(c) \in ToSet(Arms[c])
  BY <1>a, LabelOfArm
<1>c. ASSUME pc[c] \in Started PROVE step[c] \in Steps(c)
  <2>1. PlanLen(c) \in Nat /\ 1 <= step[c] /\ step[c] <= PlanLen(c)
    BY <1>a, <1>c, PlanLenNat DEF Ranges, Place
  <2> QED
    BY <1>a, <2>1 DEF Steps
<1>d. ProfileIds \subseteq Ids
  BY <1>a DEF ProfileIds
<1>1. CASE Cancel(c)
  BY <1>1, <1>a DEF Cancel, tables
<1>2. CASE Crash(c)
  BY <1>2, <1>a DEF Crash, tables
<1>3. CASE StoreFails(c)
  BY <1>3, <1>a DEF StoreFails, tables
<1>4. CASE InsertExperiment(c)
  BY <1>4, <1>a DEF InsertExperiment, tables
<1>5. CASE LookUp(c)
  BY <1>5, <1>a DEF LookUp, tables
<1>6. CASE InsertProfile(c)
  <2> DEFINE row == [id |-> identity[c][Label(c)], hash |-> Hash[c][Label(c)]]
  <2>1. identity[c][Label(c)] \in Ids
    <3> DEFINE l == Label(c)
    <3>1. l \in UNION {ToSet(Arms[k]) : k \in Commands}
      BY <1>b
    <3>2. identity[c][l] = FreshId(c, l)
      BY <1>6, <1>a DEF InsertProfile, Place
    <3> HIDE DEF l
    <3>3. identity[c][l] \in Ids
      BY <3>1, <3>2 DEF Ids
    <3> QED
      BY <3>3 DEF l
  <2>2. Hash[c][Label(c)] \in Hashes
    BY <1>b, ExperimentAssumption DEF Range, Hashes
  <2>3. row \in [id : Ids, hash : Hashes]
    BY <2>1, <2>2
  <2>4. profiles' = profiles \/ profiles' = profiles \cup {row}
    BY <1>6 DEF InsertProfile
  <2> HIDE DEF row
  <2>5. \A p \in profiles' : p \in [id : Ids, hash : Hashes]
    BY <1>a, <2>3, <2>4
  <2> QED
    BY <1>6, <1>a, <2>5 DEF InsertProfile
<1>7. CASE InsertArm(c)
  <2> DEFINE row == [cmd |-> c, label |-> Label(c), profile |-> identity[c][Label(c)]]
  <2>1. arms' = arms \/ (identity[c][Label(c)] \in ProfileIds /\ arms' = arms \cup {row})
    BY <1>7 DEF InsertArm
  <2>2. identity[c][Label(c)] \in ProfileIds => ArmRow(row)
    BY <1>b, <1>d DEF ArmRow
  <2> HIDE DEF row
  <2>3. \A a \in arms' : ArmRow(a)
    BY <1>a, <2>1, <2>2
  <2> QED
    BY <1>7, <1>a, <2>3 DEF InsertArm
<1>8. CASE NextStep(c)
  BY <1>8, <1>a DEF NextStep, tables
<1>9. CASE Execute(c)
  BY <1>9, <1>a DEF Execute, tables
<1>10. CASE RunError(c)
  BY <1>10, <1>a DEF RunError, tables
<1>11. CASE InsertSuite(c)
  BY <1>11, <1>a DEF InsertSuite, tables
<1>12. CASE InsertTask(c)
  <2>1. PlanStep(c, step[c]).task \in ToSet(Tasks[c])
    BY <1>12, <1>c, TaskOfStep DEF InsertTask, Steps, Started
  <2>2. tasks' = tasks \cup {PlanStep(c, step[c]).task}
    BY <1>12 DEF InsertTask
  <2>3. tasks' \subseteq UNION {ToSet(Tasks[d]) : d \in Commands}
    BY <1>a, <2>1, <2>2
  <2> QED
    BY <1>12, <1>a, <2>3 DEF InsertTask
<1>13. CASE InsertRun(c)
  <2> DEFINE id == identity[c][PlanStep(c, step[c]).arm]
             row == [cmd |-> c, step |-> step[c], profile |-> id, status |-> Status(c)]
  <2>1. Status(c) \in {"passed", "failed", "error"}
    BY DEF Status
  <2>2. step[c] \in Steps(c)
    BY <1>13, <1>c DEF InsertRun, Started
  <2>3. runs' = runs \/ (id \in ProfileIds /\ runs' = runs \cup {row})
    BY <1>13 DEF InsertRun
  <2>4. id \in ProfileIds => RunRow(row)
    BY <1>d, <2>1, <2>2 DEF RunRow
  <2> HIDE DEF id, row
  <2>5. \A x \in runs' : RunRow(x)
    BY <1>a, <2>3, <2>4
  <2> QED
    BY <1>13, <1>a, <2>5 DEF InsertRun
<1>14. CASE InsertRunMetrics(c)
  <2> DEFINE row == [cmd |-> c, step |-> step[c], success |-> Success(c)]
  <2>1. step[c] \in Steps(c)
    BY <1>14, <1>c DEF InsertRunMetrics, Started
  <2>2. metrics' = metrics \/ metrics' = metrics \cup {row}
    BY <1>14 DEF InsertRunMetrics
  <2>3. DetailRow(row)
    BY <2>1 DEF DetailRow
  <2>4. UNCHANGED <<validations, experiments, profiles, arms, suites, tasks, runs>>
    BY <1>14 DEF InsertRunMetrics
  <2> HIDE DEF row
  <2>5. \A x \in metrics' \cup validations' : DetailRow(x)
    BY <1>a, <2>2, <2>3, <2>4
  <2> QED
    BY <1>a, <2>4, <2>5
<1>15. CASE InsertRunValidations(c)
  <2> DEFINE row == [cmd |-> c, step |-> step[c], failed |-> outcome[c] = "failed"]
  <2>1. step[c] \in Steps(c)
    BY <1>15, <1>c DEF InsertRunValidations, Started
  <2>2. validations' = validations \/ validations' = validations \cup {row}
    BY <1>15 DEF InsertRunValidations
  <2>3. DetailRow(row)
    BY <2>1 DEF DetailRow
  <2>4. UNCHANGED <<metrics, experiments, profiles, arms, suites, tasks, runs>>
    BY <1>15 DEF InsertRunValidations
  <2> HIDE DEF row
  <2>5. \A x \in metrics' \cup validations' : DetailRow(x)
    BY <1>a, <2>2, <2>3, <2>4
  <2> QED
    BY <1>a, <2>4, <2>5
<1>16. CASE Recorded(c)
  BY <1>16, <1>a DEF Recorded, tables
<1> QED
  BY <1>1, <1>2, <1>3, <1>4, <1>5, <1>6, <1>7, <1>8, <1>9, <1>10, <1>11, <1>12, <1>13, <1>14, <1>15, <1>16 DEF Act, Advance

LEMMA TStep == TInv /\ [Next]_vars => TInv'
<1> SUFFICES ASSUME TInv, [Next]_vars PROVE TInv'
  OBVIOUS
<1>1. CASE UNCHANGED vars
  BY <1>1 DEF TInv, Rows, PlainRows, ProfileRows, Functions, Ranges, Place, Label,
              vars, tables, locals
<1>2. ASSUME NEW c \in Commands, Act(c) PROVE TInv'
  <2>1. Rows' /\ Functions'
    BY <1>2, RowsStep, FunctionsStep
  <2>2. ASSUME NEW d \in Commands PROVE Ranges(d)' /\ Place(d)'
    <3>1. CASE d = c
      BY <1>2, <3>1, LocalStep
    <3>2. CASE d # c
      <4>1. SameLocals(d)
        BY <1>2, <3>2, Others DEF TInv
      <4> QED
        BY <4>1 DEF SameLocals, TInv, Ranges, Place, Label
    <3> QED
      BY <3>1, <3>2
  <2> QED
    BY <2>1, <2>2 DEF TInv
<1> QED
  BY <1>1, <1>2, NextAct

LEMMA TInvAlways == Spec => []TInv
  BY TInit, TStep, PTL DEF Spec

(* Every reachable state is well typed.                                    *)
THEOREM TypeCorrect == Spec => []TypeOK
  BY TInvAlways, TInvTypes, PTL

(***************************************************************************)
(* Attribution                                                             *)
(***************************************************************************)

Made(k, l) == [id |-> FreshId(k, l), hash |-> Hash[k][l]]

(* A stored profile is the one some command made for one of its arms.      *)
ProfilesMade ==
    \A p \in profiles : \E k \in Commands : \E l \in ToSet(Arms[k]) : p = Made(k, l)

(* The identity of an arm is not known yet, or fresh (and stored, or not,  *)
(* or never: the race), or that of a stored profile with the arm's hash.   *)
Known(c, l) ==
    \/ identity[c][l] = <<>>
    \/ identity[c][l] = FreshId(c, l)
    \/ [id |-> identity[c][l], hash |-> Hash[c][l]] \in profiles
IdentityKnown(c) == \A l \in ToSet(Arms[c]) : Known(c, l)

(* The row of an arm names the arm's identity, which stays: while the arms *)
(* are being registered only those before the current one have rows.       *)
InArms == {"experiment", "look up", "insert profile", "insert arm"}
ArmsNamed(c) ==
    \A a \in arms : a.cmd = c =>
        /\ a = [cmd |-> c, label |-> a.label, profile |-> identity[c][a.label]]
        /\ pc[c] \in InArms => \E i \in 1 .. Len(Arms[c]) : i < arm[c] /\ a.label = Arms[c][i]

AInv ==
    /\ ProfilesMade
    /\ \A c \in Commands : IdentityKnown(c) /\ ArmsNamed(c)
    /\ AttributedToItsArm

LEMMA FreshIds ==
    \A c, l, k, m : /\ FreshId(c, l) # <<>>
                    /\ FreshId(c, l) = FreshId(k, m) => c = k /\ l = m
<1> SUFFICES ASSUME NEW c, NEW l, NEW k, NEW m
             PROVE  /\ <<c, l>> # <<>>
                    /\ <<c, l>> = <<k, m>> => c = k /\ l = m
  BY DEF FreshId
<1>1. Len(<<c, l>>) = 2 /\ Len(<<>>) = 0
  OBVIOUS
<1>2. <<c, l>>[1] = c /\ <<c, l>>[2] = l /\ <<k, m>>[1] = k /\ <<k, m>>[2] = m
  OBVIOUS
<1> QED
  BY <1>1, <1>2

(* The foreign key is what makes the attribution right: an identity that   *)
(* is some profile's belongs to the profile with the arm's hash.           *)
LEMMA KnownIsStored ==
    ASSUME ProfilesMade, NEW c \in Commands, NEW l \in ToSet(Arms[c]), Known(c, l),
           identity[c][l] \in ProfileIds
    PROVE  [id |-> identity[c][l], hash |-> Hash[c][l]] \in profiles
<1>1. PICK p \in profiles : p.id = identity[c][l]
  BY DEF ProfileIds
<1>2. PICK k \in Commands : \E m \in ToSet(Arms[k]) : p = Made(k, m)
  BY DEF ProfilesMade
<1>2a. PICK m \in ToSet(Arms[k]) : p = Made(k, m)
  BY <1>2
<1>3. p.id = FreshId(k, m) /\ p = [id |-> p.id, hash |-> Hash[k][m]]
  BY <1>2a DEF Made
<1>4. CASE identity[c][l] = <<>>
  BY <1>1, <1>3, <1>4, FreshIds, Zenon
<1>5. CASE identity[c][l] = FreshId(c, l)
  <2>1. k = c /\ m = l
    BY <1>1, <1>3, <1>5, FreshIds, Zenon
  <2> QED
    BY <1>1, <1>3, <2>1
<1> QED
  BY <1>4, <1>5 DEF Known

(* The steps that matter to attribution; every other leaves it alone.      *)
LEMMA Elsewhere ==
    ASSUME Functions, NEW c \in Commands, Act(c),
           ~InsertExperiment(c), ~LookUp(c), ~InsertProfile(c), ~InsertArm(c),
           ~InsertRun(c)
    PROVE  /\ UNCHANGED <<profiles, arms, runs, identity, arm>>
           /\ pc'[c] = pc[c] \/ pc'[c] \notin InArms
<1> USE DEF Functions, Goto, InArms, tables
<1>1. CASE Cancel(c)
  BY <1>1 DEF Cancel
<1>2. CASE Crash(c)
  BY <1>2 DEF Crash
<1>3. CASE StoreFails(c)
  BY <1>3 DEF StoreFails
<1>4. CASE NextStep(c)
  BY <1>4 DEF NextStep
<1>5. CASE Execute(c)
  BY <1>5 DEF Execute
<1>6. CASE RunError(c)
  BY <1>6 DEF RunError
<1>7. CASE InsertSuite(c)
  BY <1>7 DEF InsertSuite
<1>8. CASE InsertTask(c)
  BY <1>8 DEF InsertTask
<1>9. CASE InsertRunMetrics(c)
  BY <1>9 DEF InsertRunMetrics
<1>10. CASE InsertRunValidations(c)
  BY <1>10 DEF InsertRunValidations
<1>11. CASE Recorded(c)
  BY <1>11 DEF Recorded
<1> QED
  BY <1>1, <1>2, <1>3, <1>4, <1>5, <1>6, <1>7, <1>8, <1>9, <1>10, <1>11 DEF Act, Advance

LEMMA AInit == Init => AInv
<1> SUFFICES ASSUME Init PROVE AInv
  OBVIOUS
<1>1. profiles = {} /\ arms = {} /\ runs = {}
  BY DEF Init
<1>2. \A c \in Commands : \A l \in ToSet(Arms[c]) : identity[c][l] = <<>>
  BY DEF Init
<1> QED
  BY <1>1, <1>2 DEF AInv, ProfilesMade, IdentityKnown, Known, ArmsNamed, AttributedToItsArm

(* Rows are never changed, so what a recorded run names stays stored.      *)
LEMMA AttributionKept ==
    ASSUME AttributedToItsArm, profiles \subseteq profiles', arms \subseteq arms',
           runs' = runs
    PROVE  AttributedToItsArm'
  BY DEF AttributedToItsArm

LEMMA KnownKept ==
    ASSUME NEW c \in Commands, IdentityKnown(c), identity'[c] = identity[c],
           profiles \subseteq profiles'
    PROVE  IdentityKnown(c)'
  BY DEF IdentityKnown, Known

LEMMA NamedKept ==
    ASSUME NEW c \in Commands, ArmsNamed(c), identity'[c] = identity[c],
           arm'[c] = arm[c], pc'[c] \in InArms => pc[c] \in InArms,
           \A a \in arms' : a.cmd = c => a \in arms
    PROVE  ArmsNamed(c)'
  BY DEF ArmsNamed

LEMMA LookUpKeeps ==
    ASSUME TInv, AInv, NEW c \in Commands, LookUp(c)
    PROVE  ProfilesMade' /\ IdentityKnown(c)' /\ ArmsNamed(c)'
<1> DEFINE l == Label(c)
<1>1. /\ Functions /\ ArmsNamed(c) /\ IdentityKnown(c) /\ ProfilesMade
      /\ identity[c] \in [ToSet(Arms[c]) -> Ids \cup {<<>>}]
      /\ l \in ToSet(Arms[c])
  BY LabelOfArm DEF TInv, AInv, Functions, Ranges
<1>2. PICK id : /\ identity' = [identity EXCEPT ![c][l] = id]
                /\ id = FreshId(c, l) \/ [id |-> id, hash |-> Hash[c][l]] \in profiles
  <2>1. CASE \E p \in profiles : p.hash = Hash[c][l]
    <3>1. PICK p \in profiles : /\ p.hash = Hash[c][l]
                               /\ identity' = [identity EXCEPT ![c][l] = p.id]
      BY <2>1 DEF LookUp
    <3>2. p = [id |-> p.id, hash |-> p.hash]
      BY <1>1 DEF ProfilesMade, Made
    <3> QED
      BY <3>1, <3>2
  <2>2. CASE ~\E p \in profiles : p.hash = Hash[c][l]
    BY <2>2 DEF LookUp
  <2> QED
    BY <2>1, <2>2
<1>3. UNCHANGED <<profiles, arms, arm>> /\ pc[c] \in InArms
  BY DEF LookUp, tables, InArms
<1> HIDE DEF l
<1>4. /\ identity'[c][l] = id
      /\ \A k \in ToSet(Arms[c]) : k # l => identity'[c][k] = identity[c][k]
  BY <1>1, <1>2 DEF Functions
<1>5. ProfilesMade'
  BY <1>1, <1>3 DEF ProfilesMade, Made
<1>6. IdentityKnown(c)'
  BY <1>1, <1>2, <1>3, <1>4 DEF IdentityKnown, Known
<1>7. ArmsNamed(c)'
  <2>1. SUFFICES ASSUME NEW a \in arms, a.cmd = c
                 PROVE  /\ a = [cmd |-> c, label |-> a.label, profile |-> identity'[c][a.label]]
                        /\ \E i \in 1 .. Len(Arms[c]) : i < arm[c] /\ a.label = Arms[c][i]
    BY <1>3 DEF ArmsNamed
  <2>2. /\ a = [cmd |-> c, label |-> a.label, profile |-> identity[c][a.label]]
        /\ \E i \in 1 .. Len(Arms[c]) : i < arm[c] /\ a.label = Arms[c][i]
    BY <2>1, <1>1, <1>3 DEF ArmsNamed
  <2>3. PICK i \in 1 .. Len(Arms[c]) : i < arm[c] /\ a.label = Arms[c][i]
    BY <2>2
  <2>4. a.label \in ToSet(Arms[c]) /\ a.label # l
    <3>1. /\ Len(Arms[c]) \in Nat /\ DOMAIN Arms[c] = 1 .. Len(Arms[c])
          /\ \A i1, i2 \in DOMAIN Arms[c] : Arms[c][i1] = Arms[c][i2] => i1 = i2
      BY ExperimentAssumption DEF IsInjective
    <3>2. arm[c] \in DOMAIN Arms[c] /\ arm[c] # i
      BY <2>3, <3>1 DEF TInv, Functions, Ranges
    <3>3. l = Arms[c][arm[c]]
      BY DEF l, Label
    <3> QED
      BY <2>3, <3>1, <3>2, <3>3 DEF ToSet
  <2> QED
    BY <2>2, <2>4, <1>4
<1> QED
  BY <1>5, <1>6, <1>7

LEMMA InsertProfileKeeps ==
    ASSUME TInv, AInv, NEW c \in Commands, InsertProfile(c) PROVE ProfilesMade'
<1> DEFINE l == Label(c)
<1>1. l \in ToSet(Arms[c])
  BY LabelOfArm DEF TInv, Functions
<1>2. identity[c][l] = FreshId(c, l)
  BY DEF InsertProfile, TInv, Place
<1>3. profiles' = profiles \/ profiles' = profiles \cup {Made(c, l)}
  BY <1>2 DEF InsertProfile, Made
<1> HIDE DEF l
<1>4. \A k \in Commands : \A m \in ToSet(Arms[k]) : Made(k, m)' = Made(k, m)
  BY DEF Made
<1> QED
  BY <1>1, <1>3, <1>4 DEF AInv, ProfilesMade

LEMMA InsertArmKeeps ==
    ASSUME TInv, AInv, NEW c \in Commands, InsertArm(c)
    PROVE  ArmsNamed(c)'
<1> DEFINE l == Label(c)
           id == identity[c][l]
           row == [cmd |-> c, label |-> l, profile |-> id]
<1>1. /\ Functions /\ ArmsNamed(c) /\ l \in ToSet(Arms[c]) /\ arm[c] \in Nat
      /\ 1 <= arm[c] /\ arm[c] <= Len(Arms[c]) /\ Len(Arms[c]) \in Nat
  BY LabelOfArm, ExperimentAssumption DEF TInv, AInv, Functions, Ranges
<1>2. identity' = identity /\ pc[c] \in InArms
  BY DEF InsertArm, InArms
<1>3. \/ arms' = arms /\ arm' = arm
      \/ arms' = arms \cup {row} /\ arm' = arm /\ pc' = [pc EXCEPT ![c] = "next step"]
      \/ arms' = arms \cup {row} /\ arm' = [arm EXCEPT ![c] = arm[c] + 1]
  BY DEF InsertArm, Goto
<1>4. row.cmd = c /\ row.label = l /\ row.profile = identity[c][row.label]
      /\ row = [cmd |-> c, label |-> row.label, profile |-> identity[c][row.label]]
  OBVIOUS
<1>5. l = Arms[c][arm[c]]
  BY DEF Label
<1> HIDE DEF l, id, row
<1>6. CASE arms' = arms /\ arm' = arm
  BY <1>1, <1>2, <1>6 DEF ArmsNamed
<1>7. CASE /\ arms' = arms \cup {row} /\ arm' = arm
           /\ pc' = [pc EXCEPT ![c] = "next step"]
  <2>1. pc'[c] \notin InArms
    BY <1>1, <1>7 DEF Functions, InArms
  <2>2. \A a \in arms' : a.cmd = c =>
          a = [cmd |-> c, label |-> a.label, profile |-> identity[c][a.label]]
    BY <1>1, <1>4, <1>7 DEF ArmsNamed
  <2> QED
    BY <1>2, <2>1, <2>2 DEF ArmsNamed
<1>8. CASE arms' = arms \cup {row} /\ arm' = [arm EXCEPT ![c] = arm[c] + 1]
  <2>1. arm'[c] = arm[c] + 1
    BY <1>1, <1>8 DEF Functions
  <2>2. SUFFICES ASSUME NEW a \in arms', a.cmd = c
                 PROVE  /\ a = [cmd |-> c, label |-> a.label, profile |-> identity[c][a.label]]
                        /\ \E i \in 1 .. Len(Arms[c]) : i < arm[c] + 1 /\ a.label = Arms[c][i]
    BY <1>2, <2>1 DEF ArmsNamed
  <2>3. CASE a = row
    <3>1. arm[c] \in 1 .. Len(Arms[c]) /\ arm[c] < arm[c] + 1
      BY <1>1
    <3> QED
      BY <1>4, <1>5, <2>3, <3>1
  <2>4. CASE a \in arms
    <3>1. \A i \in 1 .. Len(Arms[c]) : i < arm[c] => i < arm[c] + 1
      BY <1>1
    <3>2. /\ a = [cmd |-> c, label |-> a.label, profile |-> identity[c][a.label]]
          /\ \E i \in 1 .. Len(Arms[c]) : i < arm[c] /\ a.label = Arms[c][i]
      BY <1>1, <1>2, <2>2, <2>4 DEF ArmsNamed
    <3> QED
      BY <3>1, <3>2
  <2> QED
    BY <1>8, <2>3, <2>4
<1> QED
  BY <1>3, <1>6, <1>7, <1>8

LEMMA InsertRunAttributes ==
    ASSUME TInv, AInv, NEW c \in Commands, InsertRun(c)
    PROVE  AttributedToItsArm'
<1> DEFINE l == PlanStep(c, step[c]).arm
           id == identity[c][l]
           row == [cmd |-> c, step |-> step[c], profile |-> id, status |-> Status(c)]
           Fine(r) == LET m == PlanStep(r.cmd, r.step).arm IN
                      /\ [id |-> r.profile, hash |-> Hash[r.cmd][m]] \in profiles
                      /\ Kind[r.cmd] = "experiment" =>
                           [cmd |-> r.cmd, label |-> m, profile |-> r.profile] \in arms
<1>1. \A r \in runs : Fine(r)
  BY DEF AInv, AttributedToItsArm
<1>2. \/ runs' = runs
      \/ /\ runs' = runs \cup {row} /\ id \in ProfileIds
         /\ Kind[c] = "run" \/ \E a \in arms : a.cmd = c /\ a.label = l
  BY DEF InsertRun
<1>3. UNCHANGED <<profiles, arms>>
  BY DEF InsertRun
<1>4. l \in ToSet(Arms[c])
  <2>1. step[c] \in Nat \ {0}
    BY DEF TInv, Functions, Ranges
  <2> QED
    BY <2>1, ArmOfStep
<1>5. CASE runs' = runs \cup {row} /\ id \in ProfileIds
           /\ (Kind[c] = "run" \/ \E a \in arms : a.cmd = c /\ a.label = l)
  <2>1. [id |-> id, hash |-> Hash[c][l]] \in profiles
    BY <1>4, <1>5, KnownIsStored DEF AInv, IdentityKnown
  <2>2. ASSUME Kind[c] = "experiment"
        PROVE  [cmd |-> c, label |-> l, profile |-> id] \in arms
    <3>1. PICK a \in arms : a.cmd = c /\ a.label = l
      BY <1>5, <2>2
    <3>2. a = [cmd |-> c, label |-> a.label, profile |-> identity[c][a.label]]
      BY <3>1 DEF AInv, ArmsNamed
    <3> QED
      BY <3>1, <3>2
  <2>3. Fine(row)
    BY <2>1, <2>2
  <2> HIDE DEF row
  <2>4. \A r \in runs' : Fine(r)
    BY <1>1, <1>5, <2>3
  <2> QED
    BY <1>3, <2>4 DEF AttributedToItsArm
<1>6. CASE runs' = runs
  BY <1>3, <1>6 DEF AInv, AttributedToItsArm
<1> QED
  BY <1>2, <1>5, <1>6

(* Only InsertArm adds an arm's row, and only one of its own experiment.   *)
LEMMA ArmsOfOthers ==
    ASSUME Functions, NEW c \in Commands, Act(c)
    PROVE  \A a \in arms' : a.cmd # c \/ ~InsertArm(c) => a \in arms
<1>1. CASE InsertArm(c)
  <2>1. PICK l, id : arms' = arms \/ arms' = arms \cup {[cmd |-> c, label |-> l, profile |-> id]}
    BY <1>1 DEF InsertArm
  <2> QED
    BY <1>1, <2>1
<1>2. CASE ~InsertArm(c)
  <2>1. InsertExperiment(c) \/ LookUp(c) \/ InsertProfile(c) \/ InsertRun(c) => arms' = arms
    BY DEF InsertExperiment, LookUp, InsertProfile, InsertRun, tables
  <2>2. arms' = arms
    BY <1>2, <2>1, Elsewhere
  <2> QED
    BY <2>2
<1> QED
  BY <1>1, <1>2

(* Every step of c keeps what is said of c and of the tables.              *)
LEMMA OwnStep ==
    ASSUME TInv, AInv, NEW c \in Commands, Act(c)
    PROVE  ProfilesMade' /\ IdentityKnown(c)' /\ ArmsNamed(c)' /\ AttributedToItsArm'
<1>a. /\ Functions /\ profiles \subseteq profiles' /\ arms \subseteq arms'
      /\ ProfilesMade /\ IdentityKnown(c) /\ ArmsNamed(c) /\ AttributedToItsArm
  BY TablesGrow DEF TInv, AInv
<1>b. ASSUME profiles' = profiles PROVE ProfilesMade'
  BY <1>a, <1>b DEF ProfilesMade, Made
<1>1. CASE InsertExperiment(c)
  <2>1. /\ UNCHANGED <<profiles, arms, runs, identity, arm>> /\ pc[c] \in InArms
    BY <1>1 DEF InsertExperiment, InArms
  <2> QED
    BY <1>a, <1>b, <2>1, AttributionKept, KnownKept, NamedKept
<1>2. CASE LookUp(c)
  <2>1. UNCHANGED <<profiles, arms, runs>>
    BY <1>2 DEF LookUp, tables
  <2> QED
    BY <1>a, <1>2, <2>1, LookUpKeeps, AttributionKept
<1>3. CASE InsertProfile(c)
  <2>1. UNCHANGED <<arms, runs, identity, arm>> /\ pc[c] \in InArms
    BY <1>3 DEF InsertProfile, InArms
  <2> QED
    BY <1>a, <1>3, <2>1, InsertProfileKeeps, AttributionKept, KnownKept, NamedKept
<1>4. CASE InsertArm(c)
  <2>1. UNCHANGED <<profiles, runs, identity>>
    BY <1>4 DEF InsertArm
  <2> QED
    BY <1>a, <1>b, <1>4, <2>1, InsertArmKeeps, AttributionKept, KnownKept
<1>5. CASE InsertRun(c)
  <2>1. UNCHANGED <<profiles, arms, identity, arm>> /\ pc'[c] \notin InArms
    BY <1>a, <1>5 DEF InsertRun, InArms, Goto, Functions
  <2> QED
    BY <1>a, <1>b, <1>5, <2>1, InsertRunAttributes, KnownKept, NamedKept
<1>6. CASE ~(\/ InsertExperiment(c) \/ LookUp(c) \/ InsertProfile(c) \/ InsertArm(c)
            \/ InsertRun(c))
  <2>1. /\ UNCHANGED <<profiles, arms, runs, identity, arm>>
        /\ pc'[c] = pc[c] \/ pc'[c] \notin InArms
    BY <1>a, <1>6, Elsewhere
  <2> QED
    BY <1>a, <1>b, <2>1, AttributionKept, KnownKept, NamedKept
<1> QED
  BY <1>1, <1>2, <1>3, <1>4, <1>5, <1>6

LEMMA AStep == TInv /\ AInv /\ [Next]_vars => AInv'
<1> SUFFICES ASSUME TInv, AInv, [Next]_vars PROVE AInv'
  OBVIOUS
<1>1. CASE UNCHANGED vars
  <2>1. UNCHANGED <<profiles, arms, runs, identity, arm, pc>>
    BY <1>1 DEF vars, tables, locals
  <2>2. ProfilesMade' /\ AttributedToItsArm'
    BY <2>1, AttributionKept DEF AInv, ProfilesMade, Made
  <2>3. ASSUME NEW d \in Commands PROVE IdentityKnown(d)' /\ ArmsNamed(d)'
    BY <2>1, KnownKept, NamedKept DEF AInv
  <2> QED
    BY <2>2, <2>3 DEF AInv
<1>2. ASSUME NEW c \in Commands, Act(c) PROVE AInv'
  <2>1. ProfilesMade' /\ IdentityKnown(c)' /\ ArmsNamed(c)' /\ AttributedToItsArm'
    BY <1>2, OwnStep
  <2>2. ASSUME NEW d \in Commands, d # c PROVE IdentityKnown(d)' /\ ArmsNamed(d)'
    <3>1. /\ identity'[d] = identity[d] /\ arm'[d] = arm[d] /\ pc'[d] = pc[d]
      BY <1>2, <2>2, Others DEF SameLocals, TInv
    <3>2. profiles \subseteq profiles' /\ \A a \in arms' : a.cmd = d => a \in arms
      BY <1>2, <2>2, TablesGrow, ArmsOfOthers DEF TInv
    <3> QED
      BY <3>1, <3>2, KnownKept, NamedKept DEF AInv
  <2> QED
    BY <2>1, <2>2 DEF AInv
<1> QED
  BY <1>1, <1>2, NextAct

(* Every run that was recorded is attributed to its step's arm, whatever   *)
(* other commands store at the same time: the lost race of profile.Persist *)
(* (experiment_profile_race) costs the command its row, never the truth of *)
(* another.                                                                *)
THEOREM RunsAttributed == Spec => []AttributedToItsArm
<1>1. AInv => AttributedToItsArm
  BY DEF AInv
<1> QED
  BY <1>1, AInit, AStep, TInvAlways, PTL DEF Spec

(***************************************************************************)
(* What is recorded, and when                                              *)
(***************************************************************************)

Details == metrics \cup validations

(* The rows of a command are of the steps up to the one it is at, and of   *)
(* that one only once its run has been inserted.                           *)
Before == Registering \cup {"running", "suite row", "task row", "run row"}
Behind(c) ==
    \A x \in runs \cup Details : x.cmd = c =>
        x.step <= step[c] /\ (pc[c] \in Before => x.step # step[c])

(* The run whose details are being recorded ended the way its row says.    *)
InDetails == {"metrics rows", "validations rows"}
Recording(c) ==
    pc[c] \in InDetails =>
        \A r \in runs : r.cmd = c /\ r.step = step[c] => r.status = Status(c)

(* Once the context is cancelled the command only finishes its step.       *)
Cancelled(c) ==
    ctx[c] = "cancelled" =>
        /\ \A r \in runs : r.cmd = c => r.step <= atCancel[c]
        /\ pc[c] \in Started => step[c] <= atCancel[c]

(* A metric says what the status of its run says, and a validation that    *)
(* failed is never that of a run that passed.                              *)
MetricAgrees(m, r) ==
    m.cmd = r.cmd /\ m.step = r.step => (m.success <=> r.status = "passed")
ValidationAgrees(v, r) ==
    v.cmd = r.cmd /\ v.step = r.step => (v.failed => r.status # "passed")
Agree ==
    \A r \in runs : /\ \A m \in metrics : MetricAgrees(m, r)
                    /\ \A v \in validations : ValidationAgrees(v, r)

CInv(c) == Behind(c) /\ Recording(c) /\ Cancelled(c)
SInv == Agree /\ \A c \in Commands : CInv(c)

RunOf(c) == [cmd |-> c, step |-> step[c],
             profile |-> identity[c][PlanStep(c, step[c]).arm], status |-> Status(c)]
MetricOf(c) == [cmd |-> c, step |-> step[c], success |-> Success(c)]
ValidationOf(c) == [cmd |-> c, step |-> step[c], failed |-> outcome[c] = "failed"]

(* The rows a step adds are those of its own command and its step.         *)
LEMMA Adds ==
    ASSUME Functions, NEW c \in Commands, Act(c)
    PROVE  /\ \/ runs' = runs
              \/ pc[c] = "run row" /\ runs' = runs \cup {RunOf(c)}
           /\ \/ metrics' = metrics
              \/ pc[c] = "metrics rows" /\ metrics' = metrics \cup {MetricOf(c)}
           /\ \/ validations' = validations
              \/ /\ pc[c] = "validations rows"
                 /\ validations' = validations \cup {ValidationOf(c)}
           /\ \/ UNCHANGED <<runs, metrics, validations>>
              \/ UNCHANGED <<step, outcome, ctx, atCancel>> /\ pc'[c] \notin Before
<1> USE DEF tables
<1>1. CASE Cancel(c)
  BY <1>1 DEF Cancel
<1>2. CASE Crash(c)
  BY <1>2 DEF Crash
<1>3. CASE StoreFails(c)
  BY <1>3 DEF StoreFails
<1>4. CASE InsertExperiment(c)
  BY <1>4 DEF InsertExperiment
<1>5. CASE LookUp(c)
  BY <1>5 DEF LookUp
<1>6. CASE InsertProfile(c)
  BY <1>6 DEF InsertProfile
<1>7. CASE InsertArm(c)
  BY <1>7 DEF InsertArm
<1>8. CASE NextStep(c)
  BY <1>8 DEF NextStep
<1>9. CASE Execute(c)
  BY <1>9 DEF Execute
<1>10. CASE RunError(c)
  BY <1>10 DEF RunError
<1>11. CASE InsertSuite(c)
  BY <1>11 DEF InsertSuite
<1>12. CASE InsertTask(c)
  BY <1>12 DEF InsertTask
<1>13. CASE InsertRun(c)
  BY <1>13 DEF InsertRun, RunOf, Functions, Goto, Before, Registering
<1>14. CASE InsertRunMetrics(c)
  BY <1>14 DEF InsertRunMetrics, MetricOf, Functions, Goto, Before, Registering
<1>15. CASE InsertRunValidations(c)
  BY <1>15 DEF InsertRunValidations, ValidationOf, Functions, Goto, Before, Registering
<1>16. CASE Recorded(c)
  BY <1>16 DEF Recorded
<1> QED
  BY <1>1, <1>2, <1>3, <1>4, <1>5, <1>6, <1>7, <1>8,
     <1>9, <1>10, <1>11, <1>12, <1>13, <1>14, <1>15, <1>16
     DEF Act, Advance

(* Where a step can go, and what it leaves alone.                          *)
Moves(c) ==
    /\ \/ step'[c] = step[c] /\ (pc'[c] \in Before => pc[c] \in Before)
       \/ step'[c] = step[c] + 1
    /\ pc'[c] \in InDetails =>
         /\ step'[c] = step[c] /\ outcome'[c] = outcome[c]
         /\ pc[c] \in InDetails \/ pc[c] = "run row"
    /\ \/ /\ ctx'[c] = ctx[c] /\ atCancel'[c] = atCancel[c]
          /\ pc'[c] \in Started => /\ step'[c] = step[c]
                                   /\ pc[c] \in Started \/ ctx[c] = "live"
       \/ /\ runs' = runs /\ pc'[c] = pc[c] /\ step'[c] = step[c]
          /\ pc[c] \notin Stopped
          /\ atCancel'[c] = IF pc[c] \in Registering THEN step[c] - 1 ELSE step[c]

LEMMA Moving ==
    ASSUME Functions, NEW c \in Commands, Act(c) PROVE Moves(c)
<1> USE DEF Functions, Goto, Moves, Before, InDetails, Registering, Started
<1>1. CASE Cancel(c)
  <2>1. /\ UNCHANGED <<runs, pc, step, outcome>> /\ pc[c] \notin Stopped
        /\ atCancel'[c] = IF pc[c] \in Registering THEN step[c] - 1 ELSE step[c]
    BY <1>1 DEF Cancel, tables
  <2> QED
    BY <2>1
<1>2. CASE Crash(c)
  BY <1>2 DEF Crash
<1>3. CASE StoreFails(c)
  BY <1>3 DEF StoreFails
<1>4. CASE InsertExperiment(c)
  BY <1>4 DEF InsertExperiment
<1>5. CASE LookUp(c)
  BY <1>5 DEF LookUp, AfterProfile
<1>6. CASE InsertProfile(c)
  BY <1>6 DEF InsertProfile, AfterProfile
<1>7. CASE InsertArm(c)
  BY <1>7 DEF InsertArm
<1>8. CASE NextStep(c)
  <2>1. /\ pc[c] = "next step" /\ pc'[c] \in {"done", "running", "error"}
        /\ UNCHANGED <<step, outcome, ctx, atCancel>>
    BY <1>8 DEF NextStep
  <2>2. pc'[c] = "running" => ctx[c] = "live"
    BY <1>8 DEF NextStep, Live
  <2> QED
    BY <2>1, <2>2
<1>9. CASE Execute(c)
  BY <1>9 DEF Execute
<1>10. CASE RunError(c)
  BY <1>10 DEF RunError
<1>11. CASE InsertSuite(c)
  BY <1>11 DEF InsertSuite
<1>12. CASE InsertTask(c)
  BY <1>12 DEF InsertTask
<1>13. CASE InsertRun(c)
  <2>1. /\ pc[c] = "run row" /\ pc'[c] \in {"metrics rows", "error"}
        /\ UNCHANGED <<step, outcome, ctx, atCancel>>
    BY <1>13 DEF InsertRun
  <2> QED
    BY <2>1
<1>14. CASE InsertRunMetrics(c)
  <2>1. /\ pc[c] = "metrics rows" /\ pc'[c] \in {"validations rows"}
        /\ UNCHANGED <<step, outcome, ctx, atCancel>>
    BY <1>14 DEF InsertRunMetrics
  <2> QED
    BY <2>1
<1>15. CASE InsertRunValidations(c)
  BY <1>15 DEF InsertRunValidations
<1>16. CASE Recorded(c)
  <2>1. /\ step'[c] = step[c] + 1 /\ pc'[c] \in {"next step", "error"}
        /\ UNCHANGED <<ctx, atCancel>>
    BY <1>16 DEF Recorded
  <2> QED
    BY <2>1
<1> QED
  BY <1>1, <1>2, <1>3, <1>4, <1>5, <1>6, <1>7, <1>8,
     <1>9, <1>10, <1>11, <1>12, <1>13, <1>14, <1>15, <1>16
     DEF Act, Advance

LEMMA SInit == Init => SInv
<1> SUFFICES ASSUME Init PROVE SInv
  OBVIOUS
<1>1. runs = {} /\ metrics = {} /\ validations = {}
  BY DEF Init
<1>2. \A c \in Commands : ctx[c] = "live"
  BY DEF Init
<1> QED
  BY <1>1, <1>2 DEF SInv, CInv, Agree, Behind, Details, Recording, Cancelled

(* The numbers at hand.                                                    *)
LEMMA StepNumbers ==
    ASSUME TInv
    PROVE  /\ \A c \in Commands : step[c] \in Nat /\ step[c] - 1 \in Nat /\ atCancel[c] \in Nat
           /\ \A x \in runs \cup Details : x.step \in Nat
<1>1. \A c \in Commands : step[c] \in Nat /\ 1 <= step[c] /\ atCancel[c] \in Nat
  BY DEF TInv, Functions, Ranges
<1>2. \A x \in runs \cup Details : x.cmd \in Commands /\ x.step \in Steps(x.cmd)
  BY DEF TInv, Rows, RunRow, DetailRow, Details
<1>3. ASSUME NEW c \in Commands, NEW n \in Steps(c) PROVE n \in Nat
  BY <1>3, PlanLenNat DEF Steps
<1> QED
  BY <1>1, <1>2, <1>3, Succ

LEMMA NewRows ==
    ASSUME Functions, NEW c \in Commands, Act(c), NEW x \in (runs \cup Details)'
    PROVE  \/ x \in runs \cup Details
           \/ /\ x.cmd = c /\ x.step = step[c] /\ step'[c] = step[c]
              /\ pc'[c] \notin Before
<1>1. RunOf(c).cmd = c /\ RunOf(c).step = step[c]
  BY DEF RunOf
<1>2. MetricOf(c).cmd = c /\ MetricOf(c).step = step[c]
  BY DEF MetricOf
<1>3. ValidationOf(c).cmd = c /\ ValidationOf(c).step = step[c]
  BY DEF ValidationOf
<1>4. \/ x \in runs \cup Details
      \/ x \in {RunOf(c), MetricOf(c), ValidationOf(c)}
  <2>1. runs' = runs \/ runs' = runs \cup {RunOf(c)}
    BY Adds, Zenon
  <2>2. metrics' = metrics \/ metrics' = metrics \cup {MetricOf(c)}
    BY Adds, Zenon
  <2>3. validations' = validations \/ validations' = validations \cup {ValidationOf(c)}
    BY Adds, Zenon
  <2> QED
    BY <2>1, <2>2, <2>3 DEF Details
<1>5. x \in runs \cup Details \/ (step' = step /\ pc'[c] \notin Before)
  BY Adds DEF Details
<1>6. CASE x \in {RunOf(c), MetricOf(c), ValidationOf(c)}
  <2>1. x.cmd = c /\ x.step = step[c]
    BY <1>1, <1>2, <1>3, <1>6
  <2> QED
    BY <1>5, <2>1
<1> QED
  BY <1>4, <1>6

LEMMA BehindKept ==
    ASSUME TInv, NEW c \in Commands, Act(c), Behind(c) PROVE Behind(c)'
<1>1. Functions /\ Moves(c) /\ step[c] \in Nat
  BY Moving, StepNumbers DEF TInv
<1> SUFFICES ASSUME NEW x \in (runs \cup Details)', x.cmd = c
             PROVE  x.step <= step'[c] /\ (pc'[c] \in Before => x.step # step'[c])
  BY DEF Behind
<1>2. CASE x \in runs \cup Details
  <2>1. /\ x.step \in Nat /\ x.step <= step[c]
        /\ pc[c] \in Before => x.step # step[c]
    BY <1>2, StepNumbers DEF Behind
  <2>2. CASE step'[c] = step[c] /\ (pc'[c] \in Before => pc[c] \in Before)
    BY <2>1, <2>2
  <2>3. CASE step'[c] = step[c] + 1
    BY <1>1, <2>1, <2>3
  <2> QED
    BY <1>1, <2>2, <2>3 DEF Moves
<1>3. CASE /\ x.cmd = c /\ x.step = step[c] /\ step'[c] = step[c]
           /\ pc'[c] \notin Before
  BY <1>1, <1>3
<1> QED
  BY <1>1, <1>2, <1>3, NewRows

LEMMA RecordingKept ==
    ASSUME TInv, NEW c \in Commands, Act(c), Behind(c), Recording(c)
    PROVE  Recording(c)'
<1>1. Functions /\ Moves(c)
  BY Moving DEF TInv
<1> SUFFICES ASSUME pc'[c] \in InDetails, NEW r \in runs', r.cmd = c, r.step = step'[c]
             PROVE  r.status = Status(c)'
  BY DEF Recording
<1>2. /\ step'[c] = step[c] /\ Status(c)' = Status(c)
      /\ pc[c] \in InDetails \/ pc[c] = "run row"
  BY <1>1 DEF Moves, Status
<1>3. CASE r \in runs
  <2>1. pc[c] # "run row"
    BY <1>2, <1>3 DEF Behind, Before
  <2> QED
    BY <1>2, <1>3, <2>1 DEF Recording
<1>4. CASE r = RunOf(c)
  <2>1. RunOf(c).status = Status(c)
    BY DEF RunOf
  <2> QED
    BY <1>2, <1>4, <2>1, Zenon
<1>5. r \in runs \/ r = RunOf(c)
  <2>1. runs' = runs \/ runs' = runs \cup {RunOf(c)}
    BY <1>1, Adds, Zenon
  <2> QED
    BY <2>1
<1> QED
  BY <1>3, <1>4, <1>5

LEMMA CancelledKept ==
    ASSUME TInv, NEW c \in Commands, Act(c), Behind(c), Cancelled(c)
    PROVE  Cancelled(c)'
<1>1. /\ Functions /\ Moves(c) /\ step[c] \in Nat /\ step[c] - 1 \in Nat
      /\ atCancel[c] \in Nat
  BY Moving, StepNumbers DEF TInv
<1>a. \A r \in runs : r.cmd = c =>
         /\ r.step \in Nat /\ r.step <= step[c]
         /\ pc[c] \in Before => r.step # step[c]
  BY StepNumbers DEF Behind
<1> SUFFICES ASSUME ctx'[c] = "cancelled"
             PROVE  /\ \A r \in runs' : r.cmd = c => r.step <= atCancel'[c]
                    /\ pc'[c] \in Started => step'[c] <= atCancel'[c]
  BY DEF Cancelled
<1>2. CASE /\ ctx'[c] = ctx[c] /\ atCancel'[c] = atCancel[c]
           /\ pc'[c] \in Started => /\ step'[c] = step[c]
                                    /\ pc[c] \in Started \/ ctx[c] = "live"
  <2>1. /\ \A r \in runs : r.cmd = c => r.step <= atCancel[c]
        /\ pc[c] \in Started => step[c] <= atCancel[c]
    BY <1>2 DEF Cancelled
  <2>2. pc'[c] \in Started => step'[c] <= atCancel'[c]
    BY <1>2, <2>1
  <2>3. ASSUME NEW r \in runs', r.cmd = c PROVE r.step <= atCancel[c]
    <3>1. CASE pc[c] = "run row" /\ r = RunOf(c)
      BY <2>1, <3>1 DEF RunOf, Started
    <3> QED
      BY <1>1, <2>1, <2>3, <3>1, Adds
  <2> QED
    BY <1>2, <2>2, <2>3
<1>3. CASE /\ runs' = runs /\ pc'[c] = pc[c] /\ step'[c] = step[c]
           /\ pc[c] \notin Stopped
           /\ atCancel'[c] = IF pc[c] \in Registering THEN step[c] - 1 ELSE step[c]
  <2>1. pc'[c] \in Started => pc[c] \notin Registering
    BY <1>3 DEF Started, Registering
  <2>2. pc'[c] \in Started => step'[c] <= atCancel'[c]
    BY <1>1, <1>3, <2>1
  <2>3. ASSUME NEW r \in runs, r.cmd = c PROVE r.step <= atCancel'[c]
    <3>1. CASE pc[c] \in Registering
      <4>1. /\ r.step \in Nat /\ r.step <= step[c] /\ r.step # step[c]
            /\ atCancel'[c] = step[c] - 1
        BY <1>a, <1>3, <2>3, <3>1 DEF Before
      <4> QED
        BY <1>1, <4>1
    <3>2. CASE pc[c] \notin Registering
      BY <1>a, <1>3, <2>3, <3>2
    <3> QED
      BY <3>1, <3>2
  <2> QED
    BY <1>3, <2>2, <2>3
<1> QED
  BY <1>1, <1>2, <1>3 DEF Moves

(* A run is inserted before its details, a detail only after its run.      *)
LEMMA AgreeKept ==
    ASSUME TInv, NEW c \in Commands, Act(c), Behind(c), Recording(c), Agree
    PROVE  Agree'
<1>0. Functions
  BY DEF TInv
<1>a. \A x \in Details : x.cmd = c /\ x.step = step[c] => pc[c] # "run row"
  BY DEF Behind, Before
<1>b. \A r \in runs : r.cmd = c /\ r.step = step[c] /\ pc[c] \in InDetails => r.status = Status(c)
  BY DEF Recording
<1>1. ASSUME NEW r \in runs', NEW m \in metrics' PROVE MetricAgrees(m, r)
  <2>1. CASE r \in runs /\ m \in metrics
    BY <2>1 DEF Agree
  <2>2. CASE r = RunOf(c) /\ m \in metrics /\ pc[c] = "run row"
    BY <1>a, <2>2 DEF RunOf, MetricAgrees, Details
  <2>3. CASE r \in runs /\ m = MetricOf(c) /\ pc[c] = "metrics rows"
    <3>1. /\ MetricOf(c).cmd = c /\ MetricOf(c).step = step[c]
          /\ MetricOf(c).success = Success(c)
      BY DEF MetricOf
    <3>2. m.cmd = r.cmd /\ m.step = r.step => r.status = Status(c)
      BY <1>b, <2>3, <3>1 DEF InDetails
    <3> QED
      BY <2>3, <3>1, <3>2, Zenon DEF MetricAgrees, Success
  <2>4. \/ r \in runs
        \/ r = RunOf(c) /\ pc[c] = "run row"
    BY <1>0, Adds
  <2>5. \/ m \in metrics
        \/ m = MetricOf(c) /\ pc[c] = "metrics rows"
    BY <1>0, Adds
  <2> QED
    BY <2>1, <2>2, <2>3, <2>4, <2>5
<1>2. ASSUME NEW r \in runs', NEW v \in validations' PROVE ValidationAgrees(v, r)
  <2>1. CASE r \in runs /\ v \in validations
    BY <2>1 DEF Agree
  <2>2. CASE r = RunOf(c) /\ v \in validations /\ pc[c] = "run row"
    BY <1>a, <2>2 DEF RunOf, ValidationAgrees, Details
  <2>3. CASE r \in runs /\ v = ValidationOf(c) /\ pc[c] = "validations rows"
    <3>1. /\ ValidationOf(c).cmd = c /\ ValidationOf(c).step = step[c]
          /\ ValidationOf(c).failed = (outcome[c] = "failed")
      BY DEF ValidationOf
    <3>2. v.cmd = r.cmd /\ v.step = r.step => r.status = Status(c)
      BY <1>b, <2>3, <3>1 DEF InDetails
    <3>3. outcome[c] = "failed" => Status(c) # "passed"
      BY DEF Status
    <3> QED
      BY <2>3, <3>1, <3>2, <3>3, Zenon DEF ValidationAgrees
  <2>4. \/ r \in runs
        \/ r = RunOf(c) /\ pc[c] = "run row"
    BY <1>0, Adds
  <2>5. \/ v \in validations
        \/ v = ValidationOf(c) /\ pc[c] = "validations rows"
    BY <1>0, Adds
  <2> QED
    BY <2>1, <2>2, <2>3, <2>4, <2>5
<1> QED
  BY <1>1, <1>2 DEF Agree

LEMMA SStep == TInv /\ SInv /\ [Next]_vars => SInv'
<1> SUFFICES ASSUME TInv, SInv, [Next]_vars PROVE SInv'
  OBVIOUS
<1>1. CASE UNCHANGED vars
  BY <1>1 DEF SInv, CInv, Agree, Behind, Details, Recording, Cancelled, Status,
              vars, tables, locals
<1>2. ASSUME NEW c \in Commands, Act(c) PROVE SInv'
  <2>1. Agree' /\ CInv(c)'
    BY <1>2, AgreeKept, BehindKept, RecordingKept, CancelledKept DEF SInv, CInv
  <2>2. ASSUME NEW d \in Commands, d # c PROVE CInv(d)'
    <3>1. SameLocals(d)
      BY <1>2, <2>2, Others DEF TInv
    <3>2. \A x \in (runs \cup Details)' : x.cmd = d => x \in runs \cup Details
      BY <1>2, <2>2, NewRows DEF TInv
    <3>3. \A x \in runs' : x.cmd = d => x \in runs
      <4>1. RunOf(c).cmd = c
        BY DEF RunOf
      <4>2. runs' = runs \/ runs' = runs \cup {RunOf(c)}
        BY <1>2, Adds, Zenon DEF TInv
      <4> QED
        BY <2>2, <4>1, <4>2
    <3>4. Behind(d)'
      BY <3>1, <3>2 DEF SInv, CInv, Behind, SameLocals
    <3>5. Recording(d)'
      BY <3>1, <3>3 DEF SInv, CInv, Recording, SameLocals, Status
    <3>6. Cancelled(d)'
      BY <3>1, <3>3 DEF SInv, CInv, Cancelled, SameLocals
    <3> QED
      BY <3>4, <3>5, <3>6 DEF CInv
  <2> QED
    BY <2>1, <2>2 DEF SInv
<1> QED
  BY <1>1, <1>2, NextAct

LEMMA SInvAlways == Spec => []SInv
  BY SInit, SStep, TInvAlways, PTL DEF Spec

(* Ctrl-C lets the run in progress be recorded and starts no other.        *)
THEOREM CancelledStops == Spec => []CancelStops
<1>1. TInv /\ SInv => CancelStops
  BY DEF TInv, Rows, RunRow, SInv, CInv, Cancelled, CancelStops, RunsOf
<1> QED
  BY <1>1, SInvAlways, TInvAlways, PTL

(* A run whose recording was cut short reads as what it was, to both       *)
(* readers of the store.                                                   *)
THEOREM TruncatedReads == Spec => []TruncatedReadsAlike
<1>1. SInv => TruncatedReadsAlike
  <2> SUFFICES ASSUME SInv, NEW r \in runs
               PROVE  /\ RunSucceeded(r) <=> r.status = "passed"
                      /\ AggregateSucceeded(r) <=> r.status = "passed"
    BY DEF TruncatedReadsAlike
  <2>1. \A m \in Of(metrics, r) : m.success <=> r.status = "passed"
    BY DEF SInv, Agree, MetricAgrees, Of
  <2>2. \A v \in Of(validations, r) : v.failed => r.status # "passed"
    BY DEF SInv, Agree, ValidationAgrees, Of
  <2>3. RunSucceeded(r) <=> r.status = "passed"
    BY <2>1, Zenon DEF RunSucceeded
  <2> QED
    BY <2>2, <2>3, Zenon DEF AggregateSucceeded
<1> QED
  BY <1>1, SInvAlways, PTL

(***************************************************************************)
(* A step n of the plan has three coordinates, found by dividing twice:    *)
(* n = (i * r + u) * a + s + 1 for the task i + 1, the repeat u and the    *)
(* arm s + 1, with a arms and r repeats; i * r + u is the step's round, in *)
(* which every arm has one step.                                           *)
(***************************************************************************)

(***************************************************************************)
(* Division                                                                *)
(***************************************************************************)

(* A product grows with its first factor.                                  *)
LEMMA ProductGrows ==
    ASSUME NEW p \in Nat, NEW q \in Nat, p < q, NEW m \in Nat \ {0}
    PROVE  p * m + m <= q * m
<1>1. PICK d \in Nat : q = p + 1 + d
  <2>1. q - p - 1 \in Nat /\ q = p + 1 + (q - p - 1)
    OBVIOUS
  <2> QED
    BY <2>1
<1>2. q * m = p * m + m + d * m
  BY <1>1
<1>3. d * m \in Nat /\ p * m \in Nat
  OBVIOUS
<1> QED
  BY <1>2, <1>3

(* Quotient and remainder are unique.                                      *)
LEMMA Unique ==
    ASSUME NEW m \in Nat \ {0}, NEW p \in Nat, NEW q \in Nat,
           NEW s \in 0 .. m - 1, NEW u \in 0 .. m - 1, p * m + s = q * m + u
    PROVE  p = q /\ s = u
<1>0. p * m \in Nat /\ q * m \in Nat
  OBVIOUS
<1>1. ~(p < q)
  <2> SUFFICES ASSUME p < q PROVE FALSE
    OBVIOUS
  <2>1. p * m + m <= q * m
    BY ProductGrows
  <2> QED
    BY <1>0, <2>1
<1>2. ~(q < p)
  <2> SUFFICES ASSUME q < p PROVE FALSE
    OBVIOUS
  <2>1. q * m + m <= p * m
    BY ProductGrows
  <2> QED
    BY <1>0, <2>1
<1> QED
  BY <1>0, <1>1, <1>2

(* The operators \div and % find them.                                     *)
LEMMA Divides ==
    ASSUME NEW m \in Nat \ {0}, NEW x \in Nat
    PROVE  x \div m \in Nat /\ x % m \in 0 .. m - 1 /\ x = (x \div m) * m + (x % m)
  OBVIOUS

LEMMA Divided ==
    ASSUME NEW m \in Nat \ {0}, NEW q \in Nat, NEW s \in 0 .. m - 1
    PROVE  (q * m + s) \div m = q /\ (q * m + s) % m = s
<1> DEFINE x == q * m + s
<1>1. x \in Nat
  OBVIOUS
<1>2. x \div m \in Nat /\ x % m \in 0 .. m - 1 /\ x = (x \div m) * m + (x % m)
  BY <1>1, Divides
<1>3. x = q * m + s
  OBVIOUS
<1> HIDE DEF x
<1>4. (x \div m) * m + (x % m) = q * m + s
  BY <1>2, <1>3
<1>5. x \div m = q /\ x % m = s
  BY <1>2, <1>4, Unique
<1> QED
  BY <1>5 DEF x


(***************************************************************************)
(* The coordinates of a step                                               *)
(***************************************************************************)

Round(c, i, u) == i * Repeat[c] + u
At(c, i, u, s) == Round(c, i, u) * Len(Arms[c]) + s + 1

Repeats(c) == 0 .. Repeat[c] - 1
Places(c) == 0 .. Len(Arms[c]) - 1

LEMMA Sizes ==
    ASSUME NEW c \in Commands
    PROVE  /\ Len(Arms[c]) \in Nat \ {0} /\ DOMAIN Arms[c] = 1 .. Len(Arms[c])
           /\ Len(Tasks[c]) \in Nat \ {0} /\ DOMAIN Tasks[c] = 1 .. Len(Tasks[c])
           /\ Repeat[c] \in Nat \ {0}
  BY ExperimentAssumption

LEMMA RoundNat ==
    ASSUME NEW c \in Commands, NEW i \in Nat, NEW u \in Repeats(c)
    PROVE  Round(c, i, u) \in Nat
<1>1. Repeat[c] \in Nat \ {0}
  BY Sizes
<1>2. i * Repeat[c] \in Nat
  BY <1>1
<1>3. u \in Nat
  BY <1>1 DEF Repeats
<1> QED
  BY <1>2, <1>3 DEF Round

(* What BuildPlan puts at a step with these coordinates.                   *)
LEMMA PlanAt ==
    ASSUME NEW c \in Commands, NEW i \in Nat, NEW u \in Repeats(c), NEW s \in Places(c)
    PROVE  PlanStep(c, At(c, i, u, s)) =
             [task |-> Tasks[c][i + 1], arm |-> Arms[c][s + 1], repeat |-> u]
<1> DEFINE a == Len(Arms[c])
           r == Repeat[c]
           y == Round(c, i, u)
           x == At(c, i, u, s) - 1
<1>1. a \in Nat \ {0} /\ r \in Nat \ {0}
  BY Sizes
<1>2. y \in Nat /\ y = i * r + u /\ u \in 0 .. r - 1 /\ s \in 0 .. a - 1
  BY RoundNat DEF Round, Repeats, Places
<1>3. x = y * a + s /\ At(c, i, u, s) = y * a + s + 1
  <2>1. At(c, i, u, s) = y * a + s + 1
    BY DEF At
  <2> HIDE DEF y, a
  <2>2. y * a \in Nat
    BY <1>1, <1>2
  <2> QED
    BY <1>1, <1>2, <2>1, <2>2
<1>4. PlanStep(c, At(c, i, u, s)) =
        [task   |-> Tasks[c][(x \div (a * r)) + 1],
         arm    |-> Arms[c][(x % a) + 1],
         repeat |-> (x \div a) % r]
  BY DEF PlanStep
<1> HIDE DEF a, r, x, y
<1>5. x \div a = y /\ x % a = s
  BY <1>1, <1>2, <1>3, Divided
<1>6. y % r = u
  BY <1>1, <1>2, Divided
<1>7. x \div (a * r) = i
  <2>1. u * a + a <= r * a
    <3>1. u \in Nat /\ u < r
      BY <1>1, <1>2
    <3> QED
      BY <1>1, <3>1, ProductGrows
  <2>2. a * r \in Nat \ {0} /\ r * a = a * r
    BY <1>1
  <2>3. u * a \in Nat
    BY <1>1, <1>2
  <2>4. u * a + s \in 0 .. a * r - 1
    BY <1>1, <1>2, <2>1, <2>2, <2>3
  <2>5. x = i * (a * r) + (u * a + s)
    <3>1. y * a = i * (a * r) + u * a
      BY <1>1, <1>2
    <3> QED
      BY <1>1, <1>2, <1>3, <2>2, <2>3, <3>1
  <2> QED
    BY <2>2, <2>4, <2>5, Divided
<1> QED
  BY <1>4, <1>5, <1>6, <1>7

(* Every step of the plan has coordinates, with the task one of the tasks  *)
(* exactly when the step is in the plan.                                   *)
LEMMA Coordinates ==
    ASSUME NEW c \in Commands, NEW n \in Nat \ {0}
    PROVE  \E i \in Nat : \E u \in Repeats(c) : \E s \in Places(c) : n = At(c, i, u, s)
<1> DEFINE a == Len(Arms[c])
           r == Repeat[c]
           y == (n - 1) \div a
           s == (n - 1) % a
           i == y \div r
           u == y % r
<1>1. a \in Nat \ {0} /\ r \in Nat \ {0} /\ n - 1 \in Nat
  BY Sizes
<1>2. y \in Nat /\ s \in 0 .. a - 1 /\ n - 1 = y * a + s
  <2> HIDE DEF a
  <2> QED
    BY <1>1, Divides
<1>3. i \in Nat /\ u \in 0 .. r - 1 /\ y = i * r + u
  <2> HIDE DEF y, r
  <2> QED
    BY <1>1, <1>2, Divides
<1>4. At(c, i, u, s) = (i * r + u) * a + s + 1 /\ Repeats(c) = 0 .. r - 1 /\ Places(c) = 0 .. a - 1
  BY DEF At, Round, Repeats, Places
<1> HIDE DEF a, r, y, s, i, u
<1>5. n = y * a + s + 1
  <2>1. y * a \in Nat
    BY <1>1, <1>2
  <2> QED
    BY <1>1, <1>2, <2>1
<1> QED
  BY <1>3, <1>2, <1>4, <1>5

LEMMA InPlan ==
    ASSUME NEW c \in Commands, NEW i \in Nat, NEW u \in Repeats(c), NEW s \in Places(c)
    PROVE  /\ At(c, i, u, s) \in Nat \ {0}
           /\ At(c, i, u, s) <= PlanLen(c) <=> i < Len(Tasks[c])
<1> DEFINE a == Len(Arms[c])
           r == Repeat[c]
           t == Len(Tasks[c])
           m == a * r
           v == u * a + s
<1>1. a \in Nat \ {0} /\ r \in Nat \ {0} /\ t \in Nat \ {0}
  BY Sizes
<1>2. u \in 0 .. r - 1 /\ s \in 0 .. a - 1
  BY DEF Repeats, Places
<1>3. At(c, i, u, s) = (i * r + u) * a + s + 1 /\ PlanLen(c) = (t * a) * r
  BY DEF At, Round, PlanLen
<1> HIDE DEF a, r, t
<1>4. m \in Nat \ {0}
  BY <1>1
<1>5. v \in 0 .. m - 1
  <2>1. u * a + a <= r * a
    <3>1. u \in Nat /\ u < r
      BY <1>1, <1>2
    <3> QED
      BY <1>1, <3>1, ProductGrows
  <2>2. r * a = a * r /\ u * a \in Nat
    BY <1>1, <1>2
  <2> QED
    BY <1>1, <1>2, <1>4, <2>1, <2>2
<1>6. At(c, i, u, s) = i * m + v + 1 /\ PlanLen(c) = t * m
  <2>1. (i * r + u) * a = i * (a * r) + u * a
    BY <1>1, <1>2
  <2>2. (t * a) * r = t * (a * r)
    BY <1>1
  <2>3. i * (a * r) \in Nat /\ u * a \in Nat
    BY <1>1, <1>2
  <2> QED
    BY <1>2, <1>3, <2>1, <2>2, <2>3
<1> HIDE DEF m, v
<1>7. i * m \in Nat /\ t * m \in Nat
  BY <1>1, <1>4
<1>8. i < t => i * m + m <= t * m
  BY <1>1, <1>4, ProductGrows
<1>9. t <= i => t * m <= i * m
  <2>1. t < i => t * m + m <= i * m
    BY <1>1, <1>4, ProductGrows
  <2> QED
    BY <1>1, <1>4, <1>7, <2>1
<1> DEFINE im == i * m
           tm == t * m
<1>10. im \in Nat /\ tm \in Nat /\ At(c, i, u, s) = im + v + 1 /\ PlanLen(c) = tm
  BY <1>6, <1>7
<1>11. (i < t => im + m <= tm) /\ (~(i < t) => tm <= im)
  BY <1>1, <1>8, <1>9
<1> HIDE DEF im, tm
<1>12. m \in Nat /\ v \in Nat /\ v + 1 <= m
  BY <1>4, <1>5
<1>13. At(c, i, u, s) \in Nat \ {0}
  BY <1>10, <1>12
<1>14. ASSUME i < t PROVE At(c, i, u, s) <= PlanLen(c)
  BY <1>10, <1>11, <1>12, <1>14
<1>15. ASSUME ~(i < t) PROVE ~(At(c, i, u, s) <= PlanLen(c))
  BY <1>10, <1>11, <1>12, <1>15
<1>16. At(c, i, u, s) <= PlanLen(c) <=> i < t
  BY <1>14, <1>15
<1> QED
  BY <1>13, <1>16 DEF t

(* The steps of an earlier round are all before the step, and two steps of *)
(* the same round have the same task and repeat.                           *)
LEMMA EarlierRounds ==
    ASSUME NEW c \in Commands, NEW i \in Nat, NEW u \in Repeats(c), NEW s \in Places(c),
           NEW k \in Nat, NEW w \in Repeats(c), NEW z \in Places(c),
           At(c, i, u, s) <= At(c, k, w, z)
    PROVE  \/ i = k /\ u = w
           \/ \A x \in Places(c) : At(c, i, u, x) < At(c, k, w, z)
<1> DEFINE a == Len(Arms[c])
           r == Repeat[c]
           y == Round(c, i, u)
           v == Round(c, k, w)
<1>1. /\ a \in Nat \ {0} /\ r \in Nat \ {0} /\ y \in Nat /\ v \in Nat
      /\ y = i * r + u /\ v = k * r + w /\ u \in 0 .. r - 1 /\ w \in 0 .. r - 1
  BY Sizes, RoundNat DEF Round, Repeats
<1>2. /\ s \in 0 .. a - 1 /\ z \in 0 .. a - 1 /\ Places(c) = 0 .. a - 1
      /\ At(c, k, w, z) = v * a + z + 1
      /\ \A x : At(c, i, u, x) = y * a + x + 1
  BY DEF Places, At
<1> HIDE DEF a, r, y, v
<1>3. y * a \in Nat /\ v * a \in Nat
  BY <1>1
<1>4. CASE y = v
  BY <1>1, <1>4, Unique
<1>5. CASE y < v
  <2>1. y * a + a <= v * a
    BY <1>1, <1>5, ProductGrows
  <2> SUFFICES ASSUME NEW x \in 0 .. a - 1
               PROVE  y * a + x + 1 < v * a + z + 1
    BY <1>2
  <2> DEFINE ya == y * a
             va == v * a
  <2>2. ya \in Nat /\ va \in Nat /\ ya + a <= va
    BY <1>3, <2>1
  <2> HIDE DEF ya, va
  <2>3. ya + x + 1 < va + z + 1
    BY <1>1, <1>2, <2>2
  <2> QED
    BY <2>3 DEF ya, va
<1>6. CASE v < y
  <2>1. v * a + a <= y * a
    BY <1>1, <1>6, ProductGrows
  <2>2. y * a + s + 1 <= v * a + z + 1
    BY <1>2
  <2> DEFINE ya == y * a
             va == v * a
  <2>3. ya \in Nat /\ va \in Nat /\ va + a <= ya /\ ya + s + 1 <= va + z + 1
    BY <1>3, <2>1, <2>2
  <2> HIDE DEF ya, va
  <2>4. FALSE
    BY <1>1, <1>2, <2>3
  <2> QED
    BY <2>4
<1> QED
  BY <1>1, <1>4, <1>5, <1>6

(***************************************************************************)
(* What has been recorded                                                  *)
(***************************************************************************)

HasRun(c, n) == \E r \in runs : r.cmd = c /\ r.step = n
Recordings == InDetails \cup {"recorded"}

(* The runs of a command are those of all the steps before the one it is   *)
(* at, and of that one once its run has been inserted.                     *)
Filled(c) ==
    /\ \A n \in Nat : 1 <= n /\ n < step[c] => HasRun(c, n)
    /\ pc[c] \in Recordings => HasRun(c, step[c])

(* A run that was measured has its metrics and its validations once the    *)
(* step is over, or at the place the recording has reached.                *)
Measured(c) ==
    \A r \in runs : r.cmd = c /\ r.status # "error" =>
        /\ r.step < step[c] \/ pc[c] \in {"validations rows", "recorded"}
             => Of(metrics, r) # {}
        /\ r.step < step[c] \/ pc[c] = "recorded"
             => Of(validations, r) # {}

Ended(c) == pc[c] = "done" => ~(step[c] <= PlanLen(c))

RInv == \A c \in Commands : Filled(c) /\ Measured(c) /\ Ended(c)

(* How a step gets there.                                                  *)
Progress(c) ==
    /\ step'[c] = step[c] \/ (step'[c] = step[c] + 1 /\ pc[c] = "recorded")
    /\ pc'[c] \in Recordings =>
         /\ step'[c] = step[c]
         /\ pc[c] \in Recordings \/ runs' = runs \cup {RunOf(c)}
    /\ pc'[c] \in {"validations rows", "recorded"} =>
         \/ pc[c] \in {"validations rows", "recorded"}
         \/ InsertRunMetrics(c)
    /\ pc'[c] = "recorded" => pc[c] = "recorded" \/ InsertRunValidations(c)
    /\ pc'[c] = "done" =>
         pc[c] = "done" \/ (step[c] > PlanLen(c) /\ step'[c] = step[c])
    /\ pc[c] = "done" => pc'[c] = "done" /\ step'[c] = step[c]

LEMMA Progressing ==
    ASSUME Functions, NEW c \in Commands, Act(c) PROVE Progress(c)
<1> USE DEF Functions, Goto, Progress, Recordings, InDetails
<1>1. CASE Cancel(c)
  BY <1>1 DEF Cancel, Stopped
<1>2. CASE Crash(c)
  BY <1>2 DEF Crash, Stopped
<1>3. CASE StoreFails(c)
  BY <1>3 DEF StoreFails, OnCommandContext, OnOwnContext, Registering
<1>4. CASE InsertExperiment(c)
  BY <1>4 DEF InsertExperiment
<1>5. CASE LookUp(c)
  BY <1>5 DEF LookUp, AfterProfile
<1>6. CASE InsertProfile(c)
  BY <1>6 DEF InsertProfile, AfterProfile
<1>7. CASE InsertArm(c)
  BY <1>7 DEF InsertArm
<1>8. CASE NextStep(c)
  BY <1>8 DEF NextStep
<1>9. CASE Execute(c)
  BY <1>9 DEF Execute
<1>10. CASE RunError(c)
  BY <1>10 DEF RunError
<1>11. CASE InsertSuite(c)
  BY <1>11 DEF InsertSuite
<1>12. CASE InsertTask(c)
  BY <1>12 DEF InsertTask
<1>13. CASE InsertRun(c)
  BY <1>13 DEF InsertRun, RunOf
<1>14. CASE InsertRunMetrics(c)
  BY <1>14 DEF InsertRunMetrics
<1>15. CASE InsertRunValidations(c)
  BY <1>15 DEF InsertRunValidations
<1>16. CASE Recorded(c)
  BY <1>16 DEF Recorded
<1> QED
  BY <1>1, <1>2, <1>3, <1>4, <1>5, <1>6, <1>7, <1>8,
     <1>9, <1>10, <1>11, <1>12, <1>13, <1>14, <1>15, <1>16
     DEF Act, Advance

LEMMA RInit == Init => RInv
<1> SUFFICES ASSUME Init, NEW c \in Commands PROVE Filled(c) /\ Measured(c) /\ Ended(c)
  BY DEF RInv
<1>1. runs = {} /\ step[c] = 1 /\ pc[c] \notin Recordings /\ pc[c] # "done"
  BY DEF Init, Recordings, InDetails
<1>2. \A n \in Nat : ~(1 <= n /\ n < 1)
  OBVIOUS
<1> QED
  BY <1>1, <1>2 DEF Filled, Measured, Ended

(* Rows are only added.                                                    *)
LEMMA RowsStay ==
    ASSUME Functions, NEW c \in Commands, Act(c)
    PROVE  /\ runs \subseteq runs' /\ metrics \subseteq metrics'
           /\ validations \subseteq validations'
           /\ \A d, n : HasRun(d, n) => HasRun(d, n)'
           /\ \A r : /\ Of(metrics, r) # {} => Of(metrics', r) # {}
                     /\ Of(validations, r) # {} => Of(validations', r) # {}
<1>1. runs \subseteq runs'
  BY TablesGrow
<1>2. metrics' = metrics \/ metrics' = metrics \cup {MetricOf(c)}
  BY Adds, Zenon
<1>3. validations' = validations \/ validations' = validations \cup {ValidationOf(c)}
  BY Adds, Zenon
<1>4. metrics \subseteq metrics' /\ validations \subseteq validations'
  BY <1>2, <1>3
<1> QED
  BY <1>1, <1>4 DEF HasRun, Of

LEMMA FilledKept ==
    ASSUME TInv, NEW c \in Commands, Act(c), Filled(c) PROVE Filled(c)'
<1>1. Functions /\ Progress(c) /\ step[c] \in Nat
  BY Progressing, StepNumbers DEF TInv
<1>2. \A d, n : HasRun(d, n) => HasRun(d, n)'
  BY <1>1, RowsStay
<1>3. ASSUME NEW n \in Nat, 1 <= n, n < step'[c] PROVE HasRun(c, n)'
  <2>1. CASE step'[c] = step[c]
    BY <1>2, <1>3, <2>1 DEF Filled
  <2>2. CASE step'[c] = step[c] + 1 /\ pc[c] = "recorded"
    <3>1. HasRun(c, step[c])
      BY <2>2 DEF Filled, Recordings
    <3>2. n = step[c] \/ n < step[c]
      BY <1>1, <1>3, <2>2
    <3> QED
      BY <1>2, <1>3, <3>1, <3>2 DEF Filled
  <2> QED
    BY <1>1, <2>1, <2>2 DEF Progress
<1>4. ASSUME pc'[c] \in Recordings PROVE HasRun(c, step[c])'
  <2>1. step'[c] = step[c] /\ (pc[c] \in Recordings \/ runs' = runs \cup {RunOf(c)})
    BY <1>1, <1>4 DEF Progress
  <2>2. CASE pc[c] \in Recordings
    BY <1>2, <2>1, <2>2 DEF Filled
  <2>3. CASE runs' = runs \cup {RunOf(c)}
    <3>1. RunOf(c) \in runs' /\ RunOf(c).cmd = c /\ RunOf(c).step = step[c]
      BY <2>3 DEF RunOf
    <3> QED
      BY <2>1, <3>1 DEF HasRun
  <2> QED
    BY <2>1, <2>2, <2>3
<1> QED
  BY <1>3, <1>4 DEF Filled

(* The run being recorded was measured unless its row says error.          *)
LEMMA MeasuredKept ==
    ASSUME TInv, NEW c \in Commands, Act(c), Behind(c), Recording(c), Measured(c)
    PROVE  Measured(c)'
<1>1. /\ Functions /\ Progress(c) /\ step[c] \in Nat
      /\ \A x \in runs : x.step \in Nat
  BY Progressing, StepNumbers DEF TInv
<1>2. \A r : /\ Of(metrics, r) # {} => Of(metrics', r) # {}
             /\ Of(validations, r) # {} => Of(validations', r) # {}
  BY <1>1, RowsStay
<1> SUFFICES ASSUME NEW r \in runs', r.cmd = c, r.status # "error"
             PROVE  /\ r.step < step'[c] \/ pc'[c] \in {"validations rows", "recorded"}
                         => Of(metrics', r) # {}
                    /\ r.step < step'[c] \/ pc'[c] = "recorded"
                         => Of(validations', r) # {}
  BY DEF Measured, Of
<1>3. CASE r \in runs
  <2>1. r.step \in Nat /\ r.step <= step[c]
    BY <1>1, <1>3 DEF Behind
  <2>2. r.step < step'[c] => r.step < step[c] \/ pc[c] = "recorded"
    BY <1>1, <2>1 DEF Progress
  <2>3. CASE r.step < step[c]
    BY <1>2, <1>3, <2>3 DEF Measured
  <2>4. CASE ~(r.step < step[c])
    <3>1. r.step = step[c]
      BY <1>1, <2>1, <2>4
    <3>2. pc[c] \in InDetails => outcome[c] # "not started"
      BY <1>3, <3>1 DEF Recording, Status
    <3>3. ASSUME InsertRunMetrics(c) PROVE Of(metrics', r) # {}
      <4>1. metrics' = metrics \cup {MetricOf(c)}
        BY <3>2, <3>3 DEF InsertRunMetrics, InDetails, MetricOf
      <4>2. MetricOf(c).cmd = c /\ MetricOf(c).step = step[c]
        BY DEF MetricOf
      <4> QED
        BY <3>1, <4>1, <4>2 DEF Of
    <3>4. ASSUME InsertRunValidations(c) PROVE Of(validations', r) # {}
      <4>1. validations' = validations \cup {ValidationOf(c)}
        BY <3>2, <3>4 DEF InsertRunValidations, InDetails, ValidationOf
      <4>2. ValidationOf(c).cmd = c /\ ValidationOf(c).step = step[c]
        BY DEF ValidationOf
      <4> QED
        BY <3>1, <4>1, <4>2 DEF Of
    <3>5. pc[c] \in {"validations rows", "recorded"} => Of(metrics', r) # {}
      BY <1>2, <1>3 DEF Measured
    <3>6. pc[c] = "recorded" => Of(validations', r) # {}
      BY <1>2, <1>3 DEF Measured
    <3> QED
      BY <1>1, <2>2, <2>4, <3>3, <3>4, <3>5, <3>6 DEF Progress
  <2> QED
    BY <2>3, <2>4
<1>4. CASE pc[c] = "run row" /\ r = RunOf(c)
  <2>1. RunOf(c).step = step[c]
    BY DEF RunOf
  <2>2. r.step = step[c]
    BY <1>4, <2>1, Zenon
  <2>3. step'[c] = step[c]
    BY <1>1, <1>4 DEF Progress
  <2>4. ~(r.step < step'[c])
    BY <1>1, <2>2, <2>3
  <2>5. pc'[c] \notin {"validations rows", "recorded"}
    <3>1. ~InsertRunMetrics(c) /\ ~InsertRunValidations(c)
      BY <1>4 DEF InsertRunMetrics, InsertRunValidations
    <3> QED
      BY <1>1, <1>4, <3>1 DEF Progress
  <2> QED
    BY <2>4, <2>5
<1> QED
  BY <1>1, <1>3, <1>4, Adds

LEMMA EndedKept ==
    ASSUME TInv, NEW c \in Commands, Act(c), Ended(c) PROVE Ended(c)'
<1>1. /\ Progress(c) /\ step[c] \in Nat /\ PlanLen(c) \in Nat
  BY Progressing, StepNumbers, PlanLenNat DEF TInv
<1>2. step[c] > PlanLen(c) => ~(step[c] <= PlanLen(c))
  BY <1>1
<1>3. PlanLen(c)' = PlanLen(c)
  BY DEF PlanLen
<1> QED
  BY <1>1, <1>2, <1>3 DEF Progress, Ended

LEMMA RStep == TInv /\ SInv /\ RInv /\ [Next]_vars => RInv'
<1> SUFFICES ASSUME TInv, SInv, RInv, [Next]_vars,
                    NEW d \in Commands
             PROVE  Filled(d)' /\ Measured(d)' /\ Ended(d)'
  BY DEF RInv
<1>0. Filled(d) /\ Measured(d) /\ Ended(d) /\ Behind(d) /\ Recording(d)
  BY DEF RInv, SInv, CInv
<1>1. CASE UNCHANGED vars
  BY <1>0, <1>1 DEF Filled, Measured, Ended, HasRun, Of, PlanLen, vars, tables, locals
<1>2. ASSUME NEW c \in Commands, Act(c) PROVE Filled(d)' /\ Measured(d)' /\ Ended(d)'
  <2>1. CASE d = c
    BY <1>0, <1>2, <2>1, FilledKept, MeasuredKept, EndedKept
  <2>2. CASE d # c
    <3>1. /\ SameLocals(d) /\ Functions
      BY <1>2, <2>2, Others DEF TInv
    <3>2. \A r \in runs' : r.cmd = d => r \in runs
      <4>1. RunOf(c).cmd = c
        BY DEF RunOf
      <4>2. runs' = runs \/ runs' = runs \cup {RunOf(c)}
        BY <1>2, <3>1, Adds, Zenon
      <4> QED
        BY <2>2, <4>1, <4>2
    <3>3. /\ \A n : HasRun(d, n) => HasRun(d, n)'
          /\ \A r : /\ Of(metrics, r) # {} => Of(metrics', r) # {}
                    /\ Of(validations, r) # {} => Of(validations', r) # {}
      BY <1>2, <3>1, RowsStay
    <3>4. Filled(d)'
      BY <1>0, <3>1, <3>3 DEF Filled, SameLocals, HasRun
    <3>5. Measured(d)'
      BY <1>0, <3>1, <3>2, <3>3 DEF Measured, SameLocals, Of
    <3>6. Ended(d)'
      BY <1>0, <3>1 DEF Ended, SameLocals, PlanLen
    <3> QED
      BY <3>4, <3>5, <3>6
  <2> QED
    BY <2>1, <2>2
<1> QED
  BY <1>1, <1>2, NextAct

LEMMA RInvAlways == Spec => []RInv
  BY RInit, RStep, SInvAlways, TInvAlways, PTL DEF Spec

(***************************************************************************)
(* A command that completes                                                *)
(***************************************************************************)

Product(c) == [task : ToSet(Tasks[c]), arm : ToSet(Arms[c]), repeat : 0 .. Repeat[c] - 1]

(* The plan is the whole product of tasks, arms and repeats.               *)
LEMMA PlanIsTheProduct ==
    ASSUME NEW c \in Commands
    PROVE  {PlanStep(c, n) : n \in Steps(c)} = Product(c)
<1>1. /\ Len(Arms[c]) \in Nat \ {0} /\ DOMAIN Arms[c] = 1 .. Len(Arms[c])
      /\ Len(Tasks[c]) \in Nat \ {0} /\ DOMAIN Tasks[c] = 1 .. Len(Tasks[c])
      /\ PlanLen(c) \in Nat
  BY Sizes, PlanLenNat
<1>2. ASSUME NEW n \in Steps(c) PROVE PlanStep(c, n) \in Product(c)
  <2>1. n \in Nat \ {0} /\ n <= PlanLen(c)
    BY <1>1, <1>2 DEF Steps
  <2>2. PICK i \in Nat, u \in Repeats(c), s \in Places(c) : n = At(c, i, u, s)
    BY <2>1, Coordinates
  <2>3. i + 1 \in DOMAIN Tasks[c] /\ s + 1 \in DOMAIN Arms[c]
    <3>1. i < Len(Tasks[c])
      BY <2>1, <2>2, InPlan
    <3> QED
      BY <1>1, <3>1 DEF Places
  <2>4. PlanStep(c, n) = [task |-> Tasks[c][i + 1], arm |-> Arms[c][s + 1], repeat |-> u]
    BY <2>2, PlanAt
  <2> QED
    BY <2>3, <2>4 DEF Product, Repeats, ToSet
<1>3. ASSUME NEW p \in Product(c) PROVE \E n \in Steps(c) : p = PlanStep(c, n)
  <2>1. /\ p = [task |-> p.task, arm |-> p.arm, repeat |-> p.repeat]
        /\ p.task \in ToSet(Tasks[c]) /\ p.arm \in ToSet(Arms[c]) /\ p.repeat \in Repeats(c)
    BY <1>3 DEF Product, Repeats
  <2>2. PICK j \in DOMAIN Tasks[c], k \in DOMAIN Arms[c] :
          p.task = Tasks[c][j] /\ p.arm = Arms[c][k]
    BY <2>1 DEF ToSet
  <2> DEFINE i == j - 1
             s == k - 1
  <2>3. /\ i \in Nat /\ i < Len(Tasks[c]) /\ i + 1 = j
        /\ s \in Places(c) /\ s + 1 = k
    BY <1>1 DEF Places
  <2> HIDE DEF i, s
  <2> DEFINE n == At(c, i, p.repeat, s)
  <2>4. n \in Steps(c)
    <3>1. n \in Nat \ {0} /\ n <= PlanLen(c)
      BY <2>1, <2>3, InPlan
    <3> HIDE DEF n
    <3> QED
      BY <1>1, <3>1 DEF Steps
  <2>5. PlanStep(c, n) = [task |-> Tasks[c][i + 1], arm |-> Arms[c][s + 1], repeat |-> p.repeat]
    BY <2>1, <2>3, PlanAt
  <2>6. PlanStep(c, n) = p
    BY <2>1, <2>2, <2>3, <2>5
  <2> QED
    BY <2>4, <2>6
<1> QED
  BY <1>2, <1>3

(* A command that completes has run every task as often as asked with      *)
(* every arm, and recorded each run in full.                               *)
THEOREM CompletesInFull == Spec => []DoneIsComplete
<1>1. TInv /\ SInv /\ RInv => DoneIsComplete
  <2> SUFFICES ASSUME TInv, SInv, RInv, NEW c \in Commands, pc[c] = "done"
               PROVE  /\ Planned(c) = Product(c)
                      /\ \A r \in RunsOf(c) :
                           r.status # "error" => Of(metrics, r) # {} /\ Of(validations, r) # {}
    BY DEF DoneIsComplete, Product
  <2>1. /\ Filled(c) /\ Measured(c) /\ ~(step[c] <= PlanLen(c))
        /\ step[c] \in Nat /\ PlanLen(c) \in Nat
    BY StepNumbers, PlanLenNat DEF RInv, Ended
  <2>2. \A r \in runs : r.cmd = c => r.step \in Steps(c)
    BY DEF TInv, Rows, RunRow
  <2>3. \A n \in Steps(c) : n \in Nat /\ 1 <= n /\ n < step[c]
    BY <2>1 DEF Steps
  <2>4. \A n \in Steps(c) : HasRun(c, n)
    BY <2>1, <2>3 DEF Filled
  <2>5. Planned(c) = {PlanStep(c, n) : n \in Steps(c)}
    BY <2>2, <2>4 DEF Planned, RunsOf, HasRun
  <2>6. \A r \in RunsOf(c) :
          r.status # "error" => Of(metrics, r) # {} /\ Of(validations, r) # {}
    BY <2>1, <2>2, <2>3 DEF RunsOf, Measured
  <2> QED
    BY <2>5, <2>6, PlanIsTheProduct
<1> QED
  BY <1>1, RInvAlways, SInvAlways, TInvAlways, PTL

(***************************************************************************)
(* However a command ends                                                  *)
(***************************************************************************)

(* With(l) of Interleaved.                                                 *)
WithArm(c, T, l) == {p \in Planned(c) : p.arm = l /\ p.task \in T}

LEMMA PlannedFinite ==
    ASSUME TInv, NEW c \in Commands PROVE IsFiniteSet(Planned(c))
<1>1. PlanLen(c) \in Nat /\ \A r \in runs : r.cmd = c => r.step \in Steps(c)
  BY PlanLenNat DEF TInv, Rows, RunRow
<1>2. IsFiniteSet(Steps(c))
  BY <1>1, FS_Interval DEF Steps
<1> DEFINE S == {PlanStep(c, n) : n \in Steps(c)}
           f == [n \in Steps(c) |-> PlanStep(c, n)]
<1>3. f \in [Steps(c) -> S] /\ \A x \in S : \E n \in Steps(c) : f[n] = x
  OBVIOUS
<1>4. f \in Surjection(Steps(c), S)
  BY <1>3 DEF Surjection
<1>5. IsFiniteSet(S)
  BY <1>2, <1>4, FS_Surjection
<1>6. Planned(c) \in SUBSET S
  BY <1>1 DEF Planned, RunsOf
<1> QED
  BY <1>5, <1>6, FS_Subset

(* Whatever ran with one arm has run with every other, except perhaps in   *)
(* the round the command is in, which has one step for the arm.            *)
LEMMA RoundsAreFull ==
    ASSUME TInv, SInv, RInv, NEW c \in Commands, NEW l, NEW k \in ToSet(Arms[c])
    PROVE  \E last : \A p \in Planned(c) : p.arm = l =>
             \/ p = last
             \/ [p EXCEPT !.arm = k] \in Planned(c)
<1>1. /\ Behind(c) /\ Filled(c) /\ step[c] \in Nat \ {0} /\ PlanLen(c) \in Nat
      /\ \A r \in runs : r.cmd = c => r.step \in Steps(c)
      /\ DOMAIN Arms[c] = 1 .. Len(Arms[c]) /\ Len(Arms[c]) \in Nat \ {0}
  BY PlanLenNat, Sizes DEF SInv, CInv, RInv, TInv, Rows, RunRow, Functions, Ranges
<1>2. PICK i0 \in Nat, u0 \in Repeats(c), s0 \in Places(c) : step[c] = At(c, i0, u0, s0)
  BY <1>1, Coordinates
<1>3. PICK z \in Places(c) : k = Arms[c][z + 1]
  <2>1. PICK j \in 1 .. Len(Arms[c]) : k = Arms[c][j]
    BY <1>1 DEF ToSet
  <2>2. j - 1 \in Places(c) /\ (j - 1) + 1 = j
    BY <1>1 DEF Places
  <2> QED
    BY <2>1, <2>2
<1> DEFINE last == [task |-> Tasks[c][i0 + 1], arm |-> l, repeat |-> u0]
<1>4. ASSUME NEW p \in Planned(c), p.arm = l
      PROVE  p = last \/ [p EXCEPT !.arm = k] \in Planned(c)
  <2>1. PICK r \in runs : r.cmd = c /\ p = PlanStep(c, r.step)
    BY <1>4 DEF Planned, RunsOf
  <2>2. r.step \in Nat \ {0} /\ r.step <= step[c]
    BY <1>1, <2>1 DEF Behind, Steps
  <2>3. PICK i \in Nat, u \in Repeats(c), s \in Places(c) : r.step = At(c, i, u, s)
    BY <2>2, Coordinates
  <2>4. p = [task |-> Tasks[c][i + 1], arm |-> Arms[c][s + 1], repeat |-> u]
    BY <2>1, <2>3, PlanAt
  <2>5. CASE i = i0 /\ u = u0
    BY <1>4, <2>4, <2>5
  <2>6. CASE At(c, i, u, z) < step[c]
    <3> DEFINE n == At(c, i, u, z)
    <3>1. n \in Nat \ {0}
      BY InPlan
    <3>2. PlanStep(c, n) = [task |-> Tasks[c][i + 1], arm |-> k, repeat |-> u]
      BY <1>3, PlanAt
    <3> HIDE DEF n
    <3>3. n < step[c] /\ 1 <= n
      BY <2>6, <3>1 DEF n
    <3>4. PICK x \in runs : x.cmd = c /\ x.step = n
      BY <1>1, <3>1, <3>3 DEF Filled, HasRun
    <3>5. PlanStep(c, n) \in Planned(c)
      BY <3>4 DEF Planned, RunsOf
    <3> QED
      BY <2>4, <3>2, <3>5
  <2>7. (i = i0 /\ u = u0) \/ At(c, i, u, z) < step[c]
    <3>1. At(c, i, u, s) <= At(c, i0, u0, s0)
      BY <1>2, <2>2, <2>3
    <3> QED
      BY <1>2, <1>3, <3>1, EarlierRounds
  <2> QED
    BY <2>5, <2>6, <2>7
<1> QED
  BY <1>4

(* A set that all but one of whose elements map into another, one to one,  *)
(* has at most one element more.                                           *)
LEMMA OneMore ==
    ASSUME NEW S, NEW D, IsFiniteSet(S), IsFiniteSet(D), NEW last,
           NEW f \in Injection(S \ {last}, D)
    PROVE  Cardinality(S) <= Cardinality(D) + 1
<1> DEFINE U == S \ {last}
<1>1. Cardinality(U) <= Cardinality(D)
  BY FS_Injection
<1>2. IsFiniteSet(U)
  BY FS_RemoveElement
<1>3. last \notin U /\ S \in SUBSET (U \cup {last})
  OBVIOUS
<1> HIDE DEF U
<1>4. IsFiniteSet(U \cup {last}) /\ Cardinality(U \cup {last}) = Cardinality(U) + 1
  BY <1>2, <1>3, FS_AddElement, Zenon
<1>5. Cardinality(S) <= Cardinality(U \cup {last})
  BY <1>3, <1>4, FS_Subset, Zenon
<1>6. Cardinality(S) \in Nat /\ Cardinality(D) \in Nat /\ Cardinality(U) \in Nat
  BY <1>2, FS_CardinalityType, Zenon
<1> QED
  BY <1>1, <1>4, <1>5, <1>6

(* However a command ends, the arms have been compared on equal terms: no  *)
(* arm has two runs more than another, on any of the tasks.                *)
THEOREM EqualTerms == Spec => []Interleaved
<1>1. TInv /\ SInv /\ RInv => Interleaved
  <2> SUFFICES ASSUME TInv, SInv, RInv, NEW c \in Commands,
                      NEW T \in SUBSET ToSet(Tasks[c]),
                      NEW l \in ToSet(Arms[c]), NEW k \in ToSet(Arms[c])
               PROVE  Cardinality(WithArm(c, T, l)) <= Cardinality(WithArm(c, T, k)) + 1
    BY DEF Interleaved, WithArm
  <2> DEFINE S == WithArm(c, T, l)
             D == WithArm(c, T, k)
  <2>1. IsFiniteSet(S) /\ IsFiniteSet(D)
    <3>1. S \in SUBSET Planned(c) /\ D \in SUBSET Planned(c)
      BY DEF WithArm
    <3> QED
      BY <3>1, PlannedFinite, FS_Subset
  <2>2. PICK last : \A p \in Planned(c) : p.arm = l =>
                      p = last \/ [p EXCEPT !.arm = k] \in Planned(c)
    BY RoundsAreFull
  <2>3. \A p \in Planned(c) : p = [task |-> p.task, arm |-> p.arm, repeat |-> p.repeat]
    BY DEF Planned, PlanStep
  <2> DEFINE f == [p \in S \ {last} |-> [p EXCEPT !.arm = k]]
  <2>4. f \in [S \ {last} -> D]
    <3> SUFFICES ASSUME NEW p \in S \ {last} PROVE [p EXCEPT !.arm = k] \in D
      OBVIOUS
    <3>1. p \in Planned(c) /\ p.arm = l /\ p.task \in T
      BY DEF WithArm
    <3>2. [p EXCEPT !.arm = k] \in Planned(c)
      BY <2>2, <3>1
    <3>3. [p EXCEPT !.arm = k].arm = k /\ [p EXCEPT !.arm = k].task = p.task
      BY <2>3, <3>1
    <3> QED
      BY <3>1, <3>2, <3>3 DEF WithArm
  <2>5. \A p, q \in S \ {last} : f[p] = f[q] => p = q
    <3> SUFFICES ASSUME NEW p \in S, NEW q \in S,
                        [p EXCEPT !.arm = k] = [q EXCEPT !.arm = k]
                 PROVE  p = q
      OBVIOUS
    <3>1. /\ p = [task |-> p.task, arm |-> l, repeat |-> p.repeat]
          /\ q = [task |-> q.task, arm |-> l, repeat |-> q.repeat]
      BY <2>3 DEF WithArm
    <3>2. /\ [p EXCEPT !.arm = k] = [task |-> p.task, arm |-> k, repeat |-> p.repeat]
          /\ [q EXCEPT !.arm = k] = [task |-> q.task, arm |-> k, repeat |-> q.repeat]
      BY <3>1
    <3>3. p.task = q.task /\ p.repeat = q.repeat
      BY <3>2
    <3> QED
      BY <3>1, <3>3
  <2>6. f \in Injection(S \ {last}, D)
    BY <2>4, <2>5 DEF Injection, IsInjective
  <2> QED
    BY <2>1, <2>6, OneMore
<1> QED
  BY <1>1, RInvAlways, SInvAlways, TInvAlways, PTL
===============================================================================
