--------------------------- MODULE LockBase_proofs ---------------------------
(***************************************************************************)
(* LockBase for every number of steps between two cycles of the control    *)
(* loop and every top speed.                                               *)
(*                                                                         *)
(* How far a pinned base gets follows from how many steps ago update wrote *)
(* its pose: each step adds at most one to the speed, so after n of them   *)
(* the base has come n(n+1)/2 at most.  No more than two cycles of steps   *)
(* can pass, because a cycle that finds the flag set goes on to write, and *)
(* as long as the base counts as pinned the flag is set, or the plugin is  *)
(* gone and so are the cycles.                                             *)
(***************************************************************************)
EXTENDS LockBase, TLAPS

\* The flag is what the last answer said, until the plugin is cleaned up.
FlagInv ==
  /\ gone => ~ok
  /\ answer = "locked" => locked \/ gone
  /\ answer = "unlocked" => ~locked
  /\ pinned => answer = "locked"

\* A late write is spent, or it is the one of the cycle under way.
LateInv ==
  /\ late <= 1
  /\ answer = "unlocked" /\ control = "apply" => late = 0

\* The way a pinned base has come since update wrote its pose.
WayInv ==
  pinned =>
    /\ loose <= (IF control = "apply" THEN since + MaxBetween ELSE since)
    /\ speed <= loose
    /\ locked_pose <= base
    /\ 2 * (base - locked_pose) <= loose * (loose + 1)

LockInv == TypeOK /\ FlagInv /\ LateInv /\ WayInv

-----------------------------------------------------------------------------

\* One step more: the sum of the first n numbers grows by the next.
LEMMA OneStepMore ==
  ASSUME NEW n \in Nat, NEW way \in Int, NEW v \in Nat,
         2 * way <= n * (n + 1), v <= n + 1
  PROVE  2 * (way + v) <= (n + 1) * (n + 1 + 1)
<1>1. (n + 1) * (n + 1 + 1) = n * (n + 1) + 2 * (n + 1)
  BY SMT
<1>2. n * (n + 1) \in Int
  OBVIOUS
<1> QED
  BY <1>1, <1>2, SMT

\* Fewer steps, a shorter way.
LEMMA WayGrows ==
  ASSUME NEW m \in Nat, NEW n \in Nat, m <= n
  PROVE  m * (m + 1) <= n * (n + 1)
<1>1. PICK d \in Nat : n = m + d
  BY n - m \in Nat, n = m + (n - m)
<1>2. n * (n + 1) = m * (m + 1) + d * (2 * m + d + 1)
  BY <1>1, SMT
<1>3. d * (2 * m + d + 1) \in Nat /\ m * (m + 1) \in Nat
  OBVIOUS
<1> QED
  BY <1>2, <1>3, SMT

LEMMA LockInit == Init => LockInv
<1> SUFFICES ASSUME Init PROVE LockInv
  OBVIOUS
<1>1. TypeOK
  <2>1. 0 \in 0 .. MaxSpeed /\ 0 \in 0 .. MaxSteps /\ 0 \in 0 .. MaxBetween
    BY LockAssumption
  <2> QED
    BY <2>1 DEF Init, TypeOK
<1>2. FlagInv /\ LateInv /\ WayInv
  BY DEF Init, FlagInv, LateInv, WayInv
<1> QED
  BY <1>1, <1>2 DEF LockInv

\* The types are kept.
LEMMA TypeStep == TypeOK /\ [Next]_vars => TypeOK'
<1> SUFFICES ASSUME TypeOK, [Next]_vars PROVE TypeOK'
  OBVIOUS
<1> USE LockAssumption DEF TypeOK
<1>1. CASE Step
  <2>1. PICK v \in 0 .. MaxSpeed : speed' = v /\ base' = base + v
    BY <1>1 DEF Step
  <2>2. base' \in Nat
    BY <2>1
  <2>3. steps' \in 0 .. MaxSteps /\ since' \in 0 .. MaxBetween /\ loose' \in Nat
    BY <1>1 DEF Step
  <2> QED
    BY <1>1, <2>1, <2>2, <2>3 DEF Step
<1>2. CASE Check
  BY <1>2 DEF Check, history
<1>3. CASE Apply
  BY <1>3 DEF Apply
<1>4. CASE BeginLock \/ Snapshot \/ Store
  BY <1>4 DEF BeginLock, Snapshot, Store, physics, history
<1>5. CASE Unlock
  BY <1>5 DEF Unlock, physics
<1>6. CASE Shutdown \/ Cleanup
  BY <1>6 DEF Shutdown, Cleanup, physics, history
<1>7. CASE UNCHANGED vars
  BY <1>7 DEF vars, physics, history
<1> QED
  BY <1>1, <1>2, <1>3, <1>4, <1>5, <1>6, <1>7 DEF Next

\* The flag follows the answers.
LEMMA FlagStep == TypeOK /\ FlagInv /\ [Next]_vars => FlagInv'
<1> SUFFICES ASSUME TypeOK, FlagInv, [Next]_vars PROVE FlagInv'
  OBVIOUS
<1> USE DEF FlagInv
<1>1. CASE Step \/ Check
  BY <1>1 DEF Step, Check, history
<1>2. CASE Apply
  BY <1>2 DEF Apply
<1>3. CASE BeginLock \/ Snapshot \/ Store
  BY <1>3 DEF BeginLock, Snapshot, Store, history
<1>4. CASE Unlock
  BY <1>4 DEF Unlock
<1>5. CASE Shutdown \/ Cleanup
  BY <1>5 DEF Shutdown, Cleanup, history
<1>6. CASE UNCHANGED vars
  BY <1>6 DEF vars, history
<1> QED
  BY <1>1, <1>2, <1>3, <1>4, <1>5, <1>6 DEF Next

\* A cycle that begins after the answer does not find the flag.
LEMMA LateStep == TypeOK /\ FlagInv /\ LateInv /\ [Next]_vars => LateInv'
<1> SUFFICES ASSUME TypeOK, FlagInv, LateInv, [Next]_vars PROVE LateInv'
  OBVIOUS
<1> USE DEF LateInv
<1>1. CASE Step
  BY <1>1 DEF Step
<1>2. CASE Check
  BY <1>2 DEF Check, history, FlagInv
<1>3. CASE Apply
  BY <1>3 DEF Apply, TypeOK
<1>4. CASE BeginLock \/ Snapshot \/ Store
  BY <1>4 DEF BeginLock, Snapshot, Store, history
<1>5. CASE Unlock
  BY <1>5 DEF Unlock
<1>6. CASE Shutdown \/ Cleanup
  BY <1>6 DEF Shutdown, Cleanup, history
<1>7. CASE UNCHANGED vars
  BY <1>7 DEF vars, history
<1> QED
  BY <1>1, <1>2, <1>3, <1>4, <1>5, <1>6, <1>7 DEF Next

\* The way is that of the steps since the last write, and these are counted
\* by the cycles.
LEMMA WayStep == TypeOK /\ FlagInv /\ WayInv /\ [Next]_vars => WayInv'
<1> SUFFICES ASSUME TypeOK, FlagInv, WayInv, [Next]_vars, pinned' PROVE WayInv'
  BY DEF WayInv
<1> USE LockAssumption
<1>1. CASE Step
  <2>1. pinned
    BY <1>1 DEF Step
  <2>2. /\ loose' = loose + 1 /\ since' = since + 1
        /\ control' = control /\ locked_pose' = locked_pose
    BY <1>1 DEF Step
  <2>3. PICK v \in Nat : v <= speed + 1 /\ speed' = v /\ base' = base + v
    BY <1>1 DEF Step, TypeOK
  <2> DEFINE way == base - locked_pose
  <2>4. 2 * (way + v) <= (loose + 1) * (loose + 1 + 1)
    <3>1. way \in Int /\ loose \in Nat
      BY DEF TypeOK
    <3>2. 2 * way <= loose * (loose + 1) /\ v <= loose + 1
      BY <2>1, <2>3 DEF WayInv, TypeOK
    <3> HIDE DEF way
    <3> QED
      BY <3>1, <3>2, OneStepMore
  <2>5. base' - locked_pose' = way + v
    BY <2>2, <2>3 DEF TypeOK
  <2>6. 2 * (base' - locked_pose') <= loose' * (loose' + 1)
    BY <2>2, <2>4, <2>5
  <2>7. loose' <= (IF control' = "apply" THEN since' + MaxBetween ELSE since')
    BY <2>1, <2>2 DEF WayInv, TypeOK
  <2>8. speed' <= loose' /\ locked_pose' <= base'
    BY <2>1, <2>2, <2>3 DEF WayInv, TypeOK
  <2> QED
    BY <2>6, <2>7, <2>8 DEF WayInv
<1>2. CASE Check
  <2>1. pinned /\ locked
    BY <1>2 DEF Check, history, FlagInv
  <2>2. control' = "apply" /\ since' = 0 /\ loose <= MaxBetween
    BY <1>2, <2>1 DEF Check, WayInv, TypeOK
  <2> QED
    BY <1>2, <2>1, <2>2 DEF Check, history, WayInv, TypeOK
<1>3. CASE Apply
  BY <1>3 DEF Apply, WayInv, TypeOK
<1>4. CASE Snapshot
  <2>1. loose * (loose + 1) \in Nat
    BY DEF TypeOK
  <2> QED
    BY <1>4, <2>1 DEF Snapshot, physics, history, WayInv, TypeOK
<1>5. CASE BeginLock \/ Store
  BY <1>5 DEF BeginLock, Store, physics, history, WayInv
<1>6. CASE Unlock
  BY <1>6 DEF Unlock
<1>7. CASE Shutdown \/ Cleanup
  BY <1>7 DEF Shutdown, Cleanup, physics, history, WayInv
<1>8. CASE UNCHANGED vars
  BY <1>8 DEF vars, physics, history, WayInv
<1> QED
  BY <1>1, <1>2, <1>3, <1>4, <1>5, <1>6, <1>7, <1>8 DEF Next

-----------------------------------------------------------------------------

\* The inductive invariant.
THEOREM LockInvariant == Spec => []LockInv
<1>1. LockInv /\ [Next]_vars => LockInv'
  BY TypeStep, FlagStep, LateStep, WayStep DEF LockInv
<1> QED
  BY <1>1, LockInit, PTL DEF Spec

\* Every variable stays in its set.
THEOREM TypeCorrect == Spec => []TypeOK
  BY LockInvariant, PTL DEF LockInv

\* A pinned base stays within Reach of its pose, whatever the number of steps
\* between two cycles.
THEOREM BaseStays == Spec => []StaysPut
<1>1. LockInv => StaysPut
  <2> SUFFICES ASSUME LockInv, pinned
               PROVE  base \in locked_pose .. locked_pose + Reach
    BY DEF StaysPut
  <2> USE LockAssumption
  <2> DEFINE n == 2 * MaxBetween
  <2>1. loose \in Nat /\ n \in Nat /\ loose <= n
    BY DEF LockInv, WayInv, TypeOK
  <2>2. loose * (loose + 1) <= n * (n + 1)
    BY <2>1, WayGrows
  <2>3. n * (n + 1) = 2 * Reach /\ Reach \in Nat
    <3>1. (2 * MaxBetween) * (2 * MaxBetween + 1)
            = 2 * (MaxBetween * (2 * MaxBetween + 1))
      BY SMT
    <3> QED
      BY <3>1 DEF Reach
  <2>4. /\ base \in Nat /\ locked_pose \in Nat /\ locked_pose <= base
        /\ 2 * (base - locked_pose) <= loose * (loose + 1)
    BY DEF LockInv, WayInv, TypeOK
  <2>5. loose * (loose + 1) \in Int /\ n * (n + 1) \in Int
    BY <2>1
  <2> HIDE DEF n
  <2>6. 2 * (base - locked_pose) <= 2 * Reach
    BY <2>2, <2>3, <2>4, <2>5
  <2> QED
    BY <2>3, <2>4, <2>6
<1> QED
  BY <1>1, LockInvariant, PTL

\* After an unlock was answered the pose is written once more at most.
THEOREM LateOnce == Spec => []OneLateWrite
<1>1. LockInv => OneLateWrite
  BY DEF LockInv, LateInv, OneLateWrite
<1> QED
  BY <1>1, LockInvariant, PTL
=============================================================================
