-------------------------- MODULE GovernanceProofs --------------------------
(***************************************************************************)
(* Proofs about Governance, for every set of accounts and every number of  *)
(* transactions.  The argument is about locks.  A transaction that has     *)
(* checked its form holds the rows of actor and target, so what it checked *)
(* still holds when it writes; a setup that has found the history empty    *)
(* holds the governance row, so it is still empty when it writes.  The     *)
(* continuity of administrators then needs no counting: the actor of a     *)
(* form is an active administrator other than the target, and stays one.   *)
(*                                                                         *)
(* At the end both models side by side, as MCGovernance runs them: what    *)
(* AreasAndGroupsProofs proves of areas and groups holds of its instance.  *)
(***************************************************************************)
EXTENDS MCGovernance, FiniteSetTheorems, TLAPS

\* What is proved of areas and groups, at the constants of MCGovernance.
Proved == INSTANCE AreasAndGroupsProofs
    WITH Users <- Accounts, Slots <- Tasks, MaxRevision <- MaxChanges, task <- request

USE DEF users, locks

-----------------------------------------------------------------------------
(* The inductive invariant. *)

Kind(t, kinds) == task[t] # Idle /\ task[t].kind \in kinds
At(t, kinds, steps) == Kind(t, kinds) /\ task[t].step \in steps

\* A transaction past its first lock holds the governance row.
GovernanceHeld ==
    \A t \in Tasks :
        At(t, Setups \cup {"role", "suspend"}, {"first", "second", "check", "write"})
        => governance = t

\* A transaction holds the user rows it has taken.
RowsHeld ==
    \A t \in Tasks :
        /\ At(t, Locking, {"second"}) => locked[Lower(task[t])] = t
        /\ At(t, Locking, {"check", "write"}) =>
             locked[task[t].actor] = t /\ locked[task[t].target] = t

\* Nobody changes their own role or suspends themselves.
OthersOnly ==
    \A t \in Tasks : Kind(t, {"role", "suspend"}) => task[t].actor # task[t].target

\* What was checked under the locks is still so.
FormChecked ==
    \A t \in Tasks :
        At(t, Locking, {"write"}) => ValidActor(task[t]) /\ ValidTarget(task[t])

SetupChecked ==
    \A t \in Tasks : At(t, Setups, {"write"}) => bootstraps = 0

LockInv == GovernanceHeld /\ RowsHeld /\ OthersOnly
IInv == TypeOK /\ LockInv /\ FormChecked /\ SetupChecked
        /\ SingleBootstrap /\ AdministratorContinuity

-----------------------------------------------------------------------------
(* Types. *)

\* The kind and the step of a transaction say what else its record holds.
LEMMA KindType ==
    ASSUME TypeOK, NEW t \in Tasks, task[t] # Idle
    PROVE  /\ task[t] \in Forms \cup SetupCalls
           /\ task[t].kind \in Setups => task[t] \in SetupCalls
           /\ task[t].kind \notin Setups => task[t] \in Forms
           /\ task[t].step \in {"first", "second"} => task[t] \in Forms
  BY DEF TypeOK, Forms, SetupCalls, Setups

LEMMA NextUserType ==
    ASSUME NEW x \in Forms
    PROVE  Lower(x) \in Users /\ Higher(x) \in Users /\ NextUser(x) \in Users
  BY DEF Forms, Lower, Higher, NextUser

LEMMA EndType ==
    ASSUME TypeOK, NEW t \in Tasks, End(t)
    PROVE  /\ governance' \in Tasks \cup {NoTask}
           /\ locked' \in [Users -> Tasks \cup {NoTask}]
           /\ task' \in [Tasks -> {Idle} \cup Forms \cup SetupCalls]
  BY DEF TypeOK, End

LEMMA StepType ==
    ASSUME TypeOK, NEW t \in Tasks, task[t] # Idle, NEW s,
           \/ task[t] \in Forms /\ s \in {"first", "second", "check", "write"}
           \/ task[t] \in SetupCalls /\ s \in {"check", "write"},
           task' = [task EXCEPT ![t].step = s]
    PROVE  task' \in [Tasks -> {Idle} \cup Forms \cup SetupCalls]
  <1>1. CASE task[t] \in Forms /\ s \in {"first", "second", "check", "write"}
    <2>1. [task[t] EXCEPT !.step = s] \in Forms
      BY <1>1 DEF Forms
    <2> QED BY <2>1 DEF TypeOK
  <1>2. CASE task[t] \in SetupCalls /\ s \in {"check", "write"}
    <2>1. [task[t] EXCEPT !.step = s] \in SetupCalls
      BY <1>2 DEF SetupCalls
    <2> QED BY <2>1 DEF TypeOK
  <1> QED BY <1>1, <1>2

LEMMA TypeStep == TypeOK /\ FormChecked /\ [Next]_vars => TypeOK'
<1> SUFFICES ASSUME TypeOK, FormChecked, [Next]_vars PROVE TypeOK'
  OBVIOUS
<1>1. CASE Login \/ Logout
  BY <1>1 DEF Login, Logout, TypeOK
<1>2. ASSUME NEW t \in Tasks, LoadInitialAdministratorSetup(t) PROVE TypeOK'
  <2>1. [kind |-> "claim", step |-> "governance", target |-> First] \in SetupCalls
    BY UsersAssumption DEF SetupCalls, Setups
  <2> QED BY <1>2, <2>1 DEF LoadInitialAdministratorSetup, TypeOK
<1>3. ASSUME NEW t \in Tasks, NEW u \in Users, StartBootstrap(t, u) PROVE TypeOK'
  <2>1. [kind |-> "bootstrap", step |-> "governance", target |-> u] \in SetupCalls
    BY DEF SetupCalls, Setups
  <2> QED BY <1>3, <2>1 DEF StartBootstrap, TypeOK
<1>4. ASSUME NEW t \in Tasks, NEW a \in Users, NEW u \in Users, NEW to \in Roles,
             NEW kind \in Locking, StartForm(t, kind, a, u, to)
      PROVE  TypeOK'
  <2>1. [kind |-> kind, step |-> IF kind = "membership" THEN "first" ELSE "governance",
         actor |-> a, as |-> role[a], target |-> u, to |-> to, was |-> role[u],
         revision |-> revision[u]] \in Forms
    BY DEF Forms, Locking, TypeOK
  <2> QED BY <1>4, <2>1 DEF StartForm, TypeOK
<1>5. ASSUME NEW t \in Tasks, LockGovernanceState(t) PROVE TypeOK'
  <2> DEFINE s == IF task[t].kind \in Setups THEN "check" ELSE "first"
  <2>1. task' \in [Tasks -> {Idle} \cup Forms \cup SetupCalls]
    <3>1. task' = [task EXCEPT ![t].step = s] /\ task[t] # Idle
      BY <1>5 DEF LockGovernanceState
    <3>2. \/ task[t] \in Forms /\ s \in {"first", "second", "check", "write"}
          \/ task[t] \in SetupCalls /\ s \in {"check", "write"}
      BY <3>1, KindType
    <3> HIDE DEF s
    <3> QED BY <3>1, <3>2, StepType
  <2> QED BY <1>5, <2>1 DEF LockGovernanceState, TypeOK
<1>6. ASSUME NEW t \in Tasks, LockAdministrationUsers(t) PROVE TypeOK'
  <2>1. task[t] # Idle /\ task[t] \in Forms
    BY <1>6, KindType DEF LockAdministrationUsers
  <2>2. [task[t] EXCEPT !.step = IF @ = "first" THEN "second" ELSE "check"] \in Forms
    BY <2>1 DEF Forms
  <2>3. NextUser(task[t]) \in Users
    BY <2>1, NextUserType
  <2> QED BY <1>6, <2>2, <2>3 DEF LockAdministrationUsers, TypeOK
<1>7. ASSUME NEW t \in Tasks, CheckSetupOpen(t) PROVE TypeOK'
  <2>1. task[t] # Idle /\ task[t] \in SetupCalls
    BY <1>7, KindType DEF CheckSetupOpen
  <2> QED BY <1>7, <2>1, StepType DEF CheckSetupOpen, TypeOK
<1>8. ASSUME NEW t \in Tasks, BootstrapAdministrator(t) PROVE TypeOK'
  <2>1. bootstraps' \in Nat
    <3>1. bootstraps \in Nat /\ bootstraps' = bootstraps + 1
      BY <1>8 DEF BootstrapAdministrator, TypeOK
    <3> QED BY <3>1
  <2>2. role' \in [Users -> Roles]
    <3>1. role' = [role EXCEPT ![task[t].target] = "administrator"]
      BY <1>8 DEF BootstrapAdministrator
    <3> QED BY <3>1 DEF TypeOK, Roles
  <2>3. End(t) /\ UNCHANGED <<suspended, revision, session>>
    BY <1>8 DEF BootstrapAdministrator
  <2> QED BY <2>1, <2>2, <2>3, EndType DEF TypeOK
<1>9. ASSUME NEW t \in Tasks, ClaimInitialAdministrator(t) PROVE TypeOK'
  <2>1. bootstraps' \in Nat
    <3>1. bootstraps \in Nat /\ bootstraps' = bootstraps + 1
      BY <1>9 DEF ClaimInitialAdministrator, TypeOK
    <3> QED BY <3>1
  <2>2. role' \in [Users -> Roles]
    <3>1. role' = [role EXCEPT ![First] = "administrator"]
      BY <1>9 DEF ClaimInitialAdministrator
    <3> QED BY <3>1 DEF TypeOK, Roles
  <2>3. End(t) /\ session' = FALSE /\ UNCHANGED <<suspended, revision>>
    BY <1>9 DEF ClaimInitialAdministrator
  <2> QED BY <2>1, <2>2, <2>3, EndType DEF TypeOK
<1>10. ASSUME NEW t \in Tasks, CheckForm(t) PROVE TypeOK'
  <2>1. task[t] # Idle /\ task[t] \in Forms
    BY <1>10, KindType DEF CheckForm, Locking, Setups
  <2> QED BY <1>10, <2>1, StepType DEF CheckForm, TypeOK
<1>11. ASSUME NEW t \in Tasks, WriteForm(t) PROVE TypeOK'
  <2>1. task[t] # Idle /\ task[t] \in Forms
    BY <1>11, KindType DEF WriteForm, Locking, Setups
  <2>2. revision[task[t].target] \in 1..(MaxRevision - 1)
    BY <1>11, <2>1, RevisionAssumption
    DEF WriteForm, FormChecked, At, Kind, ValidTarget, Forms, TypeOK
  <2>3. revision' \in [Users -> 1..MaxRevision]
    <3>1. revision' = [revision EXCEPT ![task[t].target] = @ + 1]
      BY <1>11 DEF WriteForm
    <3>2. revision[task[t].target] + 1 \in 1..MaxRevision
      BY <2>2, RevisionAssumption
    <3> QED BY <3>1, <3>2 DEF TypeOK
  <2>4. role' \in [Users -> Roles] /\ suspended' \in [Users -> BOOLEAN] /\ session' \in BOOLEAN
    BY <1>11, <2>1 DEF WriteForm, TypeOK, Forms
  <2> QED BY <1>11, <2>3, <2>4, EndType DEF WriteForm, TypeOK
<1>12. ASSUME NEW t \in Tasks, NEW a \in Users, NEW u \in Users,
              SnapshotReinstatement(t, a, u)
       PROVE  TypeOK'
  <2>1. [kind |-> "reinstate", step |-> "write", actor |-> a, as |-> role[a],
         target |-> u, to |-> role[u], was |-> role[u], revision |-> revision[u]] \in Forms
    BY DEF Forms, TypeOK
  <2> QED BY <1>12, <2>1 DEF SnapshotReinstatement, TypeOK
<1>13. ASSUME NEW t \in Tasks, CompleteReinstatement(t) PROVE TypeOK'
  <2>1. task[t] # Idle /\ task[t] \in Forms
    BY <1>13, KindType DEF CompleteReinstatement, Setups
  <2>2. revision' \in [Users -> 1..MaxRevision] /\ suspended' \in [Users -> BOOLEAN]
    BY <1>13, <2>1, RevisionAssumption DEF CompleteReinstatement, TypeOK, Forms
  <2> QED BY <1>13, <2>2, EndType DEF CompleteReinstatement, TypeOK
<1>14. ASSUME NEW t \in Tasks, Rollback(t) PROVE TypeOK'
  BY <1>14, EndType DEF Rollback, TypeOK
<1>15. CASE UNCHANGED vars
  BY <1>15 DEF vars, TypeOK
<1> QED
  BY <1>1, <1>2, <1>3, <1>4, <1>5, <1>6, <1>7, <1>8, <1>9, <1>10, <1>11, <1>12, <1>13,
     <1>14, <1>15 DEF Next

-----------------------------------------------------------------------------
(* Locks. *)

\* What a step of t leaves to the others: their records, their locks, and the
\* rows they have locked.
Foreign(t) ==
    \A s \in Tasks \ {t} :
        /\ task'[s] = task[s]
        /\ governance = s => governance' = s
        /\ \A u \in Users : locked[u] = s =>
             /\ locked'[u] = s
             /\ role'[u] = role[u] /\ suspended'[u] = suspended[u]
             /\ revision'[u] = revision[u]

LEMMA EndForeign ==
    ASSUME TypeOK, NEW t \in Tasks, End(t),
           \A u \in Users : locked[u] \in Tasks \ {t} =>
               role'[u] = role[u] /\ suspended'[u] = suspended[u] /\ revision'[u] = revision[u]
    PROVE  Foreign(t) /\ task'[t] = Idle
  BY DEF TypeOK, End, Foreign

\* The invariant of t itself, after its step.
LockInvOf(t) ==
    /\ At(t, Setups \cup {"role", "suspend"}, {"first", "second", "check", "write"})
       => governance = t
    /\ At(t, Locking, {"second"}) => locked[Lower(task[t])] = t
    /\ At(t, Locking, {"check", "write"}) =>
         locked[task[t].actor] = t /\ locked[task[t].target] = t
    /\ Kind(t, {"role", "suspend"}) => task[t].actor # task[t].target

CheckedOf(t) ==
    /\ At(t, Locking, {"write"}) => ValidActor(task[t]) /\ ValidTarget(task[t])
    /\ At(t, Setups, {"write"}) => bootstraps = 0

LEMMA FormsOfLocking ==
    ASSUME TypeOK, NEW t \in Tasks, Kind(t, Locking)
    PROVE  /\ task[t] \in Forms /\ task[t].actor \in Users /\ task[t].target \in Users
           /\ Lower(task[t]) \in Users /\ Higher(task[t]) \in Users
  BY KindType, NextUserType DEF Kind, Locking, Setups, Forms

\* The others keep their part of the invariant.
LEMMA ForeignLocks ==
    ASSUME TypeOK, LockInv, NEW t \in Tasks, Foreign(t), LockInvOf(t)'
    PROVE  LockInv'
<1> SUFFICES ASSUME NEW s \in Tasks PROVE LockInvOf(s)'
  BY DEF LockInv, LockInvOf, GovernanceHeld, RowsHeld, OthersOnly
<1>1. CASE s = t
  BY <1>1
<1>2. CASE s # t
  <2>1. task'[s] = task[s] /\ (governance = s => governance' = s)
    BY <1>2 DEF Foreign
  <2>2. \A u \in Users : locked[u] = s => locked'[u] = s
    BY <1>2 DEF Foreign
  <2>3. LockInvOf(s)
    BY DEF LockInv, LockInvOf, GovernanceHeld, RowsHeld, OthersOnly
  <2>4. (At(s, Setups \cup {"role", "suspend"}, {"first", "second", "check", "write"})
         => governance = s)'
    BY <2>1, <2>3 DEF LockInvOf, At, Kind
  <2>5. (At(s, Locking, {"second"}) => locked[Lower(task[s])] = s)'
    BY <2>1, <2>2, <2>3, FormsOfLocking DEF LockInvOf, At, Kind, Lower
  <2>6. (At(s, Locking, {"check", "write"}) =>
           locked[task[s].actor] = s /\ locked[task[s].target] = s)'
    BY <2>1, <2>2, <2>3, FormsOfLocking DEF LockInvOf, At, Kind
  <2>7. (Kind(s, {"role", "suspend"}) => task[s].actor # task[s].target)'
    BY <2>1, <2>3 DEF LockInvOf, Kind
  <2> QED BY <2>4, <2>5, <2>6, <2>7 DEF LockInvOf
<1> QED BY <1>1, <1>2

\* What the others have checked stays checked.  Only the holder of the
\* governance row adds to the history.
LEMMA ForeignChecks ==
    ASSUME TypeOK, LockInv, FormChecked, SetupChecked, NEW t \in Tasks, Foreign(t),
           CheckedOf(t)',
           bootstraps' = bootstraps \/ At(t, Setups, {"write"})
    PROVE  FormChecked' /\ SetupChecked'
<1> SUFFICES ASSUME NEW s \in Tasks PROVE CheckedOf(s)'
  BY DEF FormChecked, SetupChecked, CheckedOf
<1>1. CASE s = t
  BY <1>1
<1>2. CASE s # t
  <2>1. task'[s] = task[s]
    BY <1>2 DEF Foreign
  <2>2. ASSUME At(s, Locking, {"write"})
        PROVE  ValidActor(task[s])' /\ ValidTarget(task[s])'
    <3>1. ValidActor(task[s]) /\ ValidTarget(task[s])
      BY <2>2 DEF FormChecked
    <3>2. /\ task[s].actor \in Users /\ task[s].target \in Users
          /\ locked[task[s].actor] = s /\ locked[task[s].target] = s
      BY <2>2, FormsOfLocking DEF At, LockInv, RowsHeld
    <3>3. \A u \in {task[s].actor, task[s].target} :
            role'[u] = role[u] /\ suspended'[u] = suspended[u] /\ revision'[u] = revision[u]
      BY <1>2, <3>2 DEF Foreign
    <3> QED BY <2>1, <3>1, <3>3 DEF ValidActor, ValidTarget, NotSuspendedYet
  <2>3. ASSUME At(s, Setups, {"write"})
        PROVE  bootstraps' = 0
    <3>1. bootstraps = 0
      BY <2>3 DEF SetupChecked
    <3>2. ~At(t, Setups, {"write"})
      BY <1>2, <2>3 DEF LockInv, GovernanceHeld, At, Kind
    <3> QED BY <3>1, <3>2
  <2> QED BY <2>1, <2>2, <2>3 DEF CheckedOf, At, Kind
<1> QED BY <1>1, <1>2

\* One step of t, whichever it is.
TaskStep(t) ==
    \/ LoadInitialAdministratorSetup(t)
    \/ \E u \in Users : StartBootstrap(t, u)
    \/ \E a, u \in Users, to \in Roles, kind \in Locking : StartForm(t, kind, a, u, to)
    \/ LockGovernanceState(t) \/ LockAdministrationUsers(t)
    \/ CheckSetupOpen(t) \/ BootstrapAdministrator(t) \/ ClaimInitialAdministrator(t)
    \/ CheckForm(t) \/ WriteForm(t)
    \/ \E a, u \in Users : SnapshotReinstatement(t, a, u)
    \/ CompleteReinstatement(t)
    \/ Rollback(t)

Kept(t) ==
    /\ Foreign(t) /\ LockInvOf(t)' /\ CheckedOf(t)'
    /\ bootstraps' = bootstraps \/ At(t, Setups, {"write"})

\* A transaction that ends holds nothing and has nothing to keep.
LEMMA EndKept ==
    ASSUME NEW t \in Tasks, Foreign(t), task'[t] = Idle,
           bootstraps' = bootstraps \/ At(t, Setups, {"write"})
    PROVE  Kept(t)
  BY DEF Kept, LockInvOf, CheckedOf, At, Kind

\* A transaction that starts holds nothing yet.
LEMMA StartKept ==
    ASSUME TypeOK, NEW t \in Tasks, NEW x, task[t] = Idle, task' = [task EXCEPT ![t] = x],
           UNCHANGED <<users, bootstraps, locks>>,
           \/ x.kind \in Setups /\ x.step = "governance"
           \/ x.kind \in Locking /\ x.step \in {"governance", "first"}
              /\ (x.kind # "membership" => x.step = "governance" /\ x.actor # x.target)
           \/ x.kind = "reinstate"
    PROVE  Kept(t)
<1>1. task'[t] = x
  BY DEF TypeOK
<1>2. Foreign(t)
  BY DEF TypeOK, Foreign
<1>3. LockInvOf(t)' /\ CheckedOf(t)'
  BY <1>1 DEF LockInvOf, CheckedOf, At, Kind, Setups, Locking
<1> QED BY <1>2, <1>3 DEF Kept

LEMMA TaskKept ==
    ASSUME TypeOK, LockInv, FormChecked, SetupChecked, NEW t \in Tasks, TaskStep(t)
    PROVE  Kept(t)
<1>1. CASE LoadInitialAdministratorSetup(t)
  BY <1>1, StartKept DEF LoadInitialAdministratorSetup, Setups
<1>2. ASSUME NEW u \in Users, StartBootstrap(t, u) PROVE Kept(t)
  BY <1>2, StartKept DEF StartBootstrap, Setups
<1>3. ASSUME NEW a \in Users, NEW u \in Users, NEW to \in Roles, NEW kind \in Locking,
             StartForm(t, kind, a, u, to)
      PROVE  Kept(t)
  <2> DEFINE x == [kind |-> kind, step |-> IF kind = "membership" THEN "first" ELSE "governance",
                   actor |-> a, as |-> role[a], target |-> u, to |-> to, was |-> role[u],
                   revision |-> revision[u]]
  <2>1. task[t] = Idle /\ task' = [task EXCEPT ![t] = x]
        /\ UNCHANGED <<users, bootstraps, locks>>
    BY <1>3 DEF StartForm
  <2>2. /\ x.kind \in Locking /\ x.step \in {"governance", "first"}
        /\ x.kind # "membership" => x.step = "governance" /\ x.actor # x.target
    BY <1>3 DEF StartForm, Locking
  <2> HIDE DEF x
  <2> QED BY <2>1, <2>2, StartKept
<1>4. CASE LockGovernanceState(t)
  <2>1. /\ task[t] # Idle /\ task'[t] = [task[t] EXCEPT !.step =
               IF task[t].kind \in Setups THEN "check" ELSE "first"]
        /\ governance' = t /\ governance = NoTask
    BY <1>4 DEF LockGovernanceState, TypeOK
  <2>2. task'[t].step \in {"check", "first"} /\ task'[t].kind = task[t].kind
        /\ (task'[t].step = "check" => task[t].kind \in Setups)
    BY <2>1, KindType DEF Forms, SetupCalls
  <2>3. task[t] \in Forms => task'[t].actor = task[t].actor /\ task'[t].target = task[t].target
    BY <2>1 DEF Forms
  <2>4. LockInvOf(t)' /\ CheckedOf(t)'
    <3>1. Kind(t, {"role", "suspend"})' => (task[t].actor # task[t].target)'
      BY <2>1, <2>2, <2>3, KindType DEF Kind, LockInv, OthersOnly, Setups
    <3> QED BY <2>1, <2>2, <3>1 DEF LockInvOf, CheckedOf, At, Kind, Setups, Locking
  <2>5. Foreign(t)
    BY <1>4, <2>1, TasksAssumption DEF LockGovernanceState, Foreign, TypeOK
  <2> QED BY <1>4, <2>4, <2>5 DEF Kept, LockGovernanceState
<1>5. CASE LockAdministrationUsers(t)
  <2>1. task[t] # Idle /\ task[t] \in Forms /\ NextUser(task[t]) \in Users
    BY <1>5, KindType, NextUserType DEF LockAdministrationUsers
  <2>2. /\ task'[t] = [task[t] EXCEPT !.step = IF @ = "first" THEN "second" ELSE "check"]
        /\ locked[NextUser(task[t])] \in {NoTask, t}
        /\ locked' = [locked EXCEPT ![NextUser(task[t])] = t]
        /\ task[t].step \in {"first", "second"}
        /\ UNCHANGED <<users, bootstraps, session, governance>>
    BY <1>5 DEF LockAdministrationUsers, TypeOK
  <2>3. /\ task'[t].step = IF task[t].step = "first" THEN "second" ELSE "check"
        /\ task'[t].kind = task[t].kind
        /\ task'[t].actor = task[t].actor /\ task'[t].target = task[t].target
    BY <2>1, <2>2 DEF Forms
  <2>4. Foreign(t)
    <3>1. \A s \in Tasks \ {t} : task'[s] = task[s]
      BY <1>5 DEF LockAdministrationUsers, TypeOK
    <3>2. \A s \in Tasks \ {t} : \A u \in Users : locked[u] = s => locked'[u] = s
      BY <2>1, <2>2, TasksAssumption DEF TypeOK
    <3> QED BY <2>2, <3>1, <3>2 DEF Foreign
  <2>5. At(t, Locking, {"second"})' => (locked[Lower(task[t])] = t)'
    BY <2>1, <2>2, <2>3, NextUserType DEF At, Kind, NextUser, Lower, TypeOK
  <2>6. At(t, Locking, {"check", "write"})' =>
          (locked[task[t].actor] = t /\ locked[task[t].target] = t)'
    <3> SUFFICES ASSUME At(t, Locking, {"check", "write"})'
                 PROVE  (locked[task[t].actor] = t /\ locked[task[t].target] = t)'
      OBVIOUS
    <3>1. task[t].step = "second" /\ At(t, Locking, {"second"})
      BY <2>1, <2>2, <2>3 DEF At, Kind
    <3>2. locked[Lower(task[t])] = t
      BY <3>1 DEF LockInv, RowsHeld
    <3>3. locked'[Lower(task[t])] = t /\ locked'[Higher(task[t])] = t
      BY <2>1, <2>2, <3>1, <3>2, NextUserType DEF NextUser, TypeOK
    <3> QED BY <2>3, <3>3 DEF Lower, Higher
  <2>7. At(t, Setups \cup {"role", "suspend"}, {"first", "second", "check", "write"})'
        => governance' = t
    BY <2>1, <2>2, <2>3 DEF At, Kind, LockInv, GovernanceHeld
  <2>8. Kind(t, {"role", "suspend"})' => (task[t].actor # task[t].target)'
    BY <2>1, <2>3 DEF Kind, LockInv, OthersOnly
  <2>9. CheckedOf(t)'
    BY <2>2, <2>3 DEF CheckedOf, At
  <2> QED BY <2>2, <2>4, <2>5, <2>6, <2>7, <2>8, <2>9 DEF Kept, LockInvOf
<1>6. CASE CheckSetupOpen(t)
  <2>1. task[t] # Idle /\ task[t] \in SetupCalls /\ task[t].step = "check"
    BY <1>6, KindType DEF CheckSetupOpen
  <2>2. task'[t] = [task[t] EXCEPT !.step = "write"] /\ bootstraps = 0
        /\ UNCHANGED <<users, bootstraps, session, locks>>
    BY <1>6 DEF CheckSetupOpen, TypeOK
  <2>3. task'[t].step = "write" /\ task'[t].kind = task[t].kind /\ task[t].kind \in Setups
    BY <2>1, <2>2 DEF SetupCalls
  <2>4. LockInvOf(t)' /\ CheckedOf(t)'
    <3>1. governance = t
      BY <2>1, <2>3 DEF LockInv, GovernanceHeld, At, Kind
    <3> QED BY <2>2, <2>3, <3>1 DEF LockInvOf, CheckedOf, At, Kind, Setups, Locking
  <2>5. Foreign(t)
    BY <1>6 DEF CheckSetupOpen, Foreign, TypeOK
  <2> QED BY <2>2, <2>4, <2>5 DEF Kept
<1>7. CASE BootstrapAdministrator(t)
  <2>1. \A u \in Users : locked[u] \in Tasks \ {t} => role'[u] = role[u]
    BY <1>7, TasksAssumption DEF BootstrapAdministrator, TypeOK
  <2>2. Foreign(t) /\ task'[t] = Idle
    BY <1>7, <2>1, EndForeign DEF BootstrapAdministrator
  <2>3. At(t, Setups, {"write"})
    BY <1>7 DEF BootstrapAdministrator, At, Kind, Setups
  <2> QED BY <2>2, <2>3, EndKept
<1>8. CASE ClaimInitialAdministrator(t)
  <2>1. \A u \in Users : locked[u] \in Tasks \ {t} => role'[u] = role[u]
    BY <1>8, TasksAssumption DEF ClaimInitialAdministrator, TypeOK
  <2>2. Foreign(t) /\ task'[t] = Idle
    BY <1>8, <2>1, EndForeign DEF ClaimInitialAdministrator
  <2>3. At(t, Setups, {"write"})
    BY <1>8 DEF ClaimInitialAdministrator, At, Kind, Setups
  <2> QED BY <2>2, <2>3, EndKept
<1>9. CASE CheckForm(t)
  <2>1. task[t] # Idle /\ task[t] \in Forms /\ task[t].step = "check" /\ task[t].kind \in Locking
        /\ ValidActor(task[t]) /\ ValidTarget(task[t])
    BY <1>9, KindType DEF CheckForm, Locking, Setups
  <2>2. task'[t] = [task[t] EXCEPT !.step = "write"]
        /\ UNCHANGED <<users, bootstraps, session, locks>>
    BY <1>9 DEF CheckForm, TypeOK
  <2>3. /\ task'[t].step = "write" /\ task'[t].kind = task[t].kind
        /\ task'[t].actor = task[t].actor /\ task'[t].target = task[t].target
        /\ task'[t].as = task[t].as /\ task'[t].was = task[t].was
        /\ task'[t].revision = task[t].revision
    BY <2>1, <2>2 DEF Forms
  <2>4. ValidActor(task[t])' /\ ValidTarget(task[t])'
    BY <2>1, <2>2, <2>3 DEF ValidActor, ValidTarget, NotSuspendedYet
  <2>5. LockInvOf(t)
    BY DEF LockInv, LockInvOf, GovernanceHeld, RowsHeld, OthersOnly
  <2>6. LockInvOf(t)'
    BY <2>1, <2>2, <2>3, <2>5 DEF LockInvOf, At, Kind
  <2>7. CheckedOf(t)'
    BY <2>1, <2>3, <2>4 DEF CheckedOf, At, Kind, Setups, Locking
  <2>8. Foreign(t)
    BY <1>9 DEF CheckForm, Foreign, TypeOK
  <2> QED BY <2>2, <2>6, <2>7, <2>8 DEF Kept
<1>10. CASE WriteForm(t)
  <2>1. locked[task[t].target] = t
    BY <1>10 DEF WriteForm, LockInv, RowsHeld, At, Kind
  <2>2. \A u \in Users : locked[u] \in Tasks \ {t} =>
          role'[u] = role[u] /\ suspended'[u] = suspended[u] /\ revision'[u] = revision[u]
    BY <1>10, <2>1 DEF WriteForm, TypeOK
  <2> QED BY <1>10, <2>2, EndForeign, EndKept DEF WriteForm
<1>11. ASSUME NEW a \in Users, NEW u \in Users, SnapshotReinstatement(t, a, u)
       PROVE  Kept(t)
  BY <1>11, StartKept DEF SnapshotReinstatement
<1>12. CASE CompleteReinstatement(t)
  <2>1. \A u \in Users : locked[u] \in Tasks \ {t} =>
          suspended'[u] = suspended[u] /\ revision'[u] = revision[u]
    BY <1>12, TasksAssumption DEF CompleteReinstatement, TypeOK
  <2> QED BY <1>12, <2>1, EndForeign, EndKept DEF CompleteReinstatement
<1>13. CASE Rollback(t)
  BY <1>13, EndForeign, EndKept DEF Rollback
<1> QED
  BY <1>1, <1>2, <1>3, <1>4, <1>5, <1>6, <1>7, <1>8, <1>9, <1>10, <1>11, <1>12, <1>13
  DEF TaskStep

-----------------------------------------------------------------------------
(* Safety. *)

\* A form that may be written leaves an active administrator: its actor.
LEMMA ActorRemains ==
    ASSUME TypeOK, OthersOnly, FormChecked, AdministratorContinuity,
           NEW t \in Tasks, WriteForm(t)
    PROVE  AdministratorContinuity'
<1> DEFINE x == task[t]
<1>1. /\ At(t, Locking, {"write"}) /\ x \in Forms /\ x.actor \in Users /\ x.target \in Users
      /\ bootstraps' = bootstraps
      /\ role' = IF x.kind = "role" THEN [role EXCEPT ![x.target] = x.to] ELSE role
      /\ suspended' = [suspended EXCEPT ![x.target] = @ \/ x.kind = "suspend"]
  BY FormsOfLocking DEF WriteForm, At, Kind
<1>2. ValidActor(x)
  BY <1>1 DEF FormChecked
<1>3. CASE x.kind = "membership"
  <2>1. role' = role /\ suspended' = suspended
    BY <1>1, <1>3 DEF TypeOK
  <2> QED BY <1>1, <2>1 DEF AdministratorContinuity, ActiveAdministrators
<1>4. CASE x.kind # "membership"
  <2>1. x.actor # x.target
    BY <1>1, <1>4 DEF OthersOnly, At, Kind, Locking
  <2>2. CASE x.as = "administrator"
    <3>1. role'[x.actor] = "administrator" /\ ~suspended'[x.actor]
      BY <1>1, <1>2, <2>1, <2>2 DEF ValidActor, TypeOK
    <3> QED BY <1>1, <3>1 DEF AdministratorContinuity, ActiveAdministrators
  <2>3. CASE x.as # "administrator"
    <3>1. role' = role /\ role[x.target] = "member"
          /\ \A u \in Users \ {x.target} : suspended'[u] = suspended[u]
      BY <1>1, <1>2, <2>3 DEF ValidActor, TypeOK
    <3> QED BY <1>1, <3>1 DEF AdministratorContinuity, ActiveAdministrators
  <2> QED BY <2>2, <2>3
<1> QED BY <1>3, <1>4

LEMMA SetupMakesAdministrator ==
    ASSUME TypeOK, SetupChecked, NEW t \in Tasks,
           BootstrapAdministrator(t) \/ ClaimInitialAdministrator(t)
    PROVE  SingleBootstrap' /\ AdministratorContinuity'
<1>1. At(t, Setups, {"write"})
  BY DEF BootstrapAdministrator, ClaimInitialAdministrator, At, Kind, Setups
<1>2. bootstraps = 0 /\ bootstraps' = bootstraps + 1
  BY <1>1 DEF SetupChecked, BootstrapAdministrator, ClaimInitialAdministrator
<1>3. PICK u \in Users : role' = [role EXCEPT ![u] = "administrator"] /\ ~suspended[u]
  <2>1. task[t].target \in Users
    BY <1>1, KindType DEF At, Kind, SetupCalls
  <2> QED BY <2>1, UsersAssumption DEF BootstrapAdministrator, ClaimInitialAdministrator
<1>4. suspended' = suspended
  BY DEF BootstrapAdministrator, ClaimInitialAdministrator
<1>5. u \in ActiveAdministrators'
  BY <1>3, <1>4 DEF ActiveAdministrators, TypeOK
<1> QED BY <1>2, <1>5 DEF SingleBootstrap, AdministratorContinuity

\* A step of a transaction either is one of the two above or takes no
\* administrator away.
LEMMA SafetyStep ==
    ASSUME IInv, NEW t \in Tasks, TaskStep(t)
    PROVE  SingleBootstrap' /\ AdministratorContinuity'
<1> USE DEF IInv, LockInv
<1>1. CASE BootstrapAdministrator(t) \/ ClaimInitialAdministrator(t)
  BY <1>1, SetupMakesAdministrator
<1>2. CASE WriteForm(t)
  BY <1>2, ActorRemains DEF WriteForm, SingleBootstrap
<1>3. CASE CompleteReinstatement(t)
  <2>1. role' = role /\ bootstraps' = bootstraps
    BY <1>3 DEF CompleteReinstatement
  <2>2. \A u \in Users : ~suspended[u] => ~suspended'[u]
    BY <1>3 DEF CompleteReinstatement, TypeOK
  <2> QED BY <2>1, <2>2 DEF SingleBootstrap, AdministratorContinuity, ActiveAdministrators
<1>4. CASE UNCHANGED <<users, bootstraps>>
  BY <1>4 DEF SingleBootstrap, AdministratorContinuity, ActiveAdministrators
<1>5. \/ BootstrapAdministrator(t) \/ ClaimInitialAdministrator(t) \/ WriteForm(t)
      \/ CompleteReinstatement(t) \/ UNCHANGED <<users, bootstraps>>
  BY DEF TaskStep, LoadInitialAdministratorSetup, StartBootstrap, StartForm,
         LockGovernanceState, LockAdministrationUsers, CheckSetupOpen, CheckForm,
         SnapshotReinstatement, Rollback
<1> QED BY <1>1, <1>2, <1>3, <1>4, <1>5

LEMMA Initial == Init => IInv
<1> SUFFICES ASSUME Init PROVE IInv
  OBVIOUS
<1>1. TypeOK
  <2>1. 1 \in 1..MaxRevision
    BY RevisionAssumption
  <2> QED BY <2>1 DEF Init, TypeOK, Roles
<1>2. \A t \in Tasks : task[t] = Idle
  BY DEF Init
<1>3. LockInv /\ FormChecked /\ SetupChecked
  BY <1>2 DEF LockInv, GovernanceHeld, RowsHeld, OthersOnly, FormChecked, SetupChecked, At, Kind
<1> QED BY <1>1, <1>3 DEF Init, IInv, SingleBootstrap, AdministratorContinuity

LEMMA Step == IInv /\ [Next]_vars => IInv'
<1> SUFFICES ASSUME IInv, [Next]_vars PROVE IInv'
  OBVIOUS
<1>1. TypeOK'
  BY TypeStep DEF IInv
<1>2. ASSUME NEW t \in Tasks, TaskStep(t) PROVE IInv'
  <2>1. Kept(t)
    BY <1>2, TaskKept DEF IInv
  <2>2. LockInv' /\ FormChecked' /\ SetupChecked'
    BY <2>1, ForeignLocks, ForeignChecks DEF IInv, Kept
  <2>3. SingleBootstrap' /\ AdministratorContinuity'
    BY <1>2, SafetyStep
  <2> QED BY <1>1, <2>2, <2>3 DEF IInv
<1>3. CASE Login \/ Logout \/ UNCHANGED vars
  <2>1. UNCHANGED <<role, suspended, revision, bootstraps, governance, locked, task>>
    BY <1>3 DEF Login, Logout, vars
  <2> QED
    BY <1>1, <2>1
    DEF IInv, LockInv, GovernanceHeld, RowsHeld, OthersOnly, FormChecked, SetupChecked, At,
        Kind, ValidActor, ValidTarget, NotSuspendedYet, SingleBootstrap, AdministratorContinuity,
        ActiveAdministrators
<1> QED BY <1>2, <1>3 DEF Next, TaskStep

LEMMA Invariance == Spec => []IInv
BY Initial, Step, PTL DEF Spec

\* In every reachable state the variables have their types; in particular no
\* administration revision passes the largest the column can hold.
THEOREM TypeCorrect == Spec => []TypeOK
<1>1. IInv => TypeOK
  BY DEF IInv
<1> QED BY <1>1, Invariance, PTL

\* However many setup commands and setup pages race, one of them at most makes
\* the first administrator.
THEOREM SingleBootstrapAlways == Spec => []SingleBootstrap
<1>1. IInv => SingleBootstrap
  BY DEF IInv
<1> QED BY <1>1, Invariance, PTL

\* Once there has been an administrator, no overlap of role changes,
\* suspensions and reinstatements leaves the board without an active one.
THEOREM ContinuityAlways == Spec => []AdministratorContinuity
<1>1. IInv => AdministratorContinuity
  BY DEF IInv
<1> QED BY <1>1, Invariance, PTL

-----------------------------------------------------------------------------
(* What a step may do. *)

\* Only the step that writes a form or a reinstatement ends it with a change
\* of the accounts.
LEMMA EndingStep ==
    ASSUME IInv, [Next]_vars, NEW t \in Tasks, task[t] # Idle, task[t].kind \notin Setups,
           task'[t] = Idle, users' # users
    PROVE  WriteForm(t) \/ CompleteReinstatement(t)
<1>1. PICK s \in Tasks : TaskStep(s)
  BY DEF Next, TaskStep, Login, Logout, vars
<1>2. s = t
  BY <1>1, TaskKept DEF Kept, Foreign, IInv
<1>3. \/ BootstrapAdministrator(t) \/ ClaimInitialAdministrator(t) \/ WriteForm(t)
      \/ CompleteReinstatement(t) \/ users' = users
  BY <1>1, <1>2
  DEF TaskStep, LoadInitialAdministratorSetup, StartBootstrap, StartForm,
      LockGovernanceState, LockAdministrationUsers, CheckSetupOpen, CheckForm,
      SnapshotReinstatement, Rollback
<1> QED BY <1>3 DEF BootstrapAdministrator, ClaimInitialAdministrator, Setups

\* No form is written on the word of an actor that is no longer what its
\* session said, or against an account somebody has suspended meanwhile,
\* unless the form suspends it too and was under way.
THEOREM AuthorityAtCommit == Spec => FormsNeedAuthority
<1>1. ASSUME IInv, [Next]_vars, NEW t \in Tasks, task[t] # Idle, task[t].kind \in Locking,
             task'[t] = Idle, users' # users
      PROVE  /\ ~suspended[task[t].actor] /\ role[task[t].actor] = task[t].as
             /\ task[t].as = "administrator" \/ role[task[t].target] = "member"
             /\ suspended[task[t].target] =>
                  task[t].kind = "suspend" /\ revision[task[t].target] > task[t].revision
  <2>1. WriteForm(t)
    BY <1>1, EndingStep DEF Locking, Setups, CompleteReinstatement
  <2>2. ValidActor(task[t]) /\ ValidTarget(task[t])
    BY <1>1, <2>1 DEF WriteForm, IInv, FormChecked, At, Kind
  <2> QED BY <2>2 DEF ValidActor, ValidTarget, NotSuspendedYet
<1>2. IInv /\ [Next]_vars =>
        [\A t \in Tasks :
           /\ task[t] # Idle /\ task[t].kind \in Locking
           /\ task'[t] = Idle /\ users' # users
           => /\ ~suspended[task[t].actor] /\ role[task[t].actor] = task[t].as
              /\ task[t].as = "administrator" \/ role[task[t].target] = "member"
              /\ suspended[task[t].target] =>
                   task[t].kind = "suspend" /\ revision[task[t].target] > task[t].revision]_vars
  BY <1>1
<1> QED BY <1>2, Invariance, PTL DEF Spec, FormsNeedAuthority

\* A form changes the very revision of its target that its page showed.
THEOREM FormsAreFresh == Spec => NoStaleForm
<1>1. ASSUME IInv, [Next]_vars, NEW t \in Tasks, task[t] # Idle,
             task[t].kind \in {"role", "membership", "reinstate"},
             task'[t] = Idle, users' # users
      PROVE  revision[task[t].target] = task[t].revision
  <2>1. CASE WriteForm(t)
    BY <1>1, <2>1 DEF WriteForm, IInv, FormChecked, At, Kind, ValidTarget
  <2>2. CASE CompleteReinstatement(t)
    BY <2>2 DEF CompleteReinstatement
  <2> QED BY <1>1, <2>1, <2>2, EndingStep DEF Setups
<1>2. IInv /\ [Next]_vars =>
        [\A t \in Tasks :
           /\ task[t] # Idle /\ task[t].kind \in {"role", "membership", "reinstate"}
           /\ task'[t] = Idle /\ users' # users
           => revision[task[t].target] = task[t].revision]_vars
  BY <1>1
<1> QED BY <1>2, Invariance, PTL DEF Spec, NoStaleForm

-----------------------------------------------------------------------------
(* Nobody waits in a ring. *)

\* What a transaction holds says how far it is: the governance row once it has
\* passed that step, one row while it asks for the second, and otherwise rows
\* of accounts only when it asks for nothing any more.
HoldsWhatItTook(t) ==
    /\ governance = t => task[t] # Idle /\ task[t].step # "governance"
    /\ \A u \in Users : locked[u] = t =>
         \/ At(t, Locking, {"second"}) /\ u = Lower(task[t])
         \/ At(t, Locking, {"check", "write"})
    /\ Kind(t, {"reinstate"}) => task[t].step = "write"

LocksKnown == \A t \in Tasks : HoldsWhatItTook(t)

\* A step of t gives no lock to another transaction, nor changes its record.
TakesForItself(t) ==
    \A s \in Tasks \ {t} :
        /\ task'[s] = task[s]
        /\ governance' = s => governance = s
        /\ \A u \in Users : locked'[u] = s => locked[u] = s

LEMMA OthersHoldTheSame ==
    ASSUME LocksKnown, NEW t \in Tasks, TakesForItself(t), HoldsWhatItTook(t)'
    PROVE  LocksKnown'
<1> SUFFICES ASSUME NEW s \in Tasks, s # t PROVE HoldsWhatItTook(s)'
  BY DEF LocksKnown
<1>1. task'[s] = task[s] /\ (governance' = s => governance = s)
      /\ \A u \in Users : locked'[u] = s => locked[u] = s
  BY DEF TakesForItself
<1>2. HoldsWhatItTook(s)
  BY DEF LocksKnown
<1> QED BY <1>1, <1>2 DEF HoldsWhatItTook, At, Kind, Lower

\* A transaction that ends releases everything.
LEMMA EndReleases ==
    ASSUME TypeOK, LocksKnown, NEW t \in Tasks, End(t)
    PROVE  LocksKnown'
<1>1. TakesForItself(t)
  BY TasksAssumption DEF End, TypeOK, TakesForItself
<1>2. task'[t] = Idle /\ governance' # t /\ \A u \in Users : locked'[u] # t
  BY TasksAssumption DEF End, TypeOK
<1>3. HoldsWhatItTook(t)'
  BY <1>2 DEF HoldsWhatItTook, Kind
<1> QED BY <1>1, <1>3, OthersHoldTheSame

\* A transaction that starts, or checks what it has locked, locks nothing.
LEMMA NothingLocked ==
    ASSUME TypeOK, LocksKnown, NEW t \in Tasks, NEW x, task' = [task EXCEPT ![t] = x],
           UNCHANGED locks, x # Idle,
           \/ task[t] = Idle /\ (x.kind = "reinstate" => x.step = "write")
           \/ /\ task[t] # Idle /\ task[t].step = "check" /\ x.step = "write"
              /\ x.kind = task[t].kind
    PROVE  LocksKnown'
<1>1. TakesForItself(t)
  BY DEF TakesForItself, TypeOK
<1>2. HoldsWhatItTook(t) /\ task'[t] = x
  BY DEF LocksKnown, TypeOK
<1>3. HoldsWhatItTook(t)'
  BY <1>2 DEF HoldsWhatItTook, At, Kind
<1> QED BY <1>1, <1>3, OthersHoldTheSame

LEMMA LocksStep == TypeOK /\ LocksKnown /\ [Next]_vars => LocksKnown'
<1> SUFFICES ASSUME TypeOK, LocksKnown, [Next]_vars PROVE LocksKnown'
  OBVIOUS
<1>1. CASE Login \/ Logout \/ UNCHANGED vars
  <2>1. UNCHANGED <<locks, task>>
    BY <1>1 DEF Login, Logout, vars
  <2> QED BY <2>1 DEF LocksKnown, HoldsWhatItTook, At, Kind, Lower
<1>2. ASSUME NEW t \in Tasks,
             \/ BootstrapAdministrator(t) \/ ClaimInitialAdministrator(t) \/ WriteForm(t)
             \/ CompleteReinstatement(t) \/ Rollback(t)
      PROVE  LocksKnown'
  BY <1>2, EndReleases
  DEF BootstrapAdministrator, ClaimInitialAdministrator, WriteForm, CompleteReinstatement, Rollback
<1>3. ASSUME NEW t \in Tasks, LoadInitialAdministratorSetup(t) PROVE LocksKnown'
  BY <1>3, NothingLocked DEF LoadInitialAdministratorSetup, Idle
<1>4. ASSUME NEW t \in Tasks, NEW u \in Users, StartBootstrap(t, u) PROVE LocksKnown'
  BY <1>4, NothingLocked DEF StartBootstrap, Idle
<1>5. ASSUME NEW t \in Tasks, NEW a \in Users, NEW u \in Users, NEW to \in Roles,
             NEW kind \in Locking, StartForm(t, kind, a, u, to)
      PROVE  LocksKnown'
  <2> DEFINE x == [kind |-> kind, step |-> IF kind = "membership" THEN "first" ELSE "governance",
                   actor |-> a, as |-> role[a], target |-> u, to |-> to, was |-> role[u],
                   revision |-> revision[u]]
  <2>1. x # Idle /\ x.kind # "reinstate"
    <3>1. x.kind = kind /\ Idle.kind = "idle"
      BY DEF Idle
    <3> QED BY <3>1 DEF Locking
  <2>2. task[t] = Idle /\ task' = [task EXCEPT ![t] = x] /\ UNCHANGED locks
    BY <1>5 DEF StartForm
  <2> HIDE DEF x
  <2> QED BY <2>1, <2>2, NothingLocked
<1>6. ASSUME NEW t \in Tasks, NEW a \in Users, NEW u \in Users, SnapshotReinstatement(t, a, u)
      PROVE  LocksKnown'
  BY <1>6, NothingLocked DEF SnapshotReinstatement, Idle
<1>7. ASSUME NEW t \in Tasks, CheckSetupOpen(t) \/ CheckForm(t) PROVE LocksKnown'
  <2> DEFINE x == [task[t] EXCEPT !.step = "write"]
  <2>1. task[t] # Idle /\ task[t].step = "check" /\ task' = [task EXCEPT ![t] = x] /\ UNCHANGED locks
    BY <1>7 DEF CheckSetupOpen, CheckForm
  <2>2. x.step = "write" /\ x.kind = task[t].kind /\ x.kind # "idle"
    BY <2>1, KindType DEF Forms, SetupCalls, Setups
  <2>3. x # Idle
    BY <2>2 DEF Idle
  <2> HIDE DEF x
  <2> QED BY <2>1, <2>2, <2>3, NothingLocked
<1>8. ASSUME NEW t \in Tasks, LockGovernanceState(t) PROVE LocksKnown'
  <2>1. /\ task[t] # Idle /\ task[t].step = "governance" /\ HoldsWhatItTook(t)
        /\ governance' = t /\ locked' = locked
    BY <1>8 DEF LockGovernanceState, LocksKnown
  <2>2. task'[t].kind = task[t].kind /\ task'[t].step \in {"check", "first"} /\ task'[t] # Idle
    <3>1. task'[t] = [task[t] EXCEPT !.step = IF task[t].kind \in Setups THEN "check" ELSE "first"]
      BY <1>8 DEF LockGovernanceState, TypeOK
    <3>2. task[t].kind # "idle" /\ task[t] \in Forms \cup SetupCalls
      BY <2>1, KindType DEF Forms, SetupCalls, Setups
    <3>3. task'[t].kind = task[t].kind /\ task'[t].step \in {"check", "first"}
      BY <3>1, <3>2 DEF Forms, SetupCalls
    <3> QED BY <3>2, <3>3 DEF Idle
  <2>3. \A u \in Users : locked'[u] # t
    BY <2>1 DEF HoldsWhatItTook, At
  <2>4. ~Kind(t, {"reinstate"})'
    BY <2>1, <2>2 DEF HoldsWhatItTook, Kind
  <2>5. HoldsWhatItTook(t)'
    BY <2>2, <2>3, <2>4 DEF HoldsWhatItTook
  <2>6. TakesForItself(t)
    BY <1>8 DEF LockGovernanceState, TakesForItself, TypeOK
  <2> QED BY <2>5, <2>6, OthersHoldTheSame
<1>9. ASSUME NEW t \in Tasks, LockAdministrationUsers(t) PROVE LocksKnown'
  <2>1. /\ task[t] # Idle /\ task[t] \in Forms /\ NextUser(task[t]) \in Users
        /\ task[t].step \in {"first", "second"} /\ HoldsWhatItTook(t)
        /\ locked' = [locked EXCEPT ![NextUser(task[t])] = t] /\ governance' = governance
    BY <1>9, KindType, NextUserType DEF LockAdministrationUsers, LocksKnown
  <2>2. task[t].kind \in Locking
    BY <2>1 DEF HoldsWhatItTook, Kind, Forms, Locking
  <2>3. /\ task'[t].step = IF task[t].step = "first" THEN "second" ELSE "check"
        /\ task'[t].kind = task[t].kind
        /\ task'[t].actor = task[t].actor /\ task'[t].target = task[t].target
    <3>1. task'[t] = [task[t] EXCEPT !.step = IF @ = "first" THEN "second" ELSE "check"]
      BY <1>9 DEF LockAdministrationUsers, TypeOK
    <3> QED BY <2>1, <3>1 DEF Forms
  <2>4. task'[t] # Idle
    BY <2>2, <2>3 DEF Idle, Locking
  <2>5. \A u \in Users : locked'[u] = t =>
          \/ At(t, Locking, {"second"})' /\ u = Lower(task[t])'
          \/ At(t, Locking, {"check", "write"})'
    <3>1. CASE task[t].step = "second"
      BY <2>2, <2>3, <2>4, <3>1 DEF At, Kind
    <3>2. CASE task[t].step = "first"
      <4>1. \A u \in Users : locked[u] # t
        BY <2>1, <3>2 DEF HoldsWhatItTook, At
      <4>2. \A u \in Users : locked'[u] = t => u = Lower(task[t])
        BY <2>1, <3>2, <4>1 DEF NextUser, TypeOK
      <4> QED BY <2>2, <2>3, <2>4, <3>2, <4>2 DEF At, Kind, Lower
    <3> QED BY <2>1, <3>1, <3>2
  <2>6. HoldsWhatItTook(t)'
    BY <2>1, <2>2, <2>3, <2>4, <2>5 DEF HoldsWhatItTook, Kind, Locking
  <2>7. TakesForItself(t)
    <3>1. \A s \in Tasks \ {t} : task'[s] = task[s]
      BY <1>9 DEF LockAdministrationUsers, TypeOK
    <3>2. \A s \in Tasks \ {t} : \A u \in Users : locked'[u] = s => locked[u] = s
      BY <2>1 DEF TypeOK
    <3> QED BY <2>1, <3>1, <3>2 DEF TakesForItself
  <2> QED BY <2>6, <2>7, OthersHoldTheSame
<1> QED BY <1>1, <1>2, <1>3, <1>4, <1>5, <1>6, <1>7, <1>8, <1>9 DEF Next

\* Who waits for the row of an account waits for someone that holds it and asks
\* for a row of a larger id.
LEMMA WaitsUpwards ==
    ASSUME TypeOK, RowsHeld, LocksKnown, NEW t \in Tasks, NEW s \in Tasks, NEW r \in Tasks,
           task[t] # Idle, task[t].step # "governance", Waits(t, s), Waits(s, r)
    PROVE  /\ At(s, Locking, {"second"}) /\ Lower(task[s]) \in Users
           /\ At(t, Locking, {"second"}) => Lower(task[s]) > Lower(task[t])
<1>1. PICK u \in Users :
        /\ locked[u] = s
        /\ At(t, Locking, {"second"}) => u = Higher(task[t])
  <2>1. CASE task[t].step \in {"first", "second"} /\ locked[NextUser(task[t])] = s
    <3>1. task[t] \in Forms
      BY <2>1, KindType
    <3>2. NextUser(task[t]) \in Users
      BY <3>1, NextUserType
    <3> QED BY <2>1, <3>2 DEF NextUser, At
  <2>2. CASE task[t].step = "write" /\ task[t].kind \notin Locking /\ locked[task[t].target] = s
    <3>1. task[t].target \in Users
      BY KindType DEF Forms, SetupCalls
    <3> QED BY <2>2, <3>1 DEF At, Kind
  <2> QED BY <2>1, <2>2 DEF Waits
<1>2. HoldsWhatItTook(s) /\ HoldsWhatItTook(t)
  BY DEF LocksKnown
<1>3. At(s, Locking, {"second"}) /\ u = Lower(task[s])
  BY <1>1, <1>2 DEF HoldsWhatItTook, At, Kind, Waits
<1>4. ASSUME At(t, Locking, {"second"}) PROVE Lower(task[s]) > Lower(task[t])
  <2>1. task[t] \in Forms /\ u = Higher(task[t])
    BY <1>1, <1>4, KindType DEF At, Kind
  <2>2. Lower(task[t]) \in Nat /\ Higher(task[t]) \in Nat /\ Lower(task[t]) <= Higher(task[t])
    <3>1. task[t].actor \in Nat /\ task[t].target \in Nat
      BY <2>1, UsersAssumption DEF Forms
    <3> QED BY <3>1 DEF Lower, Higher
  <2>3. Lower(task[t]) # Higher(task[t])
    <3>1. SUFFICES ASSUME Lower(task[t]) = Higher(task[t]) PROVE FALSE
      OBVIOUS
    <3>2. locked[Lower(task[t])] = s /\ s # t
      BY <1>1, <2>1, <3>1 DEF Waits
    <3> QED BY <1>4, <3>2 DEF RowsHeld
  <2> QED BY <1>3, <2>1, <2>2, <2>3
<1> QED BY <1>1, <1>3, <1>4

LEMMA NoRing == TypeOK /\ RowsHeld /\ LocksKnown => NoWaitCycle
<1> SUFFICES ASSUME TypeOK, RowsHeld, LocksKnown, NEW ring \in SUBSET Tasks, ring # {},
                    \A t \in ring : \E s \in ring : Waits(t, s)
             PROVE  FALSE
  BY Zenon DEF NoWaitCycle
<1> DEFINE Second == {t \in ring : At(t, Locking, {"second"})}
           Rows == {Lower(task[t]) : t \in Second}
<1>1. \A t \in ring : t \in Tasks /\ task[t] # Idle
  BY DEF Waits
<1>2. \A t \in Second : Lower(task[t]) \in Users
  BY <1>1, KindType, NextUserType DEF At, Kind
<1>3. \A t, s \in ring : task[t].step # "governance" /\ Waits(t, s) =>
         /\ s \in Second
         /\ t \in Second => Lower(task[s]) > Lower(task[t])
  <2> SUFFICES ASSUME NEW t \in ring, NEW s \in ring, task[t].step # "governance", Waits(t, s)
               PROVE  /\ s \in Second
                      /\ t \in Second => Lower(task[s]) > Lower(task[t])
    OBVIOUS
  <2>1. PICK r \in ring : Waits(s, r)
    OBVIOUS
  <2> QED BY <1>1, <2>1, WaitsUpwards
<1>4. Second # {}
  <2>1. PICK t \in ring : TRUE
    OBVIOUS
  <2>2. PICK s \in ring : Waits(t, s)
    OBVIOUS
  <2>3. PICK r \in ring : Waits(s, r)
    OBVIOUS
  <2>4. CASE task[t].step = "governance"
    <3>1. governance = s
      BY <2>2, <2>4 DEF Waits
    <3>2. task[s].step # "governance"
      BY <3>1 DEF LocksKnown, HoldsWhatItTook
    <3> QED BY <1>3, <2>3, <3>2
  <2>5. CASE task[t].step # "governance"
    BY <1>3, <2>2, <2>5
  <2> QED BY <2>4, <2>5
<1>5. Rows \in SUBSET Nat /\ IsFiniteSet(Rows) /\ Rows # {}
  <2>1. Rows \in SUBSET Users /\ Rows # {}
    BY <1>2, <1>4
  <2> HIDE DEF Rows
  <2> QED BY <2>1, UsersAssumption, FS_Subset
<1>6. PICK n \in Rows : \A m \in Rows : m <= n
  <2> HIDE DEF Rows
  <2>1. Proved!IsFiniteSet(Rows)
    BY <1>5 DEF Proved!IsFiniteSet, IsFiniteSet
  <2> QED BY <1>5, <2>1, Proved!NoEndlessAscent
<1>7. PICK t \in Second : n = Lower(task[t])
  OBVIOUS
<1>8. PICK s \in ring : Waits(t, s)
  OBVIOUS
<1>9. s \in Second /\ Lower(task[s]) > n
  BY <1>3, <1>7, <1>8 DEF At
<1>10. Lower(task[s]) \in Rows /\ Lower(task[s]) <= n
  BY <1>6, <1>9
<1>11. n \in Nat /\ Lower(task[s]) \in Nat
  BY <1>5, <1>10
<1> QED BY <1>9, <1>10, <1>11

\* However many transactions contend for the rows of two accounts and for the
\* governance row, no set of them waits only for each other.
THEOREM NoWaitCycleAlways == Spec => []NoWaitCycle
<1>1. Init => LocksKnown
  BY TasksAssumption DEF Init, LocksKnown, HoldsWhatItTook, Kind
<1>2. IInv /\ LocksKnown /\ [Next]_vars => LocksKnown'
  BY LocksStep DEF IInv
<1>3. IInv /\ LocksKnown => NoWaitCycle
  BY NoRing DEF IInv, LockInv
<1> QED BY <1>1, <1>2, <1>3, Invariance, PTL DEF Spec

-----------------------------------------------------------------------------
(* Both models.  In a behaviour of PartSpec one of them moves and the other      *)
(* stutters, or is not there at all.  What is proved of AreasAndGroups holds of  *)
(* the instance of MCGovernance: expanded, the operators of both are the same    *)
(* formulas.                                                                     *)

LEMMA SameAssumption == Proved!ArrangeAssumption
  BY AccountsAssumption DEF Arrange!ArrangeAssumption, Proved!ArrangeAssumption,
         Arrange!IsFiniteSet, Proved!IsFiniteSet

LEMMA SameSteps == (Arrange!Init <=> Proved!Init) /\ (Arrange!Next <=> Proved!Next) /\ Arrange!vars = Proved!vars
  BY DEF Arrange!Absent, Proved!Absent, Arrange!AreasPresent, Proved!AreasPresent,
         Arrange!GroupsPresent, Proved!GroupsPresent, Arrange!Free, Proved!Free,
         Arrange!validLockedAdministrator, Proved!validLockedAdministrator,
         Arrange!LoadAreaForAdministrationPage, Proved!LoadAreaForAdministrationPage,
         Arrange!ListAreaGroupsForAdministrationPage, Proved!ListAreaGroupsForAdministrationPage,
         Arrange!LoadAccountForAdministration, Proved!LoadAccountForAdministration,
         Arrange!AdministrationMembershipExists, Proved!AdministrationMembershipExists,
         Arrange!ListAccountGroupsForAdministration, Proved!ListAccountGroupsForAdministration,
         Arrange!Loaded, Proved!Loaded, Arrange!Listed, Proved!Listed, Arrange!Statements,
         Proved!Statements, Arrange!OpenPage, Proved!OpenPage, Arrange!Cardinality,
         Proved!Cardinality, Arrange!Joined, Proved!Joined, Arrange!ShowPage, Proved!ShowPage,
         Arrange!Revisions, Proved!Revisions, Arrange!StartWalk, Proved!StartWalk,
         Arrange!ListAreasForAdministrationPage, Proved!ListAreasForAdministrationPage,
         Arrange!ListGroupsForAdministration, Proved!ListGroupsForAdministration,
         Arrange!ListAccountsForAdministration, Proved!ListAccountsForAdministration, Arrange!Keys,
         Proved!Keys, Arrange!KeyLess, Proved!KeyLess, Arrange!Fetched, Proved!Fetched,
         Arrange!NextAfter, Proved!NextAfter, Arrange!ListPage, Proved!ListPage, Arrange!Min,
         Proved!Min, Arrange!AreFirst, Proved!AreFirst, Arrange!FirstRows, Proved!FirstRows,
         Arrange!BoundedSeq, Proved!BoundedSeq, Arrange!SeqOf, Proved!SeqOf, Arrange!Submit, Proved!Submit,
         Arrange!SubmitNewGroup, Proved!SubmitNewGroup, Arrange!Visibilities, Proved!Visibilities,
         Arrange!AreaWishes, Proved!AreaWishes, Arrange!validAreaCoreInput,
         Proved!validAreaCoreInput, Arrange!SubmitNewArea, Proved!SubmitNewArea, Arrange!SubmitFrom,
         Proved!SubmitFrom, Arrange!SubmitArea, Proved!SubmitArea, Arrange!Toggle, Proved!Toggle,
         Arrange!SubmitAreaGroup, Proved!SubmitAreaGroup, Arrange!SubmitMembership,
         Proved!SubmitMembership, Arrange!SubmitName, Proved!SubmitName, Arrange!Row, Proved!Row,
         Arrange!AreaForms, Proved!AreaForms, Arrange!Locking, Proved!Locking, Arrange!Locked,
         Proved!Locked, Arrange!lockAdministrationUsers, Proved!lockAdministrationUsers,
         Arrange!TakesFirstGroup, Proved!TakesFirstGroup, Arrange!LockPlan, Proved!LockPlan,
         Arrange!Stale, Proved!Stale, Arrange!UsersAccepted, Proved!UsersAccepted,
         Arrange!AreaAccepted, Proved!AreaAccepted, Arrange!AdministrationAreaGroupExists,
         Proved!AdministrationAreaGroupExists, Arrange!GroupAccepted, Proved!GroupAccepted,
         Arrange!Accepted, Proved!Accepted, Arrange!WaitsFor, Proved!WaitsFor, Arrange!Waits,
         Proved!Waits, Arrange!LockRow, Proved!LockRow, Arrange!Max, Proved!Max, Arrange!Range,
         Proved!Range, Arrange!Last, Proved!Last, Arrange!Broken, Proved!Broken,
         Arrange!gotth_require_group_visible_area, Proved!gotth_require_group_visible_area,
         Arrange!CreateAreaForAdministration, Proved!CreateAreaForAdministration,
         Arrange!AddAreaGroupForAdministration, Proved!AddAreaGroupForAdministration,
         Arrange!Audited, Proved!Audited, Arrange!Ready, Proved!Ready, Arrange!End, Proved!End,
         Arrange!CreateAreaCompletion, Proved!CreateAreaCompletion,
         Arrange!gotth_reject_visibility_with_group_mappings,
         Proved!gotth_reject_visibility_with_group_mappings,
         Arrange!DeleteAreaGroupsForAdministration, Proved!DeleteAreaGroupsForAdministration,
         Arrange!UpdateAdministrationAreaAndAudit, Proved!UpdateAdministrationAreaAndAudit,
         Arrange!ResultingGroups, Proved!ResultingGroups, Arrange!UpdateAreaCompletion,
         Proved!UpdateAreaCompletion, Arrange!GrantAdministrationAreaGroupAndAudit,
         Proved!GrantAdministrationAreaGroupAndAudit, Arrange!RevokeAdministrationAreaGroupAndAudit,
         Proved!RevokeAdministrationAreaGroupAndAudit, Arrange!ChangeAreaGroup,
         Proved!ChangeAreaGroup, Arrange!Unused, Proved!Unused,
         Arrange!CreateAdministrationGroupAndAudit, Proved!CreateAdministrationGroupAndAudit,
         Arrange!CreateGroup, Proved!CreateGroup, Arrange!RenameAdministrationGroupAndAudit,
         Proved!RenameAdministrationGroupAndAudit, Arrange!RenameGroup, Proved!RenameGroup,
         Arrange!GrantAdministrationMembershipAndAudit,
         Proved!GrantAdministrationMembershipAndAudit,
         Arrange!RevokeAdministrationMembershipAndAudit,
         Proved!RevokeAdministrationMembershipAndAudit, Arrange!ChangeGroupMembership,
         Proved!ChangeGroupMembership, Arrange!Rollback, Proved!Rollback, Arrange!ChangeStanding,
         Proved!ChangeStanding, Arrange!Write, Proved!Write, Arrange!Next, Proved!Next, Arrange!Init,
         Proved!Init, Arrange!vars, Proved!vars

LEMMA SameViews ==
    /\ Arrange!TypeOK <=> Proved!TypeOK
    /\ Arrange!PagesAreServed <=> Proved!PagesAreServed
    /\ Arrange!TrailIsTheArea <=> Proved!TrailIsTheArea
    /\ Arrange!WalksListEverything <=> Proved!WalksListEverything
  BY DEF Arrange!Absent, Proved!Absent, Arrange!Visibilities, Proved!Visibilities, Arrange!Roles,
         Proved!Roles, Arrange!Bars, Proved!Bars, Arrange!AreaRows, Proved!AreaRows,
         Arrange!GroupRows, Proved!GroupRows, Arrange!Broken, Proved!Broken, Arrange!Rows,
         Proved!Rows, Arrange!Free, Proved!Free, Arrange!AreaForms, Proved!AreaForms, Arrange!Forms,
         Proved!Forms, Arrange!Locking, Proved!Locking, Arrange!TypeOK, Proved!TypeOK,
         Arrange!AreasPresent, Proved!AreasPresent, Arrange!LoadAreaForAdministrationPage,
         Proved!LoadAreaForAdministrationPage, Arrange!validAreaSummary, Proved!validAreaSummary,
         Arrange!LoadAdministrationDashboard, Proved!LoadAdministrationDashboard,
         Arrange!LoadDashboard, Proved!LoadDashboard, Arrange!PagesAreServed, Proved!PagesAreServed,
         Arrange!Cardinality, Proved!Cardinality, Arrange!TrailIsTheArea, Proved!TrailIsTheArea,
         Arrange!GroupsPresent, Proved!GroupsPresent, Arrange!Revisions, Proved!Revisions,
         Arrange!WalksListEverything, Proved!WalksListEverything

LEMMA SameRings == Arrange!NoWaitCycle <=> Proved!NoWaitCycle
  BY DEF Arrange!Row, Proved!Row, Arrange!AreaForms, Proved!AreaForms, Arrange!Locking,
         Proved!Locking, Arrange!Locked, Proved!Locked, Arrange!lockAdministrationUsers,
         Proved!lockAdministrationUsers, Arrange!TakesFirstGroup, Proved!TakesFirstGroup,
         Arrange!LockPlan, Proved!LockPlan, Arrange!WaitsFor, Proved!WaitsFor, Arrange!NoWaitCycle,
         Proved!NoWaitCycle, Arrange!Min, Proved!Min, Arrange!Max, Proved!Max, Arrange!Range,
         Proved!Range

\* Governance takes its own steps in every behaviour.
LEMMA GovernanceIsItsOwn == PartSpec => Spec
<1>1. PartInit => Init
  BY DEF PartInit
<1>2. [PartNext]_partVars => [Next]_vars
  BY DEF PartNext, partVars
<1> QED BY <1>1, <1>2, PTL DEF PartSpec, Spec

\* Where areas and groups are arranged, theirs are the steps of the proofs.
LEMMA ArrangementIsItsOwn ==
    PartSpec => \/ Proved!Spec /\ [](part = "arrange")
                \/ [](part = "govern") /\ [][UNCHANGED arrangeVars]_arrangeVars
<1>1. PartInit => part = "govern" \/ (part = "arrange" /\ Proved!Init)
  BY SameSteps DEF PartInit
<1>2. part = "arrange" /\ [PartNext]_partVars => (part = "arrange")' /\ [Proved!Next]_(Proved!vars)
  <2>1. part = "arrange" /\ [PartNext]_partVars => (part = "arrange")' /\ [Arrange!Next]_arrangeVars
    BY DEF PartNext, partVars, arrangeVars
  <2> QED BY <2>1, SameSteps DEF arrangeVars, Proved!vars
<1>3. part = "govern" /\ [PartNext]_partVars => (part = "govern")' /\ [UNCHANGED arrangeVars]_arrangeVars
  BY DEF PartNext, partVars
<1> QED BY <1>1, <1>2, <1>3, PTL DEF PartSpec, Proved!Spec

\* No transactions, of accounts or of areas and groups, wait for each other in a
\* ring, however many of them there are.
THEOREM NoDeadlockAlways == PartSpec => []NoDeadlock
<1>1. PartSpec => []NoWaitCycle
  BY GovernanceIsItsOwn, NoWaitCycleAlways, PTL
<1>2. Proved!Spec => []Proved!NoWaitCycle
  BY SameAssumption, Proved!AreasNeverDeadlock
<1>3. Proved!Spec => []Arrange!NoWaitCycle
  BY <1>2, SameRings, PTL
<1>4. /\ NoWaitCycle /\ part = "govern" => NoDeadlock
      /\ Arrange!NoWaitCycle /\ part = "arrange" => NoDeadlock
  BY DEF NoDeadlock
<1> QED BY <1>1, <1>3, <1>4, ArrangementIsItsOwn, PTL

\* No order of forms makes an area or the dashboard something that its page
\* refuses, the audit records of an area tell its row, and whoever follows a list
\* to its end, page by page while others write, has been shown each row once.
THEOREM ViewsAreTrueAlways == PartSpec => []ViewsAreTrue
<1> DEFINE Proofs == Proved!TypeOK /\ Proved!PagesAreServed /\ Proved!TrailIsTheArea /\ Proved!WalksListEverything
<1>1. Proved!Spec => []Proofs
  BY SameAssumption, Proved!AreasAreServed
<1>2. Proofs => ViewsAreTrue
  BY SameViews DEF ViewsAreTrue
<1>3. part = "govern" => ViewsAreTrue
  BY DEF ViewsAreTrue
<1> HIDE DEF Proofs
<1> QED BY <1>1, <1>2, <1>3, ArrangementIsItsOwn, PTL

LEMMA SameChanges ==
    /\ Arrange!ChangeIsAsShown <=> Proved!ChangeIsAsShown
    /\ Arrange!ChangeIsAuthorised <=> Proved!ChangeIsAuthorised
  BY DEF Arrange!ChangeIsAsShown, Proved!ChangeIsAsShown, Arrange!ChangeIsAuthorised,
         Proved!ChangeIsAuthorised, Arrange!validLockedAdministrator,
         Proved!validLockedAdministrator, Arrange!Absent, Proved!Absent, Arrange!Free, Proved!Free,
         Arrange!LoadAreaForAdministrationPage, Proved!LoadAreaForAdministrationPage,
         Arrange!ListAreaGroupsForAdministrationPage, Proved!ListAreaGroupsForAdministrationPage,
         Arrange!LoadAccountForAdministration, Proved!LoadAccountForAdministration,
         Arrange!AdministrationMembershipExists, Proved!AdministrationMembershipExists,
         Arrange!ListAccountGroupsForAdministration, Proved!ListAccountGroupsForAdministration,
         Arrange!Loaded, Proved!Loaded, Arrange!Listed, Proved!Listed, Arrange!Joined,
         Proved!Joined, Arrange!Cardinality, Proved!Cardinality

\* A form of areas and groups changes only what both statements of its page
\* showed, on the authority of somebody who has it when the change is made.
THEOREM ChangesAreOfTheirPageAlways == PartSpec => ChangesAreOfTheirPage
<1>1. Proved!Spec => Proved!FormsAreOfTheirPage /\ Proved!AuthorityAtCommit
  BY SameAssumption, Proved!AreasChangeAsShown, Proved!AreasNeedAuthority
<1>2. [Proved!ChangeIsAsShown]_(Proved!vars) /\ [Proved!ChangeIsAuthorised]_(Proved!vars) =>
        [Arrange!ChangeIsAsShown]_(Arrange!vars) /\ [Arrange!ChangeIsAuthorised]_(Arrange!vars)
  BY SameChanges DEF Arrange!vars, Proved!vars
<1>3. [UNCHANGED arrangeVars]_arrangeVars =>
        [Arrange!ChangeIsAsShown]_(Arrange!vars) /\ [Arrange!ChangeIsAuthorised]_(Arrange!vars)
  BY DEF arrangeVars, Arrange!vars
<1> QED
  BY <1>1, <1>2, <1>3, ArrangementIsItsOwn, PTL
  DEF ChangesAreOfTheirPage, Arrange!FormsAreOfTheirPage, Arrange!AuthorityAtCommit,
      Proved!FormsAreOfTheirPage, Proved!AuthorityAtCommit
=============================================================================
