--------------------------- MODULE MCGovernance ---------------------------
(***************************************************************************)
(* Governance, and the administration of areas and groups, on small        *)
(* instances.  The two models share no state, so that in one behaviour     *)
(* only one of them moves: part says which.                                *)
(***************************************************************************)
EXTENDS Governance, TLC

CONSTANTS
    Accounts, FirstRoles, Areas, Groups, Names, Orders, PageSize, MaxChanges,   \* AreasAndGroups
    n1, n2   \* names of groups

VARIABLES
    part,
    account, area, group, members, trail, request   \* AreasAndGroups

ThreeUsers == 1..3

BothAdministrators == [u \in Accounts |-> "administrator"]

Arrange == INSTANCE AreasAndGroups
    WITH Users <- Accounts, Slots <- Tasks, MaxRevision <- MaxChanges, task <- request

ASSUME AccountsAssumption == Arrange!ArrangeAssumption

arrangeVars == <<account, area, group, members, trail, request>>
partVars == <<part, vars, arrangeVars>>

\* Where it is not its turn, the second model has no state to look at.
NotArranged ==
    account = {} /\ area = {} /\ group = {} /\ members = {} /\ trail = {} /\ request = {}

PartInit ==
    /\ Init
    /\ \/ part = "govern" /\ NotArranged
       \/ part = "arrange" /\ Arrange!Init

PartNext ==
    \/ part = "govern" /\ Next /\ UNCHANGED <<part, arrangeVars>>
    \/ part = "arrange" /\ Arrange!Next /\ UNCHANGED <<part, vars>>

PartSpec == PartInit /\ [][PartNext]_partVars

TaskSymmetry == Permutations(Tasks)

-----------------------------------------------------------------------------
(* Bounds. *)

\* Changes of accounts in a run (every change of a form adds one): two while
\* two transactions run, three otherwise.  Once the setup is done the session
\* decides nothing more: it ends before the second change of a form.
Running == {t \in Tasks : task[t] # Idle}
FewChanges ==
    /\ revision[1] + revision[2] + revision[3] <= (IF Cardinality(Running) > 1 THEN 5 ELSE 6)
    /\ session /\ bootstraps > 0 => revision[1] + revision[2] + revision[3] < 5

Busy == {t \in Tasks : request[t] # Arrange!Free}
Lists == {"areas", "groups", "accounts"}
Renamed == {g \in {1, 2} : group[g].revision > 1}
Barred == {u \in {1, 2} : account[u].role # "administrator" \/ account[u].bar # "none"}
Revised ==
    {<<"area", a>> : a \in {b \in {1, 2} : area[b].revision > 1}} \cup {<<"group", g>> : g \in Renamed}
      \cup {<<"user", u>> : u \in {v \in {1, 2} : account[v].revision > 1}}
RevisedAgain == \E x \in {1, 2} : area[x].revision > 2 \/ group[x].revision > 2 \/ account[x].revision > 2
NoAreas == area[1] = Arrange!Absent /\ area[2] = Arrange!Absent
NoGroups == group[1] = Arrange!Absent /\ group[2] = Arrange!Absent

\* Requests that run at once concern the same table, or one of them walks
\* through a list while the other changes it.
Concern ==
    [area |-> "areas", create_area |-> "areas", update_area |-> "areas", area_group |-> "areas", areas |-> "areas",
     group |-> "groups", create_group |-> "groups", rename_group |-> "groups", groups |-> "groups",
     account |-> "users", membership |-> "users", accounts |-> "users"]
OneConcern ==
    /\ \A t, r \in Busy : Concern[request[t].kind] = Concern[request[r].kind]
    /\ \A t \in Busy :
         request[t].kind \in Lists =>
           /\ Barred = {}
           /\ \A r \in Busy \ {t} : request[r].kind \in {"create_group", "create_area", "area", "update_area"}
           /\ IF request[t].kind = "areas" THEN NoGroups ELSE NoAreas /\ members = {}

\* The names stand for each other: the first group has the first of them.
FirstName ==
    /\ \A g \in {1, 2} : group[g].revision = 1 /\ group[3 - g] = Arrange!Absent => group[g].name = n1
    /\ NoGroups => \A t \in Busy : request[t].kind = "create_group" => request[t].wish = n1

\* Two areas, or an area out of place, matter to a walk alone.
Writes(t) == request[t].kind \in Arrange!AreaForms
Placed ==
    \/ area[1] # Arrange!Absent /\ area[2] # Arrange!Absent
    \/ \E a \in Arrange!AreasPresent : area[a].order > 0
    \/ \E t \in Busy : Writes(t) /\ request[t].wish.order > 0
FewPlaced ==
    Placed =>
      /\ NoGroups /\ Barred = {}
      /\ \A a \in Arrange!AreasPresent : area[a].visibility = "public"
      /\ Cardinality(Busy) > 1 => \E t \in Busy : request[t].kind = "areas"

\* An area for all accounts is like a public one here: it is changed alone.
FewAuthenticated ==
    \/ Cardinality(Busy) < 2
    \/ /\ \A a \in Arrange!AreasPresent : area[a].visibility # "authenticated"
       /\ \A t \in Busy : Writes(t) => request[t].wish.visibility # "authenticated"

\* Two changes, the second while nothing else runs; an administrator who is
\* barred, a renamed group, a membership and an area each without the others.
FewArrangements ==
    /\ OneConcern /\ FirstName /\ FewPlaced /\ FewAuthenticated
    /\ Barred # {} => Cardinality(Busy) < 2 /\ Renamed = {} /\ Barred # {1, 2}
    /\ members # {} => NoAreas /\ Renamed = {}
    /\ Renamed # {} => NoAreas /\ Renamed # {1, 2}
    /\ RevisedAgain \/ Cardinality(Revised) > 1 =>
         /\ Cardinality(Busy) < 2 /\ Barred = {}
         /\ Cardinality(Revised) = (IF RevisedAgain THEN 1 ELSE 2)

PartBounds == IF part = "govern" THEN FewChanges ELSE FewArrangements

\* The runs of PartSpec that stay within the bounds.
BoundedInit == PartInit /\ PartBounds
BoundedNext ==
    \/ part = "govern" /\ PartNext /\ PartBounds'
    \/ part = "arrange" /\ PartNext /\ PartBounds'
BoundedSpec == BoundedInit /\ [][BoundedNext]_partVars

-----------------------------------------------------------------------------
(* The properties of AreasAndGroups, and of both; Governance has its own. *)

\* AreasAndGroups: no order of forms leaves a row that the pages refuse, the
\* audit records of an area tell its row, and a list that is followed to its end
\* has shown every row.
ViewsAreTrue ==
    part = "arrange" =>
      /\ Arrange!TypeOK
      /\ Arrange!PagesAreServed
      /\ Arrange!TrailIsTheArea
      /\ Arrange!WalksListEverything

\* No transactions of either module wait for each other in a circle.
NoDeadlock == IF part = "govern" THEN NoWaitCycle ELSE Arrange!NoWaitCycle

\* AreasAndGroups: a form changes only what both statements of its page showed,
\* and who changes something may administer when it commits.
ChangesAreOfTheirPage ==
    /\ Arrange!FormsAreOfTheirPage
    /\ Arrange!AuthorityAtCommit
=============================================================================
