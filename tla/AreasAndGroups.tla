---------------------------- MODULE AreasAndGroups ----------------------------
(***************************************************************************)
(* How administrators create and change areas and groups, map groups to    *)
(* areas and put accounts into groups.  A page is put together from up to  *)
(* two statements that share no snapshot; the form that it leads to comes  *)
(* back later with the revision the page showed.  The transaction of a     *)
(* form locks rows one after the other, the accounts by ascending id, then *)
(* the area, then the group, and checks each row when it has it.           *)
(*                                                                         *)
(* Nothing is removed: an id that is taken stays.  Ids are drawn when a    *)
(* row is inserted, so that a smaller one may appear after a larger one.   *)
(***************************************************************************)
EXTENDS Naturals, Sequences, FiniteSets, FiniteSetsExt, SequencesExt

CONSTANTS
    Users, Areas, Groups,   \* ids, natural numbers
    FirstRoles,             \* the role of each account
    Names, Orders,          \* names of groups; display orders, for all of an area's text
    PageSize,               \* rows of a page
    Slots,                  \* slots for the requests that run concurrently
    MaxRevision             \* the maximum of a revision

ArrangeAssumption ==
    /\ IsFiniteSet(Users) /\ Users \subseteq Nat \ {0}
    /\ Areas \subseteq Nat \ {0}
    /\ IsFiniteSet(Groups) /\ Groups \subseteq Nat \ {0}
    /\ FirstRoles \in [Users -> {"member", "administrator"}]
    /\ \E u \in Users : FirstRoles[u] = "administrator"
    /\ Orders \subseteq Nat
    /\ PageSize \in Nat \ {0} /\ MaxRevision \in Nat \ {0}

VARIABLES
    account,   \* rows of users: role, what bars the account, revision
    area,      \* rows of areas, each with its rows of area_groups
    group,     \* rows of forum_groups
    members,   \* forum_group_members
    trail,     \* the row of each area as its audit records tell it
    task       \* what each request is doing

vars == <<account, area, group, members, trail, task>>

Absent == [revision |-> 0]
Visibilities == {"public", "authenticated", "groups"}
Roles == {"member", "administrator"}
Bars == {"none", "muted", "suspended"}
AreaRows == [order : Orders, visibility : Visibilities, groups : SUBSET Groups, revision : 1..MaxRevision]
GroupRows == [name : Names, revision : 1..MaxRevision]
Broken == [revision |-> MaxRevision + 1]

AreasPresent == {a \in Areas : area[a] # Absent}
GroupsPresent == {g \in Groups : group[g] # Absent}

\* The rows that transactions lock.
Row(table, id) == [table |-> table, id |-> id]
Rows == [table : {"user"}, id : Users] \cup [table : {"area"}, id : Areas] \cup [table : {"group"}, id : Groups]

Free == [step |-> "free"]
AreaForms == {"create_area", "update_area"}
Forms == AreaForms \cup {"area_group", "create_group", "rename_group", "membership"}
Locking(c) == task[c].step = "locking"
Locked(c) == IF Locking(c) THEN Range(task[c].locked) ELSE {}

TypeOK ==
    /\ account \in [Users -> [role : Roles, bar : Bars, revision : 1..MaxRevision]]
    /\ area \in [Areas -> AreaRows \cup {Absent}]
    /\ group \in [Groups -> GroupRows \cup {Absent}]
    /\ members \subseteq Users \X Groups
    /\ trail \in [Areas -> AreaRows \cup {Absent, Broken}]
    /\ \A c \in Slots :
         task[c] # Free =>
           /\ task[c].step \in {"opened", "shown", "locking", "walking", "walked"}
           /\ task[c].actor \in Users
           /\ Locking(c) => task[c].kind \in Forms /\ task[c].locked \in Seq(Rows)

Init ==
    /\ account = [u \in Users |-> [role |-> FirstRoles[u], bar |-> "none", revision |-> 1]]
    /\ area = [a \in Areas |-> Absent]
    /\ group = [g \in Groups |-> Absent]
    /\ members = {}
    /\ trail = area
    /\ task = [c \in Slots |-> Free]

-----------------------------------------------------------------------------
(* Who may administer. *)

\* The CTE "actor" of the statements that read, and the check of the locked row.
validLockedAdministrator(u) == account[u].role = "administrator" /\ account[u].bar = "none"

\* Role and discipline, changed elsewhere under the lock of the row; an
\* administrator remains.  A mute leaves the revision alone.
ChangeStanding(u) ==
    LET mute == [account[u] EXCEPT !.bar = IF @ = "none" THEN "muted" ELSE "none"]
        suspend == [account[u] EXCEPT !.bar = "suspended", !.revision = @ + 1]
        demote == [account[u] EXCEPT !.role = "member", !.revision = @ + 1] IN
    /\ \A c \in Slots : Row("user", u) \notin Locked(c)
    /\ \E v \in Users \ {u} : account[v].role = "administrator" /\ account[v].bar # "suspended"
    /\ account[u].bar # "suspended" /\ account[u].revision < MaxRevision
    /\ \E row \in {mute, suspend, demote} : account' = [account EXCEPT ![u] = row]
    /\ UNCHANGED <<area, group, members, trail, task>>

-----------------------------------------------------------------------------
(* What pages show. *)

LoadAreaForAdministrationPage(a) ==
    [order |-> area[a].order, visibility |-> area[a].visibility, revision |-> area[a].revision,
     group_count |-> Cardinality(area[a].groups)]
ListAreaGroupsForAdministrationPage(a) == area[a].groups
LoadAccountForAdministration(u) == [role |-> account[u].role, revision |-> account[u].revision]
AdministrationMembershipExists(u, g) == <<u, g>> \in members
ListAccountGroupsForAdministration(u) == {g \in Groups : AdministrationMembershipExists(u, g)}

validAreaSummary(row) == (row.visibility = "groups") = (row.group_count > 0)

\* The counts of the dashboard, and what it refuses to show.
LoadAdministrationDashboard ==
    LET of(role) == {u \in Users : account[u].role = role} IN
    [users |-> Cardinality(Users), members |-> Cardinality(of("member")),
     administrators |-> Cardinality(of("administrator")),
     suspended |-> Cardinality({u \in Users : account[u].bar = "suspended"})]
LoadDashboard(d) ==
    d.administrators >= 1 /\ d.members + d.administrators = d.users /\ d.suspended <= d.users

Loaded(kind, id) ==
    [row |-> CASE kind = "area" -> LoadAreaForAdministrationPage(id)
               [] kind = "account" -> LoadAccountForAdministration(id)
               [] kind = "group" -> group[id]]
Listed(kind, id) ==
    [groups |-> CASE kind = "area" -> ListAreaGroupsForAdministrationPage(id)
                  [] kind = "account" -> ListAccountGroupsForAdministration(id)
                  [] kind = "group" -> {}]

\* What two statements say together.
Joined(first, second) ==
    [field \in DOMAIN first \cup DOMAIN second |->
       IF field \in DOMAIN first THEN first[field] ELSE second[field]]

\* Mutation of the page: the groups are read before the revision.
GroupsFirst(kind, id) == <<Listed(kind, id), Loaded(kind, id)>>

\* The statements of a page, in their order; the page of groups needs only one.
Statements(kind, id) == <<Loaded(kind, id), Listed(kind, id)>>

OpenPage(c) ==
    /\ task[c] = Free
    /\ \E actor \in Users, kind \in {"area", "account", "group"} :
         /\ validLockedAdministrator(actor)
         /\ \E id \in IF kind = "area" THEN AreasPresent
                      ELSE IF kind = "account" THEN Users ELSE GroupsPresent :
              task' = [task EXCEPT ![c] = [step |-> "opened", kind |-> kind, actor |-> actor, id |-> id,
                                           page |-> Statements(kind, id)[1]]]
    /\ UNCHANGED <<account, area, group, members, trail>>

\* The second statement answers nobody who is not an administrator any more.
ShowPage(c) ==
    LET t == task[c] IN
    /\ t.step = "opened"
    /\ task' = [task EXCEPT ![c] =
         IF validLockedAdministrator(t.actor)
         THEN [t EXCEPT !.step = "shown", !.page = Joined(t.page, Statements(t.kind, t.id)[2])]
         ELSE Free]
    /\ UNCHANGED <<account, area, group, members, trail>>

-----------------------------------------------------------------------------
(* Lists that are read page by page, each page from the key where the last one *)
(* ended: <<id>>, or <<display order, id>>.                                    *)

ListAreasForAdministrationPage == {<<area[a].order, a>> : a \in AreasPresent}
ListGroupsForAdministration == {<<0, g>> : g \in GroupsPresent}
ListAccountsForAdministration == {<<0, u>> : u \in Users}
Keys(list) ==
    CASE list = "areas" -> ListAreasForAdministrationPage
      [] list = "groups" -> ListGroupsForAdministration
      [] list = "accounts" -> ListAccountsForAdministration
Revisions(list) ==
    CASE list = "areas" -> [a \in AreasPresent |-> area[a].revision]
      [] list = "groups" -> [g \in GroupsPresent |-> 1]
      [] list = "accounts" -> [u \in Users |-> 1]
KeyLess(k, l) == k[1] < l[1] \/ (k[1] = l[1] /\ k[2] < l[2])

\* The first n rows in the order of their keys: ORDER BY and LIMIT.
AreFirst(rows, rest, n) ==
    /\ \A i, j \in 1..Len(rows) : i < j => KeyLess(rows[i], rows[j])
    /\ \A k \in rest :
         k \in Range(rows) \/ (Len(rows) = n /\ \A i \in 1..Len(rows) : KeyLess(rows[i], k))
FirstRows(rest, n) == CHOOSE rows \in BoundedSeq(rest, n) : AreFirst(rows, rest, n)

\* The page and one row more, which tells that there is a next page.
Fetched(list, after) == FirstRows({k \in Keys(list) : KeyLess(after, k)}, PageSize + 1)

\* Mutation of the page: the next one starts after the row that told of it.
NextAfterFetched(rows) == Last(rows)

NextAfter(rows) == rows[PageSize]

StartWalk(c) ==
    /\ task[c] = Free
    /\ \E actor \in Users, list \in {"areas", "groups", "accounts"} :
         task' = [task EXCEPT ![c] = [step |-> "walking", kind |-> list, actor |-> actor, after |-> <<0, 0>>,
                                      listed |-> <<>>, began |-> Revisions(list)]]
    /\ UNCHANGED <<account, area, group, members, trail>>

ListPage(c) ==
    LET t == task[c]
        rows == Fetched(t.kind, t.after)
        ids == [i \in 1..Min({PageSize, Len(rows)}) |-> rows[i][2]] IN
    /\ t.step = "walking"
    /\ task' = [task EXCEPT ![c] =
         IF ~validLockedAdministrator(t.actor) THEN Free
         ELSE IF Len(rows) > PageSize
         THEN [t EXCEPT !.listed = @ \o ids, !.after = NextAfter(rows)]
         ELSE [t EXCEPT !.listed = @ \o ids, !.step = "walked"]]
    /\ UNCHANGED <<account, area, group, members, trail>>

-----------------------------------------------------------------------------
(* A form: what it asks for, the rows that it locks, the checks of each row. *)

AreaWishes == [order : Orders, visibility : Visibilities, group : Groups \cup {0}]
validAreaCoreInput(wish, create) ==
    IF wish.visibility = "groups" THEN wish.group > 0 \/ ~create ELSE wish.group = 0

\* Access is looked up when the form arrives; the row of the actor is locked later.
Submit(c, form) ==
    /\ validLockedAdministrator(form.actor)
    /\ task' = [task EXCEPT ![c] = form]
    /\ UNCHANGED <<account, area, group, members, trail>>

SubmitNewGroup(c) ==
    /\ task[c] = Free
    /\ \E actor \in Users, name \in Names :
         Submit(c, [step |-> "locking", locked |-> <<>>, kind |-> "create_group", actor |-> actor, wish |-> name])

SubmitNewArea(c) ==
    /\ task[c] = Free
    /\ \E actor \in Users, wish \in AreaWishes :
         /\ validAreaCoreInput(wish, TRUE)
         /\ Submit(c, [step |-> "locking", locked |-> <<>>, kind |-> "create_area", actor |-> actor, wish |-> wish])

\* A form of a page takes over whose page it was, of what, and what it showed.
SubmitFrom(c, page, kind, wish) ==
    LET t == task[c] IN
    /\ t.step = "shown" /\ t.kind = page
    /\ Submit(c, [step |-> "locking", locked |-> <<>>, kind |-> kind, actor |-> t.actor, id |-> t.id,
                  page |-> t.page, wish |-> wish])

SubmitArea(c) ==
    \E wish \in AreaWishes : validAreaCoreInput(wish, FALSE) /\ SubmitFrom(c, "area", "update_area", wish)

\* A page offers to grant what it shows as not granted, and to revoke the rest.
Toggle(c, g) == [group |-> g, grant |-> g \notin task[c].page.groups]
SubmitAreaGroup(c) == \E g \in GroupsPresent : SubmitFrom(c, "area", "area_group", Toggle(c, g))
SubmitMembership(c) == \E g \in GroupsPresent : SubmitFrom(c, "account", "membership", Toggle(c, g))
SubmitName(c) == \E name \in Names : SubmitFrom(c, "group", "rename_group", name)

\* Mutation of the locks: the actor first, whatever the ids are.
ActorThenTarget(t) ==
    IF t.kind = "membership" /\ t.id # t.actor THEN <<Row("user", t.actor), Row("user", t.id)>>
    ELSE <<Row("user", t.actor)>>

\* The actor alone, or both accounts by ascending id.
lockAdministrationUsers(t) ==
    IF t.kind = "membership" /\ t.id # t.actor
    THEN <<Row("user", Min({t.actor, t.id})), Row("user", Max({t.actor, t.id}))>>
    ELSE <<Row("user", t.actor)>>

TakesFirstGroup(t) ==
    /\ t.wish.visibility = "groups" /\ t.wish.group > 0
    /\ t.kind = "create_area" \/ area[t.id].visibility # "groups"

LockPlan(t) ==
    lockAdministrationUsers(t)
      \o (IF t.kind \in {"update_area", "area_group"} THEN <<Row("area", t.id)>> ELSE <<>>)
      \o (CASE t.kind = "create_group" -> <<>>
            [] t.kind = "rename_group" -> <<Row("group", t.id)>>
            [] t.kind \in {"area_group", "membership"} -> <<Row("group", t.wish.group)>>
            [] t.kind \in AreaForms -> IF TakesFirstGroup(t) THEN <<Row("group", t.wish.group)>> ELSE <<>>)

Stale(t, revision) == t.page.row.revision # revision \/ revision = MaxRevision

\* Mutation of the checks: the actor is who the request said.
TrustedActor(t) == t.kind = "membership" => account[t.id].bar # "suspended" /\ ~Stale(t, account[t.id].revision)

\* The checks of the accounts, once all of them are locked.
UsersAccepted(t) ==
    /\ validLockedAdministrator(t.actor)
    /\ t.kind = "membership" => account[t.id].bar # "suspended" /\ ~Stale(t, account[t.id].revision)

\* Those of the area; one that is already open to groups takes no first group.
AreaAccepted(t) ==
    LET row == area[t.id] IN
    /\ ~Stale(t, row.revision)
    /\ t.kind = "area_group" => row.visibility = "groups"
    /\ t.kind = "update_area" /\ t.wish.visibility = "groups" =>
         (row.visibility = "groups") = (t.wish.group = 0)

AdministrationAreaGroupExists(a, g) == g \in area[a].groups

\* Those of the group.
GroupAccepted(t, g) ==
    /\ group[g] # Absent
    /\ t.kind = "rename_group" => ~Stale(t, group[g].revision) /\ group[g].name # t.wish
    /\ t.kind = "area_group" => t.wish.grant # AdministrationAreaGroupExists(t.id, g)
    /\ t.kind = "membership" => t.wish.grant # AdministrationMembershipExists(t.id, g)

Accepted(t, row) ==
    CASE row.table = "user" -> row = Last(lockAdministrationUsers(t)) => UsersAccepted(t)
      [] row.table = "area" -> AreaAccepted(t)
      [] row.table = "group" -> GroupAccepted(t, row.id)

\* Another transaction has the row that this one wants next.
WaitsFor(c, d) ==
    /\ c # d /\ Locking(c) /\ Len(task[c].locked) < Len(LockPlan(task[c]))
    /\ LockPlan(task[c])[Len(task[c].locked) + 1] \in Locked(d)
Waits(c) == \E d \in Slots : WaitsFor(c, d)

LockRow(c) ==
    LET t == task[c]
        row == LockPlan(t)[Len(t.locked) + 1] IN
    /\ Locking(c) /\ Len(t.locked) < Len(LockPlan(t)) /\ ~Waits(c)
    /\ task' = [task EXCEPT ![c] = IF Accepted(t, row) THEN [t EXCEPT !.locked = Append(@, row)] ELSE Free]
    /\ UNCHANGED <<account, area, group, members, trail>>

\* A statement times out, deadlocks or fails, or the browser goes away.
Rollback(c) ==
    /\ task[c].step # "free"
    /\ task' = [task EXCEPT ![c] = Free]
    /\ UNCHANGED <<account, area, group, members, trail>>

-----------------------------------------------------------------------------
(* The statements that write, and the triggers of area_groups and areas. *)

gotth_require_group_visible_area(row) == row.visibility = "groups"
gotth_reject_visibility_with_group_mappings(row, visibility) ==
    ~(visibility # "groups" /\ row.visibility = "groups" /\ row.groups # {})

CreateAreaForAdministration(wish) ==
    [order |-> wish.order, visibility |-> wish.visibility, groups |-> {}, revision |-> 1]
AddAreaGroupForAdministration(row, g) == [row EXCEPT !.groups = @ \cup {g}]
DeleteAreaGroupsForAdministration(row) == [row EXCEPT !.groups = {}]
UpdateAdministrationAreaAndAudit(row, wish) ==
    [row EXCEPT !.order = wish.order, !.visibility = wish.visibility, !.revision = @ + 1]
GrantAdministrationAreaGroupAndAudit(row, g) == [row EXCEPT !.groups = @ \cup {g}, !.revision = @ + 1]

\* Mutation of the statement: without the count of what remains.
RevokeAnyGroup(row, g) == [row EXCEPT !.groups = @ \ {g}, !.revision = @ + 1]

\* The last group of an area is not revoked: the statement changes no row.
RevokeAdministrationAreaGroupAndAudit(row, g) ==
    IF Cardinality(row.groups) > 1 THEN [row EXCEPT !.groups = @ \ {g}, !.revision = @ + 1] ELSE row

\* An audit record joins the row that it says was there to the row that it
\* says is there now.
Audited(a, previous, resulting) ==
    trail' = [trail EXCEPT ![a] = IF @ = previous THEN resulting ELSE Broken]

Ready(c, kind) == Locking(c) /\ task[c].kind = kind /\ Len(task[c].locked) = Len(LockPlan(task[c]))
End(c) == task' = [task EXCEPT ![c] = Free]

CreateAreaCompletion(c) ==
    LET wish == task[c].wish
        created == CreateAreaForAdministration(wish)
        row == IF wish.group > 0 THEN AddAreaGroupForAdministration(created, wish.group) ELSE created IN
    /\ Ready(c, "create_area")
    /\ wish.group > 0 => gotth_require_group_visible_area(created)
    /\ \E a \in Areas \ AreasPresent :
         /\ area' = [area EXCEPT ![a] = row]
         /\ Audited(a, Absent, [order |-> wish.order, visibility |-> wish.visibility, revision |-> 1,
                                groups |-> {wish.group} \ {0}])
    /\ End(c)
    /\ UNCHANGED <<account, group, members>>

\* Mutation of the record: the groups that the area had before.
GroupsAsBefore(row, wish) == row.groups

\* The groups that the audit record of an update tells, computed before it.
ResultingGroups(row, wish) ==
    IF wish.visibility # "groups" THEN {}
    ELSE IF row.visibility # "groups" THEN {wish.group} ELSE row.groups

UpdateAreaCompletion(c) ==
    LET t == task[c]
        row == area[t.id]
        resulting == [order |-> t.wish.order, visibility |-> t.wish.visibility, revision |-> t.page.row.revision + 1,
                      groups |-> ResultingGroups(row, t.wish)]
        kept == IF t.wish.visibility # "groups" THEN DeleteAreaGroupsForAdministration(row) ELSE row
        updated == UpdateAdministrationAreaAndAudit(kept, t.wish)
        first == t.wish.visibility = "groups" /\ row.visibility # "groups" IN
    /\ Ready(c, "update_area")
    /\ [resulting EXCEPT !.revision = row.revision] # row
    /\ gotth_reject_visibility_with_group_mappings(kept, t.wish.visibility)
    /\ first => gotth_require_group_visible_area(updated)
    /\ area' = [area EXCEPT ![t.id] =
         IF first THEN AddAreaGroupForAdministration(updated, t.wish.group) ELSE updated]
    /\ Audited(t.id, row, resulting)
    /\ End(c)
    /\ UNCHANGED <<account, group, members>>

ChangeAreaGroup(c) ==
    LET t == task[c]
        row == area[t.id]
        changed == IF t.wish.grant THEN GrantAdministrationAreaGroupAndAudit(row, t.wish.group)
                   ELSE RevokeAdministrationAreaGroupAndAudit(row, t.wish.group) IN
    /\ Ready(c, "area_group")
    /\ changed # row
    /\ area' = [area EXCEPT ![t.id] = changed]
    /\ Audited(t.id, row, changed)
    /\ End(c)
    /\ UNCHANGED <<account, group, members>>

\* Names are unique, whatever their case.
Unused(name) == \A g \in GroupsPresent : group[g].name # name

CreateAdministrationGroupAndAudit(name) == [name |-> name, revision |-> 1]
RenameAdministrationGroupAndAudit(row, name) == [row EXCEPT !.name = name, !.revision = @ + 1]
GrantAdministrationMembershipAndAudit(u, g) == members \cup {<<u, g>>}
RevokeAdministrationMembershipAndAudit(u, g) == members \ {<<u, g>>}

CreateGroup(c) ==
    /\ Ready(c, "create_group") /\ Unused(task[c].wish)
    /\ \E g \in Groups \ GroupsPresent :
         group' = [group EXCEPT ![g] = CreateAdministrationGroupAndAudit(task[c].wish)]
    /\ End(c)
    /\ UNCHANGED <<account, area, members, trail>>

RenameGroup(c) ==
    /\ Ready(c, "rename_group") /\ Unused(task[c].wish)
    /\ group' = [group EXCEPT ![task[c].id] = RenameAdministrationGroupAndAudit(@, task[c].wish)]
    /\ End(c)
    /\ UNCHANGED <<account, area, members, trail>>

\* A grant and a revocation both advance the account's revision.
ChangeGroupMembership(c) ==
    LET t == task[c] IN
    /\ Ready(c, "membership")
    /\ members' = IF t.wish.grant THEN GrantAdministrationMembershipAndAudit(t.id, t.wish.group)
                  ELSE RevokeAdministrationMembershipAndAudit(t.id, t.wish.group)
    /\ account' = [account EXCEPT ![t.id].revision = @ + 1]
    /\ End(c)
    /\ UNCHANGED <<area, group, trail>>

Write(c) ==
    \/ CreateAreaCompletion(c) \/ UpdateAreaCompletion(c) \/ ChangeAreaGroup(c)
    \/ CreateGroup(c) \/ RenameGroup(c) \/ ChangeGroupMembership(c)

Next ==
    \/ \E c \in Slots :
         \/ OpenPage(c) \/ ShowPage(c) \/ StartWalk(c) \/ ListPage(c)
         \/ SubmitNewGroup(c) \/ SubmitNewArea(c) \/ SubmitArea(c) \/ SubmitAreaGroup(c)
         \/ SubmitMembership(c) \/ SubmitName(c) \/ LockRow(c) \/ Write(c) \/ Rollback(c)
    \/ \E u \in Users : ChangeStanding(u)

Spec == Init /\ [][Next]_vars

-----------------------------------------------------------------------------
(* Properties. *)

\* No order of forms leaves a row that the pages refuse to show: a page needs
\* groups exactly where an area is visible to groups, and the dashboard counts
\* that fit each other.
PagesAreServed ==
    /\ \A a \in AreasPresent : validAreaSummary(LoadAreaForAdministrationPage(a))
    /\ LoadDashboard(LoadAdministrationDashboard)

\* The audit records of an area tell, one after the other, the row that is there.
TrailIsTheArea == trail = area

\* Transactions never wait for each other in a ring, however many: all of them
\* lock the rows in one order.
NoWaitCycle ==
    \A ring \in (SUBSET Slots) \ {{}} : ~\A c \in ring : \E d \in ring : WaitsFor(c, d)

\* What a step does to areas and memberships: nothing, a new area, or what one
\* form asks for, of a page that still shows both statements as they are.
ChangeIsAsShown ==
    \/ <<area, members>>' = <<area, members>>
    \/ \E a \in Areas : area[a] = Absent /\ area' = [area EXCEPT ![a] = area'[a]] /\ members' = members
    \/ \E c \in Slots :
         LET t == task[c] IN
         /\ t # Free /\ task'[c] = Free
         /\ \/ /\ t.kind \in {"update_area", "area_group"}
               /\ area' = [area EXCEPT ![t.id] = area'[t.id]] /\ members' = members
               /\ t.page = Joined(Loaded("area", t.id), Listed("area", t.id))
            \/ /\ t.kind = "membership"
               /\ \A m \in members \cup members' : m \in members \cap members' \/ m[1] = t.id
               /\ area' = area
               /\ t.page = Joined(Loaded("account", t.id), Listed("account", t.id))

\* A form changes an area or an account's groups only if all that its page
\* showed, from both statements, is still there.
FormsAreOfTheirPage == [][ChangeIsAsShown]_vars

ChangeIsAuthorised ==
    \/ <<area, group, members>>' = <<area, group, members>>
    \/ \A c \in Slots : task'[c] # task[c] => validLockedAdministrator(task[c].actor)

\* Whoever changes an area, a group or a membership is an administrator in good
\* standing when the change commits, not only when the form came in.
AuthorityAtCommit == [][ChangeIsAuthorised]_vars

\* Who follows a list to its end has seen once each row that was there from the
\* start and did not change its place, whatever was created on the way.
WalksListEverything ==
    \A c \in Slots :
      task[c].step = "walked" =>
        \A id \in DOMAIN task[c].began :
          task[c].began[id] = Revisions(task[c].kind)[id] =>
            Cardinality({i \in DOMAIN task[c].listed : task[c].listed[i] = id}) = 1
=============================================================================
