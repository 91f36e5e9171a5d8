------------------------- MODULE AreasAndGroupsProofs -------------------------
(***************************************************************************)
(* Proofs about AreasAndGroups, for every number of accounts, areas,       *)
(* groups and requests.                                                    *)
(*                                                                         *)
(* A form locks the first rows of its plan, no row is locked by two, and   *)
(* what a form checked of a row holds for as long as it has the row.  All  *)
(* plans climb: accounts by their ids, then an area, then a group.  So no  *)
(* two transactions wait for each other, and whoever writes finds the      *)
(* revision of the page, and with it all that the page showed: a row whose *)
(* revision is still the one of the page is the row of the page.  A walk   *)
(* has listed what its key has passed.                                     *)
(***************************************************************************)
EXTENDS AreasAndGroups, FiniteSetTheorems, SequenceTheorems, WellFoundedInduction, TLAPS

-----------------------------------------------------------------------------
(* The inductive invariant. *)

PageShape(t) == t = [step |-> t.step, kind |-> t.kind, actor |-> t.actor, id |-> t.id, page |-> t.page]
WalkShape(t) ==
    t = [step |-> t.step, kind |-> t.kind, actor |-> t.actor, after |-> t.after, listed |-> t.listed,
         began |-> t.began]
NewShape(t) ==
    t = [step |-> t.step, locked |-> t.locked, kind |-> t.kind, actor |-> t.actor, wish |-> t.wish]
FormShape(t) ==
    t = [step |-> t.step, locked |-> t.locked, kind |-> t.kind, actor |-> t.actor, id |-> t.id,
         page |-> t.page, wish |-> t.wish]

Toggles == [group : Groups, grant : BOOLEAN]

\* What the statements of a page showed, and what still holds of it: as long as
\* the row has the revision of the page, the page shows the row and its groups.
RowIsTrue(kind, id, row) ==
    /\ kind = "area" =>
         /\ id \in AreasPresent /\ row.revision \in Nat /\ row.revision <= area[id].revision
         /\ row.revision = area[id].revision => row = LoadAreaForAdministrationPage(id)
    /\ kind = "account" =>
         /\ id \in Users /\ row.revision \in Nat /\ row.revision <= account[id].revision
         /\ row.revision = account[id].revision => row = LoadAccountForAdministration(id)
    /\ kind = "group" => id \in GroupsPresent
GroupsAreTrue(kind, id, page) ==
    /\ kind = "area" /\ page.row.revision = area[id].revision => page.groups = area[id].groups
    /\ kind = "account" /\ page.row.revision = account[id].revision =>
         page.groups = ListAccountGroupsForAdministration(id)
OpenedIsTrue(kind, id, page) == page = [row |-> page.row] /\ RowIsTrue(kind, id, page.row)
ShownIsTrue(kind, id, page) ==
    /\ page = Joined([row |-> page.row], [groups |-> page.groups])
    /\ RowIsTrue(kind, id, page.row) /\ GroupsAreTrue(kind, id, page)

\* The forms by kind.
FormIsTrue(t) ==
    \/ t.kind = "create_group" /\ NewShape(t) /\ t.wish \in Names
    \/ t.kind = "create_area" /\ NewShape(t) /\ t.wish \in AreaWishes /\ validAreaCoreInput(t.wish, TRUE)
    \/ t.kind = "update_area" /\ FormShape(t) /\ ShownIsTrue("area", t.id, t.page)
         /\ t.wish \in AreaWishes /\ validAreaCoreInput(t.wish, FALSE)
    \/ t.kind = "area_group" /\ FormShape(t) /\ ShownIsTrue("area", t.id, t.page) /\ t.wish \in Toggles
    \/ t.kind = "membership" /\ FormShape(t) /\ ShownIsTrue("account", t.id, t.page) /\ t.wish \in Toggles
    \/ t.kind = "rename_group" /\ FormShape(t) /\ t.id \in GroupsPresent /\ t.wish \in Names

\* A walk has listed once each row that it has passed, and none before it, of
\* those that stand where they stood when it began.
ListKinds == {"areas", "groups", "accounts"}
IdsOf(list) ==
    IF list = "areas" THEN AreasPresent ELSE IF list = "groups" THEN GroupsPresent ELSE Users
KeyOf(list, id) == IF list = "areas" THEN <<area[id].order, id>> ELSE <<0, id>>
Once(s, id) == \E i \in 1..Len(s) : s[i] = id /\ \A j \in 1..Len(s) : s[j] = id => j = i
Never(s, id) == \A i \in 1..Len(s) : s[i] # id
Unmoved(t, id) == t.began[id] = Revisions(t.kind)[id]
Passed(t, id) == t.step = "walked" \/ ~KeyLess(t.after, KeyOf(t.kind, id))
RowIsWalked(t, id) ==
    /\ Passed(t, id) => Once(t.listed, id)
    /\ ~Passed(t, id) => Never(t.listed, id)
BeganThere(t) ==
    \A id \in DOMAIN t.began :
      id \in IdsOf(t.kind) /\ t.began[id] \in Nat /\ t.began[id] <= Revisions(t.kind)[id]
WalkIsTrue(t) ==
    /\ t.kind \in ListKinds /\ t.listed \in Seq(Nat) /\ t.after \in Nat \X Nat
    /\ BeganThere(t)
    /\ \A id \in DOMAIN t.began : Unmoved(t, id) => RowIsWalked(t, id)

TaskIsTrue(t) ==
    \/ t = Free
    \/ t.step \in {"walking", "walked"} /\ WalkShape(t) /\ t.actor \in Users /\ WalkIsTrue(t)
    \/ /\ t.step = "opened" /\ PageShape(t) /\ t.actor \in Users
       /\ t.kind \in {"area", "account", "group"} /\ OpenedIsTrue(t.kind, t.id, t.page)
    \/ /\ t.step = "shown" /\ PageShape(t) /\ t.actor \in Users
       /\ t.kind \in {"area", "account", "group"} /\ ShownIsTrue(t.kind, t.id, t.page)
    \/ /\ t.step = "locking" /\ t.actor \in Users /\ t.locked \in Seq(Rows) /\ FormIsTrue(t)
TasksAreTrue == DOMAIN task = Slots /\ \A c \in Slots : TaskIsTrue(task[c])

RowsTyped ==
    /\ account \in [Users -> [role : Roles, bar : Bars, revision : 1..MaxRevision]]
    /\ area \in [Areas -> AreaRows \cup {Absent}]
    /\ group \in [Groups -> GroupRows \cup {Absent}]
    /\ members \subseteq Users \X Groups

\* The rows that a form has locked are the first of its plan.
IsPlanned(t) ==
    /\ Len(t.locked) <= Len(LockPlan(t))
    /\ \A i \in 1..Len(t.locked) : t.locked[i] = LockPlan(t)[i]
LocksArePlanned == \A c \in Slots : Locking(c) => IsPlanned(task[c])

\* No row is locked twice.
LocksExclude == \A c, d \in Slots : c # d => Locked(c) \cap Locked(d) = {}

\* What a form has checked of a row is still so while it holds the row.
OfArea(t) == t.kind \in {"update_area", "area_group"}
IsChecked(t) ==
    /\ Len(t.locked) >= Len(lockAdministrationUsers(t)) => UsersAccepted(t)
    /\ OfArea(t) /\ Len(t.locked) >= 2 => AreaAccepted(t)
    /\ t.kind = "rename_group" /\ Len(t.locked) >= 2 => group[t.id].revision # MaxRevision
ChecksHold == \A c \in Slots : Locking(c) => IsChecked(task[c])

\* Areas and their groups, and that somebody administers.
AreasFit == \A a \in AreasPresent : (area[a].visibility = "groups") <=> (area[a].groups # {})
SomebodyAdministers == \E u \in Users : account[u].role = "administrator"

ArrangeInv ==
    /\ RowsTyped /\ TasksAreTrue /\ LocksArePlanned /\ LocksExclude /\ ChecksHold
    /\ AreasFit /\ SomebodyAdministers /\ TrailIsTheArea

-----------------------------------------------------------------------------
(* Lock plans. *)

LEMMA Pair ==
    ASSUME NEW x, NEW y
    PROVE  <<x>> \o <<y>> = <<x, y>>
<1> DEFINE S == {x, y}
<1>1. <<x>> \in Seq(S) /\ <<y>> \in Seq(S) /\ <<x, y>> \in Seq(S) /\ <<x>> \o <<y>> \in Seq(S)
  OBVIOUS
<1>2. Len(<<x>> \o <<y>>) = 2 /\ (<<x>> \o <<y>>)[1] = x /\ (<<x>> \o <<y>>)[2] = y
  OBVIOUS
<1>3. Len(<<x, y>>) = 2 /\ <<x, y>>[1] = x /\ <<x, y>>[2] = y /\ \A i \in 1..2 : i = 1 \/ i = 2
  OBVIOUS
<1>4. \A i \in 1..Len(<<x>> \o <<y>>) : (<<x>> \o <<y>>)[i] = <<x, y>>[i]
  BY <1>2, <1>3
<1> HIDE DEF S
<1> QED BY <1>1, <1>2, <1>3, <1>4, SeqEqual

LEMMA Triple ==
    ASSUME NEW x, NEW y, NEW z
    PROVE  <<x, y>> \o <<z>> = <<x, y, z>>
<1> DEFINE S == {x, y, z}
<1>1. <<x, y>> \in Seq(S) /\ <<z>> \in Seq(S) /\ <<x, y, z>> \in Seq(S) /\ <<x, y>> \o <<z>> \in Seq(S)
  OBVIOUS
<1>2. /\ Len(<<x, y>> \o <<z>>) = 3 /\ (<<x, y>> \o <<z>>)[1] = x /\ (<<x, y>> \o <<z>>)[2] = y
      /\ (<<x, y>> \o <<z>>)[3] = z
  OBVIOUS
<1>3. /\ Len(<<x, y, z>>) = 3 /\ <<x, y, z>>[1] = x /\ <<x, y, z>>[2] = y /\ <<x, y, z>>[3] = z
      /\ \A i \in 1..3 : i = 1 \/ i = 2 \/ i = 3
  OBVIOUS
<1>4. \A i \in 1..Len(<<x, y>> \o <<z>>) : (<<x, y>> \o <<z>>)[i] = <<x, y, z>>[i]
  BY <1>2, <1>3
<1> HIDE DEF S
<1> QED BY <1>1, <1>2, <1>3, <1>4, SeqEqual

LEMMA NothingMore ==
    ASSUME NEW x, NEW y
    PROVE  <<x>> \o <<>> = <<x>> /\ <<x, y>> \o <<>> = <<x, y>>
<1>1. <<x>> \in Seq({x, y}) /\ <<x, y>> \in Seq({x, y})
  OBVIOUS
<1> QED BY <1>1, ConcatEmptySeq

\* Every form locks the row of its actor, or of the actor and the member by
\* their ids, then an area, then a group.
LEMMA PlanOf ==
    ASSUME NEW t
    PROVE  /\ t.kind = "create_group" => LockPlan(t) = <<Row("user", t.actor)>>
           /\ t.kind = "create_area" =>
                LockPlan(t) = (IF TakesFirstGroup(t) THEN <<Row("user", t.actor), Row("group", t.wish.group)>>
                               ELSE <<Row("user", t.actor)>>)
           /\ t.kind = "update_area" =>
                LockPlan(t) = (IF TakesFirstGroup(t)
                               THEN <<Row("user", t.actor), Row("area", t.id), Row("group", t.wish.group)>>
                               ELSE <<Row("user", t.actor), Row("area", t.id)>>)
           /\ t.kind = "area_group" =>
                LockPlan(t) = <<Row("user", t.actor), Row("area", t.id), Row("group", t.wish.group)>>
           /\ t.kind = "rename_group" => LockPlan(t) = <<Row("user", t.actor), Row("group", t.id)>>
           /\ t.kind = "membership" =>
                LockPlan(t) = (IF t.id = t.actor THEN <<Row("user", t.actor), Row("group", t.wish.group)>>
                               ELSE <<Row("user", Min({t.actor, t.id})), Row("user", Max({t.actor, t.id})),
                                      Row("group", t.wish.group)>>)
<1> DEFINE actor == <<Row("user", t.actor)>>
           place == <<Row("area", t.id)>>
           wished == <<Row("group", t.wish.group)>>
           first == IF TakesFirstGroup(t) THEN wished ELSE <<>>
<1>1. t.kind # "membership" => lockAdministrationUsers(t) = actor
  BY DEF lockAdministrationUsers
<1>2. /\ actor \o <<>> = actor
      /\ actor \o wished = <<Row("user", t.actor), Row("group", t.wish.group)>>
      /\ actor \o <<Row("group", t.id)>> = <<Row("user", t.actor), Row("group", t.id)>>
      /\ actor \o place = <<Row("user", t.actor), Row("area", t.id)>>
  BY NothingMore, Pair
<1>3. (actor \o place) \o wished = <<Row("user", t.actor), Row("area", t.id), Row("group", t.wish.group)>>
  BY <1>2, Triple
<1>4. (actor \o place) \o <<>> = <<Row("user", t.actor), Row("area", t.id)>>
  BY <1>2, NothingMore
<1>5. t.kind = "create_group" => LockPlan(t) = actor
  <2>1. t.kind = "create_group" => LockPlan(t) = (lockAdministrationUsers(t) \o <<>>) \o <<>>
    BY DEF LockPlan, AreaForms
  <2> QED BY <1>1, <1>2, <2>1
<1>6. t.kind = "create_area" => LockPlan(t) = actor \o first
  <2>1. t.kind = "create_area" => LockPlan(t) = (lockAdministrationUsers(t) \o <<>>) \o first
    BY DEF LockPlan, AreaForms
  <2> QED BY <1>1, <1>2, <2>1
<1>7. t.kind = "update_area" => LockPlan(t) = (actor \o place) \o first
  <2>1. t.kind = "update_area" => LockPlan(t) = (lockAdministrationUsers(t) \o place) \o first
    BY DEF LockPlan, AreaForms
  <2> QED BY <1>1, <2>1
<1>8. t.kind = "area_group" => LockPlan(t) = (actor \o place) \o wished
  <2>1. t.kind = "area_group" => LockPlan(t) = (lockAdministrationUsers(t) \o place) \o wished
    BY DEF LockPlan, AreaForms
  <2> QED BY <1>1, <2>1
<1>9. t.kind = "rename_group" => LockPlan(t) = actor \o <<Row("group", t.id)>>
  <2>1. t.kind = "rename_group" => LockPlan(t) = (lockAdministrationUsers(t) \o <<>>) \o <<Row("group", t.id)>>
    BY DEF LockPlan, AreaForms
  <2> QED BY <1>1, <1>2, <2>1
<1>10. t.kind = "membership" =>
         LockPlan(t) = (IF t.id = t.actor THEN <<Row("user", t.actor), Row("group", t.wish.group)>>
                        ELSE <<Row("user", Min({t.actor, t.id})), Row("user", Max({t.actor, t.id})),
                               Row("group", t.wish.group)>>)
  <2>1. t.kind = "membership" => LockPlan(t) = (lockAdministrationUsers(t) \o <<>>) \o wished
    BY DEF LockPlan, AreaForms
  <2>2. CASE t.kind = "membership" /\ t.id = t.actor
    <3>1. lockAdministrationUsers(t) = actor
      BY <2>2 DEF lockAdministrationUsers
    <3> QED BY <1>2, <2>1, <2>2, <3>1
  <2>3. CASE t.kind = "membership" /\ t.id # t.actor
    <3> DEFINE both == <<Row("user", Min({t.actor, t.id})), Row("user", Max({t.actor, t.id}))>>
    <3>1. lockAdministrationUsers(t) = both
      BY <2>3 DEF lockAdministrationUsers
    <3>2. both \o <<>> = both
      BY NothingMore
    <3>3. both \o wished = <<Row("user", Min({t.actor, t.id})), Row("user", Max({t.actor, t.id})),
                             Row("group", t.wish.group)>>
      BY Triple
    <3> HIDE DEF both
    <3> QED BY <2>1, <2>3, <3>1, <3>2, <3>3
  <2> QED BY <2>2, <2>3
<1> HIDE DEF actor, place, wished
<1>11. first = wished \/ first = <<>>
  OBVIOUS
<1>12. /\ TakesFirstGroup(t) => first = wished
       /\ ~TakesFirstGroup(t) => first = <<>>
  OBVIOUS
<1> HIDE DEF first
<1> QED BY <1>2, <1>3, <1>4, <1>5, <1>6, <1>7, <1>8, <1>9, <1>10, <1>12 DEF actor

LEMMA TwoIds ==
    ASSUME NEW m \in Nat, NEW n \in Nat, m # n
    PROVE  /\ Min({m, n}) \in {m, n} /\ Max({m, n}) \in {m, n}
           /\ Min({m, n}) < Max({m, n})
           /\ {Min({m, n}), Max({m, n})} = {m, n}
<1>1. Min({m, n}) \in {m, n} /\ \A x \in {m, n} : Min({m, n}) <= x
  <2>1. \E x \in {m, n} : \A y \in {m, n} : x <= y
    OBVIOUS
  <2> QED BY <2>1 DEF Min
<1>2. Max({m, n}) \in {m, n} /\ \A x \in {m, n} : Max({m, n}) >= x
  <2>1. \E x \in {m, n} : \A y \in {m, n} : x >= y
    OBVIOUS
  <2> QED BY <2>1 DEF Max
<1> QED BY <1>1, <1>2

\* What is known of a form, whatever its kind.
LEMMA FormFacts ==
    ASSUME ArrangeAssumption, RowsTyped, NEW t, FormIsTrue(t)
    PROVE  /\ t.kind \in Forms
           /\ OfArea(t) => t.id \in Areas /\ t.id \in AreasPresent
           /\ t.kind = "membership" => t.id \in Users
           /\ t.kind = "rename_group" => t.id \in Groups
           /\ t.kind \in {"area_group", "membership"} => t.wish \in Toggles /\ t.wish.group \in Groups
           /\ t.kind \in AreaForms => t.wish \in AreaWishes /\ (TakesFirstGroup(t) => t.wish.group \in Groups)
<1>1. t.kind \in AreaForms => t.wish \in AreaWishes
  BY DEF FormIsTrue, AreaForms
<1>2. t.wish \in AreaWishes /\ TakesFirstGroup(t) => t.wish.group \in Groups
  <2> SUFFICES ASSUME t.wish \in AreaWishes, TakesFirstGroup(t) PROVE t.wish.group \in Groups
    OBVIOUS
  <2>1. t.wish.group \in Groups \cup {0} /\ t.wish.group > 0
    BY DEF AreaWishes, TakesFirstGroup
  <2> QED BY <2>1
<1>3. t.kind \in {"area_group", "membership"} => t.wish \in Toggles
  BY DEF FormIsTrue
<1>4. t.wish \in Toggles => t.wish.group \in Groups
  BY DEF Toggles
<1>5. t.kind \in Forms
  BY DEF FormIsTrue, Forms, AreaForms
<1>6. OfArea(t) => t.id \in AreasPresent
  BY DEF FormIsTrue, OfArea, ShownIsTrue, RowIsTrue
<1>7. t.kind = "membership" => t.id \in Users
  BY DEF FormIsTrue, ShownIsTrue, RowIsTrue
<1>8. t.kind = "rename_group" => t.id \in Groups
  BY DEF FormIsTrue, GroupsPresent
<1> QED BY <1>1, <1>2, <1>3, <1>4, <1>5, <1>6, <1>7, <1>8 DEF AreasPresent

Before(r, s) ==
    \/ r.table = "user" /\ s.table \in {"area", "group"}
    \/ r.table = "area" /\ s.table = "group"
    \/ r.table = "user" /\ s.table = "user" /\ r.id < s.id

LEMMA RowFacts ==
    /\ \A u \in Users : Row("user", u) \in Rows
    /\ \A a \in Areas : Row("area", a) \in Rows
    /\ \A g \in Groups : Row("group", g) \in Rows
    /\ \A x, i : Row(x, i).table = x /\ Row(x, i).id = i
    /\ \A x, i, y, j : Row(x, i) = Row(y, j) <=> x = y /\ i = j
<1>1. \A x, i, y, j : Row(x, i) = Row(y, j) <=> x = y /\ i = j
  BY DEF Row
<1>2. \A u \in Users : Row("user", u) \in [table : {"user"}, id : Users]
  BY DEF Row
<1>3. \A u \in Areas : Row("area", u) \in [table : {"area"}, id : Areas]
  BY DEF Row
<1>4. \A u \in Groups : Row("group", u) \in [table : {"group"}, id : Groups]
  BY DEF Row
<1>5. \A x, i : Row(x, i).table = x /\ Row(x, i).id = i
  BY DEF Row
<1> QED BY <1>1, <1>2, <1>3, <1>4, <1>5 DEF Rows

LEMMA Climbs ==
    ASSUME NEW x, NEW y, NEW z
    PROVE  /\ <<x>> \in Seq({x}) /\ Len(<<x>>) = 1 /\ \A i, j \in 1..1 : ~ i < j
           /\ Before(x, y) => \A i, j \in 1..Len(<<x, y>>) : i < j => Before(<<x, y>>[i], <<x, y>>[j])
           /\ Before(x, y) /\ Before(x, z) /\ Before(y, z) =>
                \A i, j \in 1..Len(<<x, y, z>>) : i < j => Before(<<x, y, z>>[i], <<x, y, z>>[j])
<1>1. Len(<<x>>) = 1 /\ Len(<<x, y>>) = 2 /\ Len(<<x, y, z>>) = 3
  OBVIOUS
<1>2. <<x>> \in Seq({x}) /\ \A i, j \in 1..1 : ~ i < j
  OBVIOUS
<1>3. \A i, j \in 1..2 : i < j => i = 1 /\ j = 2
  OBVIOUS
<1>4. \A i, j \in 1..3 : i < j => (i = 1 /\ j = 2) \/ (i = 1 /\ j = 3) \/ (i = 2 /\ j = 3)
  OBVIOUS
<1>5. <<x, y>>[1] = x /\ <<x, y>>[2] = y /\ <<x, y, z>>[1] = x /\ <<x, y, z>>[2] = y /\ <<x, y, z>>[3] = z
  OBVIOUS
<1> QED BY <1>1, <1>2, <1>3, <1>4, <1>5

\* All plans climb: no form locks a row after one that comes later in the order.
LEMMA PlansClimb ==
    ASSUME ArrangeAssumption, RowsTyped, NEW t, t.actor \in Users, FormIsTrue(t)
    PROVE  /\ LockPlan(t) \in Seq(Rows) /\ Len(LockPlan(t)) \in 1..3
           /\ \A i, j \in 1..Len(LockPlan(t)) : i < j => Before(LockPlan(t)[i], LockPlan(t)[j])
<1>f. /\ t.kind \in Forms
      /\ OfArea(t) => t.id \in Areas
      /\ t.kind = "membership" => t.id \in Users
      /\ t.kind = "rename_group" => t.id \in Groups
      /\ t.kind \in {"area_group", "membership"} => t.wish.group \in Groups
      /\ t.kind \in AreaForms => (TakesFirstGroup(t) => t.wish.group \in Groups)
  BY FormFacts
<1> DEFINE Good(p) == /\ p \in Seq(Rows) /\ Len(p) \in 1..3
                      /\ \A i, j \in 1..Len(p) : i < j => Before(p[i], p[j])
<1>1. \A x \in Rows : Good(<<x>>)
  BY Climbs
<1>2. \A x, y \in Rows : Before(x, y) => Good(<<x, y>>)
  <2> SUFFICES ASSUME NEW x \in Rows, NEW y \in Rows, Before(x, y) PROVE Good(<<x, y>>)
    OBVIOUS
  <2>1. <<x, y>> \in Seq(Rows) /\ Len(<<x, y>>) = 2
    OBVIOUS
  <2> QED BY <2>1, Climbs
<1>3. \A x, y, z \in Rows : Before(x, y) /\ Before(x, z) /\ Before(y, z) => Good(<<x, y, z>>)
  <2> SUFFICES ASSUME NEW x \in Rows, NEW y \in Rows, NEW z \in Rows, Before(x, y), Before(x, z), Before(y, z)
               PROVE  Good(<<x, y, z>>)
    OBVIOUS
  <2>1. <<x, y, z>> \in Seq(Rows) /\ Len(<<x, y, z>>) = 3
    OBVIOUS
  <2> QED BY <2>1, Climbs
<1> HIDE DEF Good
<1>4. /\ \A u \in Users, g \in Groups : Before(Row("user", u), Row("group", g))
      /\ \A u \in Users, a \in Areas : Before(Row("user", u), Row("area", a))
      /\ \A a \in Areas, g \in Groups : Before(Row("area", a), Row("group", g))
      /\ \A u, v \in Users : u < v => Before(Row("user", u), Row("user", v))
  BY RowFacts DEF Before
<1>5. CASE t.kind = "create_group"
  <2>1. LockPlan(t) = <<Row("user", t.actor)>>
    BY <1>5, PlanOf
  <2>2. Good(<<Row("user", t.actor)>>)
    BY <1>1, RowFacts
  <2> QED BY <2>1, <2>2 DEF Good
<1>6. CASE t.kind = "create_area"
  <2>1. \/ LockPlan(t) = <<Row("user", t.actor)>>
        \/ /\ t.wish.group \in Groups
           /\ LockPlan(t) = <<Row("user", t.actor), Row("group", t.wish.group)>>
    BY <1>f, <1>6, PlanOf DEF AreaForms
  <2>2. Good(LockPlan(t))
    BY <2>1, <1>1, <1>2, <1>4, RowFacts
  <2> QED BY <2>2 DEF Good
<1>7. CASE t.kind = "update_area"
  <2>1. \/ LockPlan(t) = <<Row("user", t.actor), Row("area", t.id)>>
        \/ /\ t.wish.group \in Groups
           /\ LockPlan(t) = <<Row("user", t.actor), Row("area", t.id), Row("group", t.wish.group)>>
    BY <1>f, <1>7, PlanOf DEF AreaForms
  <2>2. t.id \in Areas
    BY <1>f, <1>7 DEF OfArea
  <2>3. Good(LockPlan(t))
    BY <2>1, <2>2, <1>2, <1>3, <1>4, RowFacts
  <2> QED BY <2>3 DEF Good
<1>8. CASE t.kind = "area_group"
  <2>1. LockPlan(t) = <<Row("user", t.actor), Row("area", t.id), Row("group", t.wish.group)>>
    BY <1>8, PlanOf
  <2>2. t.id \in Areas /\ t.wish.group \in Groups
    BY <1>f, <1>8 DEF OfArea
  <2>3. Good(LockPlan(t))
    BY <2>1, <2>2, <1>3, <1>4, RowFacts
  <2> QED BY <2>3 DEF Good
<1>9. CASE t.kind = "rename_group"
  <2>0. LockPlan(t) = <<Row("user", t.actor), Row("group", t.id)>> /\ t.id \in Groups
    BY <1>f, <1>9, PlanOf
  <2>1. Good(LockPlan(t))
    BY <2>0, <1>2, <1>4, RowFacts
  <2> QED BY <2>1 DEF Good
<1>10. CASE t.kind = "membership"
  <2> DEFINE low == Min({t.actor, t.id})
             high == Max({t.actor, t.id})
  <2>1. \/ LockPlan(t) = <<Row("user", t.actor), Row("group", t.wish.group)>>
        \/ t.id # t.actor /\ LockPlan(t) = <<Row("user", low), Row("user", high), Row("group", t.wish.group)>>
    BY <1>10, PlanOf
  <2>2. t.id \in Users /\ t.wish.group \in Groups
    BY <1>f, <1>10
  <2>3. t.id # t.actor => low \in Users /\ high \in Users /\ low < high
    <3>1. t.id \in Nat /\ t.actor \in Nat
      BY <2>2 DEF ArrangeAssumption
    <3> QED BY <2>2, <3>1, TwoIds
  <2> HIDE DEF low, high
  <2>4. Good(LockPlan(t))
    BY <2>1, <2>2, <2>3, <1>2, <1>3, <1>4, RowFacts
  <2> QED BY <2>4 DEF Good
<1> QED BY <1>f, <1>5, <1>6, <1>7, <1>8, <1>9, <1>10 DEF Forms, AreaForms

\* What a slot holds: the first rows of its plan.
LEMMA HeldIsPlanned ==
    ASSUME ArrangeAssumption, RowsTyped, TasksAreTrue, LocksArePlanned, NEW c \in Slots, NEW r \in Locked(c)
    PROVE  /\ Locking(c)
           /\ \E i \in 1..Len(task[c].locked) : r = task[c].locked[i] /\ r = LockPlan(task[c])[i]
<1>1. Locking(c) /\ r \in Range(task[c].locked)
  BY DEF Locked
<1>2. task[c].locked \in Seq(Rows)
  BY <1>1 DEF TasksAreTrue, TaskIsTrue, Locking, Free
<1>3. \E i \in DOMAIN task[c].locked : r = task[c].locked[i]
  BY <1>1 DEF Range
<1>4. DOMAIN task[c].locked = 1..Len(task[c].locked)
  BY <1>2
<1> QED BY <1>1, <1>3, <1>4 DEF LocksArePlanned, IsPlanned

\* Who waits wants a row of its plan; whom it waits for, if it waits itself,
\* wants a row that comes after that.
Wanted(c) == LockPlan(task[c])[Len(task[c].locked) + 1]

LEMMA WaitsAscend ==
    ASSUME ArrangeAssumption, RowsTyped, TasksAreTrue, LocksArePlanned,
           NEW c \in Slots, NEW d \in Slots, NEW e \in Slots, WaitsFor(c, d), WaitsFor(d, e)
    PROVE  /\ Wanted(c) \in Rows /\ Wanted(d) \in Rows
           /\ Before(Wanted(c), Wanted(d))
<1> DEFINE p == LockPlan(task[c])
           q == LockPlan(task[d])
           m == Len(task[c].locked)
           n == Len(task[d].locked)
<1>1. /\ Locking(c) /\ m < Len(p) /\ m \in Nat /\ Locking(d) /\ n < Len(q) /\ n \in Nat
  BY DEF WaitsFor, TasksAreTrue, TaskIsTrue, Locking, Free
<1>2. /\ p \in Seq(Rows) /\ q \in Seq(Rows) /\ Len(p) \in 1..3 /\ Len(q) \in 1..3
      /\ \A i, j \in 1..Len(q) : i < j => Before(q[i], q[j])
  BY <1>1, PlansClimb DEF TasksAreTrue, TaskIsTrue, Locking, Free
<1>3. PICK i \in 1..n : q[i] = Wanted(c)
  <2>1. Wanted(c) \in Locked(d)
    BY DEF WaitsFor, Wanted
  <2> QED BY <2>1, HeldIsPlanned
<1>4. Wanted(c) = p[m + 1] /\ Wanted(d) = q[n + 1]
  BY DEF Wanted
<1> HIDE DEF p, q, m, n
<1>5. m + 1 \in 1..Len(p) /\ n + 1 \in 1..Len(q) /\ i \in 1..Len(q) /\ i < n + 1
  BY <1>1, <1>2
<1> QED BY <1>2, <1>3, <1>4, <1>5

\* Where every number of a finite set is followed by a larger one there is none:
\* the numbers above each would be ever smaller sets.
LEMMA NoEndlessAscent ==
    ASSUME NEW S \in SUBSET Nat, IsFiniteSet(S), S # {}
    PROVE  \E n \in S : \A m \in S : m <= n
<1> DEFINE Above(n) == {m \in S : m > n}
           T == {Above(n) : n \in S}
<1>1. T \subseteq FiniteSubsetsOf(S) /\ T # {}
  <2>1. \A n \in S : Above(n) \in SUBSET S
    OBVIOUS
  <2>2. T \subseteq SUBSET S /\ T # {}
    BY <2>1
  <2> HIDE DEF T
  <2> QED BY <2>2, FS_FiniteSubsetsOfFinite
<1>2. PICK x \in T : \A y \in T : <<y, x>> \notin StrictSubsetOrdering(S)
  <2> HIDE DEF T
  <2> QED BY <1>1, FS_StrictSubsetOrderingWellFounded, WFMin
<1>3. PICK n \in S : x = Above(n)
  OBVIOUS
<1>4. ASSUME NEW m \in S, ~(m <= n) PROVE FALSE
  <2>1. m \in Nat /\ n \in Nat /\ m > n
    BY <1>4
  <2>2. /\ \A k \in S : k > m => k > n
        /\ ~(m > m)
    BY <2>1
  <2>3. Above(m) \subseteq Above(n) /\ m \in Above(n) /\ m \notin Above(m)
    BY <2>1, <2>2, Zenon
  <2>4. <<Above(m), Above(n)>> \in StrictSubsetOrdering(S)
    <3>1. Above(m) \in SUBSET S /\ Above(n) \in SUBSET S /\ Above(m) # Above(n)
      BY <2>3
    <3> HIDE DEF Above
    <3> QED BY <2>3, <3>1 DEF StrictSubsetOrdering
  <2>5. Above(m) \in T
    OBVIOUS
  <2> QED BY <1>2, <1>3, <2>4, <2>5
<1> QED BY <1>4

LEMMA NoRing ==
    ASSUME ArrangeAssumption, RowsTyped, TasksAreTrue, LocksArePlanned
    PROVE  NoWaitCycle
<1> SUFFICES ASSUME NEW ring \in SUBSET Slots, ring # {}, \A c \in ring : \E d \in ring : WaitsFor(c, d)
             PROVE  FALSE
  BY Zenon DEF NoWaitCycle
<1>1. ASSUME NEW c \in ring
      PROVE  /\ Wanted(c) \in Rows
             /\ \E d \in ring : WaitsFor(c, d) /\ Before(Wanted(c), Wanted(d))
  <2>1. PICK d \in ring : WaitsFor(c, d)
    OBVIOUS
  <2>2. PICK e \in ring : WaitsFor(d, e)
    OBVIOUS
  <2> QED BY <2>1, <2>2, WaitsAscend
<1>2. \A c \in ring : Wanted(c).table # "group"
  BY <1>1 DEF Before
<1>3. \A c \in ring : Wanted(c).table # "area"
  BY <1>1, <1>2 DEF Before
<1> DEFINE Ids == {Wanted(c).id : c \in ring}
<1>4. \A c \in ring : Wanted(c).table = "user" /\ Wanted(c).id \in Users
  <2>1. \A r \in Rows : \/ r.table = "area" \/ r.table = "group" \/ (r.table = "user" /\ r.id \in Users)
    BY DEF Rows
  <2> QED BY <1>1, <1>2, <1>3, <2>1
<1>5. Ids \in SUBSET Nat /\ IsFiniteSet(Ids) /\ Ids # {}
  <2>1. Ids \in SUBSET Users /\ Ids # {}
    BY <1>4
  <2> HIDE DEF Ids
  <2> QED BY <2>1, FS_Subset DEF ArrangeAssumption
<1>6. PICK n \in Ids : \A m \in Ids : m <= n
  <2> HIDE DEF Ids
  <2> QED BY <1>5, NoEndlessAscent
<1>7. PICK c \in ring : n = Wanted(c).id
  OBVIOUS
<1>8. PICK d \in ring : Before(Wanted(c), Wanted(d))
  BY <1>1
<1>9. Wanted(c).id < Wanted(d).id /\ Wanted(d).id \in Ids
  BY <1>4, <1>8 DEF Before
<1>10. n \in Nat /\ Wanted(d).id \in Nat /\ Wanted(d).id <= n /\ n < Wanted(d).id
  BY <1>5, <1>6, <1>7, <1>9
<1> QED BY <1>10

-----------------------------------------------------------------------------
(* A form that is ready holds the rows of its plan, and what it checked of them *)
(* is so.                                                                      *)

LEMMA UserLocks ==
    ASSUME NEW t
    PROVE  /\ Len(lockAdministrationUsers(t)) \in 1..2
           /\ t.kind # "membership" => Len(lockAdministrationUsers(t)) = 1
           /\ t.kind = "membership" /\ t.id = t.actor => Len(lockAdministrationUsers(t)) = 1
           /\ t.kind = "membership" /\ t.id # t.actor => Len(lockAdministrationUsers(t)) = 2
<1>1. \A x, y : Len(<<x>>) = 1 /\ Len(<<x, y>>) = 2
  OBVIOUS
<1>2. CASE t.kind = "membership" /\ t.id # t.actor
  BY <1>1, <1>2 DEF lockAdministrationUsers
<1>3. CASE ~(t.kind = "membership" /\ t.id # t.actor)
  BY <1>1, <1>3 DEF lockAdministrationUsers
<1> QED BY <1>2, <1>3

\* The place of each row in a plan.
LEMMA Places ==
    ASSUME NEW t
    PROVE  /\ OfArea(t) => Len(LockPlan(t)) >= 2 /\ LockPlan(t)[1] = Row("user", t.actor)
                             /\ LockPlan(t)[2] = Row("area", t.id)
           /\ t.kind = "rename_group" => Len(LockPlan(t)) = 2 /\ LockPlan(t)[2] = Row("group", t.id)
           /\ t.kind = "membership" /\ t.id = t.actor =>
                Len(LockPlan(t)) = 2 /\ LockPlan(t)[1] = Row("user", t.actor)
           /\ t.kind = "membership" /\ t.id # t.actor =>
                /\ Len(LockPlan(t)) = 3
                /\ LockPlan(t)[1] = Row("user", Min({t.actor, t.id}))
                /\ LockPlan(t)[2] = Row("user", Max({t.actor, t.id}))
           /\ t.kind \in Forms \ {"membership"} => Len(LockPlan(t)) >= 1 /\ LockPlan(t)[1] = Row("user", t.actor)
<1>1. \A x, y, z : /\ Len(<<x>>) = 1 /\ Len(<<x, y>>) = 2 /\ Len(<<x, y, z>>) = 3
                   /\ <<x>>[1] = x /\ <<x, y>>[1] = x /\ <<x, y>>[2] = y
                   /\ <<x, y, z>>[1] = x /\ <<x, y, z>>[2] = y
  OBVIOUS
<1>2. /\ t.kind = "update_area" \/ t.kind = "area_group" =>
           \/ LockPlan(t) = <<Row("user", t.actor), Row("area", t.id), Row("group", t.wish.group)>>
           \/ LockPlan(t) = <<Row("user", t.actor), Row("area", t.id)>>
  BY PlanOf
<1>3. t.kind = "create_area" =>
        \/ LockPlan(t) = <<Row("user", t.actor), Row("group", t.wish.group)>>
        \/ LockPlan(t) = <<Row("user", t.actor)>>
  BY PlanOf
<1>4. /\ t.kind = "create_group" => LockPlan(t) = <<Row("user", t.actor)>>
      /\ t.kind = "rename_group" => LockPlan(t) = <<Row("user", t.actor), Row("group", t.id)>>
  BY PlanOf
<1>5. /\ t.kind = "membership" /\ t.id = t.actor => LockPlan(t) = <<Row("user", t.actor), Row("group", t.wish.group)>>
      /\ t.kind = "membership" /\ t.id # t.actor =>
           LockPlan(t) = <<Row("user", Min({t.actor, t.id})), Row("user", Max({t.actor, t.id})),
                           Row("group", t.wish.group)>>
  BY PlanOf
<1>6. OfArea(t) => Len(LockPlan(t)) >= 2 /\ LockPlan(t)[1] = Row("user", t.actor) /\ LockPlan(t)[2] = Row("area", t.id)
  BY <1>1, <1>2 DEF OfArea
<1>7. t.kind = "rename_group" =>
        Len(LockPlan(t)) = 2 /\ LockPlan(t)[1] = Row("user", t.actor) /\ LockPlan(t)[2] = Row("group", t.id)
  BY <1>1, <1>4
<1>8. t.kind = "membership" /\ t.id = t.actor => Len(LockPlan(t)) = 2 /\ LockPlan(t)[1] = Row("user", t.actor)
  BY <1>1, <1>5
<1>9. t.kind = "membership" /\ t.id # t.actor =>
        /\ Len(LockPlan(t)) = 3
        /\ LockPlan(t)[1] = Row("user", Min({t.actor, t.id}))
        /\ LockPlan(t)[2] = Row("user", Max({t.actor, t.id}))
  BY <1>1, <1>5
<1>10. t.kind \in {"create_area", "create_group"} => Len(LockPlan(t)) >= 1 /\ LockPlan(t)[1] = Row("user", t.actor)
  BY <1>1, <1>3, <1>4
<1>11. t.kind \in Forms \ {"membership"} => OfArea(t) \/ t.kind = "rename_group" \/ t.kind \in {"create_area", "create_group"}
  BY DEF Forms, AreaForms, OfArea
<1>12. t.kind \in Forms \ {"membership"} => Len(LockPlan(t)) >= 1 /\ LockPlan(t)[1] = Row("user", t.actor)
  BY <1>6, <1>7, <1>10, <1>11
<1> QED BY <1>6, <1>7, <1>8, <1>9, <1>12

\* The rows among the first n of a plan.
LEMMA HeldOf ==
    ASSUME ArrangeAssumption, RowsTyped, TasksAreTrue, LocksArePlanned, NEW c \in Slots, Locking(c)
    PROVE  /\ task[c].actor \in Users /\ FormIsTrue(task[c]) /\ task[c].kind \in Forms
           /\ task[c].locked \in Seq(Rows) /\ Len(task[c].locked) \in Nat
           /\ Len(task[c].locked) <= Len(LockPlan(task[c]))
           /\ \A i \in 1..Len(task[c].locked) : LockPlan(task[c])[i] \in Locked(c)
           /\ Locked(c) = Range(task[c].locked)
<1>1. /\ task[c].actor \in Users /\ FormIsTrue(task[c]) /\ task[c].locked \in Seq(Rows)
  BY DEF TasksAreTrue, TaskIsTrue, Locking, Free
<1>2. task[c].kind \in Forms
  BY <1>1, FormFacts
<1>3. /\ Len(task[c].locked) <= Len(LockPlan(task[c]))
      /\ \A i \in 1..Len(task[c].locked) : task[c].locked[i] = LockPlan(task[c])[i]
  BY DEF LocksArePlanned, IsPlanned
<1>4. \A i \in 1..Len(task[c].locked) : task[c].locked[i] \in Range(task[c].locked)
  <2>1. DOMAIN task[c].locked = 1..Len(task[c].locked)
    BY <1>1
  <2> QED BY <2>1 DEF Range
<1>5. Locked(c) = Range(task[c].locked)
  BY DEF Locked
<1>6. Len(task[c].locked) \in Nat
  BY <1>1
<1> QED BY <1>1, <1>2, <1>3, <1>4, <1>5, <1>6

LEMMA ReadyHolds ==
    ASSUME ArrangeAssumption, RowsTyped, TasksAreTrue, LocksArePlanned, ChecksHold,
           NEW c \in Slots, NEW kind, Ready(c, kind)
    PROVE  /\ Locking(c) /\ task[c].kind = kind /\ task[c].actor \in Users /\ FormIsTrue(task[c])
           /\ UsersAccepted(task[c])
           /\ OfArea(task[c]) => AreaAccepted(task[c]) /\ Row("area", task[c].id) \in Locked(c)
           /\ kind = "rename_group" =>
                group[task[c].id].revision # MaxRevision /\ Row("group", task[c].id) \in Locked(c)
           /\ kind = "membership" => Row("user", task[c].id) \in Locked(c)
           /\ Row("user", task[c].actor) \in Locked(c)
<1> DEFINE t == task[c]
           n == Len(LockPlan(t))
<1>1. /\ Locking(c) /\ t.kind = kind /\ Len(t.locked) = n
  BY DEF Ready
<1>2. /\ t.actor \in Users /\ FormIsTrue(t) /\ t.kind \in Forms /\ IsChecked(t)
      /\ \A i \in 1..n : LockPlan(t)[i] \in Locked(c)
  BY <1>1, HeldOf DEF ChecksHold
<1>3. n \in 1..3
  BY <1>2, PlansClimb
<1> HIDE DEF t
<1>4. Len(lockAdministrationUsers(t)) <= n
  <2>1. CASE t.kind = "membership" /\ t.id = t.actor
    <3>1. Len(lockAdministrationUsers(t)) = 1
      BY <2>1, UserLocks
    <3> QED BY <3>1, <1>3
  <2>2. CASE t.kind = "membership" /\ t.id # t.actor
    <3>1. Len(lockAdministrationUsers(t)) = 2 /\ n = 3
      BY <2>2, UserLocks, Places
    <3> QED BY <3>1
  <2>3. CASE t.kind # "membership"
    <3>1. Len(lockAdministrationUsers(t)) = 1
      BY <2>3, UserLocks
    <3> QED BY <3>1, <1>3
  <2> QED BY <2>1, <2>2, <2>3
<1>5. UsersAccepted(t)
  BY <1>1, <1>2, <1>4 DEF IsChecked
<1>6. OfArea(t) => AreaAccepted(t) /\ Row("area", t.id) \in Locked(c)
  <2> SUFFICES ASSUME OfArea(t) PROVE AreaAccepted(t) /\ Row("area", t.id) \in Locked(c)
    OBVIOUS
  <2>1. n >= 2 /\ LockPlan(t)[2] = Row("area", t.id)
    BY Places
  <2>2. 2 \in 1..n
    BY <1>3, <2>1
  <2> QED BY <1>1, <1>2, <2>1, <2>2 DEF IsChecked
<1>7. kind = "rename_group" => group[t.id].revision # MaxRevision /\ Row("group", t.id) \in Locked(c)
  <2> SUFFICES ASSUME kind = "rename_group"
               PROVE  group[t.id].revision # MaxRevision /\ Row("group", t.id) \in Locked(c)
    OBVIOUS
  <2>1. n = 2 /\ LockPlan(t)[2] = Row("group", t.id)
    BY <1>1, Places
  <2>2. 2 \in 1..n
    BY <1>3, <2>1
  <2> QED BY <1>1, <1>2, <2>1, <2>2 DEF IsChecked
<1>8. kind = "membership" => Row("user", t.id) \in Locked(c) /\ Row("user", t.actor) \in Locked(c)
  <2>1. CASE kind = "membership" /\ t.id = t.actor
    <3>1. 1 \in 1..n
      BY <1>3
    <3>2. LockPlan(t)[1] = Row("user", t.actor)
      BY <1>1, <2>1, Places
    <3> QED BY <1>2, <2>1, <3>1, <3>2
  <2>2. CASE kind = "membership" /\ t.id # t.actor
    <3>1. /\ n = 3 /\ LockPlan(t)[1] = Row("user", Min({t.actor, t.id}))
          /\ LockPlan(t)[2] = Row("user", Max({t.actor, t.id}))
      BY <1>1, <2>2, Places
    <3>2. 1 \in 1..n /\ 2 \in 1..n
      BY <3>1
    <3>3. t.id \in Nat /\ t.actor \in Nat
      BY <1>1, <1>2, <2>2, FormFacts DEF ArrangeAssumption
    <3>4. t.id \in {Min({t.actor, t.id}), Max({t.actor, t.id})} /\ t.actor \in {Min({t.actor, t.id}), Max({t.actor, t.id})}
      BY <2>2, <3>3, TwoIds
    <3>5. /\ Row("user", Min({t.actor, t.id})) \in Locked(c)
          /\ Row("user", Max({t.actor, t.id})) \in Locked(c)
      BY <1>2, <3>1, <3>2
    <3> QED BY <3>4, <3>5
  <2> QED BY <2>1, <2>2
<1>9. kind # "membership" => Row("user", t.actor) \in Locked(c)
  <2> SUFFICES ASSUME kind # "membership" PROVE Row("user", t.actor) \in Locked(c)
    OBVIOUS
  <2>1. 1 \in 1..n
    BY <1>3
  <2>2. LockPlan(t)[1] = Row("user", t.actor)
    BY <1>1, <1>2, Places
  <2> QED BY <1>2, <2>1, <2>2
<1> QED BY <1>1, <1>2, <1>5, <1>6, <1>7, <1>8, <1>9 DEF t

-----------------------------------------------------------------------------
(* What a step does to rows. *)

\* Rows do not go; a row with the revision it had is the row it was.
RowsAdvance ==
    /\ \A a \in AreasPresent :
         /\ area'[a] # Absent /\ area'[a].revision >= area[a].revision
         /\ area'[a].revision = area[a].revision => area'[a] = area[a]
    /\ \A u \in Users :
         /\ account'[u].revision >= account[u].revision
         /\ account'[u].revision = account[u].revision =>
              account'[u].role = account[u].role /\ \A g \in Groups : <<u, g>> \in members' <=> <<u, g>> \in members
    /\ \A g \in GroupsPresent : group'[g] # Absent

\* A transaction changes only rows that it holds.
RowsTouched(c) ==
    /\ \A a \in AreasPresent : area'[a] = area[a] \/ Row("area", a) \in Locked(c)
    /\ \A u \in Users : account'[u] = account[u] \/ Row("user", u) \in Locked(c)
    /\ \A g \in GroupsPresent : group'[g] = group[g] \/ Row("group", g) \in Locked(c)

RowsGood == RowsTyped /\ AreasFit /\ SomebodyAdministers /\ TrailIsTheArea
Written(c) == RowsGood' /\ RowsAdvance /\ RowsTouched(c)

LEMMA AreaRowFacts ==
    ASSUME MaxRevision \in Nat \ {0}, NEW row \in AreaRows
    PROVE  /\ row # Absent /\ row.revision \in 1..MaxRevision
           /\ row = [order |-> row.order, visibility |-> row.visibility, groups |-> row.groups, revision |-> row.revision]
           /\ row.order \in Orders /\ row.visibility \in Visibilities /\ row.groups \in SUBSET Groups
           /\ \A g : AddAreaGroupForAdministration(row, g) =
                [order |-> row.order, visibility |-> row.visibility, groups |-> row.groups \cup {g},
                 revision |-> row.revision]
           /\ DeleteAreaGroupsForAdministration(row) =
                [order |-> row.order, visibility |-> row.visibility, groups |-> {}, revision |-> row.revision]
           /\ \A wish : UpdateAdministrationAreaAndAudit(row, wish) =
                [order |-> wish.order, visibility |-> wish.visibility, groups |-> row.groups,
                 revision |-> row.revision + 1]
           /\ \A g : GrantAdministrationAreaGroupAndAudit(row, g) =
                [order |-> row.order, visibility |-> row.visibility, groups |-> row.groups \cup {g},
                 revision |-> row.revision + 1]
           /\ \A g : RevokeAdministrationAreaGroupAndAudit(row, g) =
                (IF Cardinality(row.groups) > 1
                 THEN [order |-> row.order, visibility |-> row.visibility, groups |-> row.groups \ {g},
                       revision |-> row.revision + 1]
                 ELSE row)
<1>1. /\ row = [order |-> row.order, visibility |-> row.visibility, groups |-> row.groups, revision |-> row.revision]
      /\ row.order \in Orders /\ row.visibility \in Visibilities /\ row.groups \in SUBSET Groups
      /\ row.revision \in 1..MaxRevision
  BY DEF AreaRows
<1>2. row # Absent
  BY <1>1 DEF Absent
<1>3. \A g : AddAreaGroupForAdministration(row, g) =
        [order |-> row.order, visibility |-> row.visibility, groups |-> row.groups \cup {g},
         revision |-> row.revision]
  BY <1>1 DEF AddAreaGroupForAdministration
<1>4. DeleteAreaGroupsForAdministration(row) =
        [order |-> row.order, visibility |-> row.visibility, groups |-> {}, revision |-> row.revision]
  BY <1>1 DEF DeleteAreaGroupsForAdministration
<1>5. \A wish : UpdateAdministrationAreaAndAudit(row, wish) =
        [order |-> wish.order, visibility |-> wish.visibility, groups |-> row.groups, revision |-> row.revision + 1]
  <2> SUFFICES ASSUME NEW wish
               PROVE  UpdateAdministrationAreaAndAudit(row, wish) =
                        [order |-> wish.order, visibility |-> wish.visibility, groups |-> row.groups,
                         revision |-> row.revision + 1]
    OBVIOUS
  <2>1. PICK p : p = [row EXCEPT !.order = wish.order]
    OBVIOUS
  <2>2. p = [order |-> wish.order, visibility |-> row.visibility, groups |-> row.groups, revision |-> row.revision]
    BY <1>1, <2>1
  <2>3. PICK q : q = [p EXCEPT !.visibility = wish.visibility]
    OBVIOUS
  <2>4. q = [order |-> wish.order, visibility |-> wish.visibility, groups |-> row.groups, revision |-> row.revision]
    BY <2>2, <2>3
  <2>5. [q EXCEPT !.revision = row.revision + 1] =
          [order |-> wish.order, visibility |-> wish.visibility, groups |-> row.groups, revision |-> row.revision + 1]
    BY <2>4
  <2>6. UpdateAdministrationAreaAndAudit(row, wish) =
          [[[row EXCEPT !.order = wish.order] EXCEPT !.visibility = wish.visibility]
            EXCEPT !.revision = row.revision + 1]
    BY <1>1 DEF UpdateAdministrationAreaAndAudit
  <2> QED BY <2>1, <2>3, <2>5, <2>6, Zenon
<1>6. \A x : [row EXCEPT !.groups = x, !.revision = row.revision + 1] =
        [order |-> row.order, visibility |-> row.visibility, groups |-> x, revision |-> row.revision + 1]
  <2> SUFFICES ASSUME NEW x
               PROVE  [row EXCEPT !.groups = x, !.revision = row.revision + 1] =
                        [order |-> row.order, visibility |-> row.visibility, groups |-> x,
                         revision |-> row.revision + 1]
    OBVIOUS
  <2>1. PICK p : p = [row EXCEPT !.groups = x]
    OBVIOUS
  <2>2. p = [order |-> row.order, visibility |-> row.visibility, groups |-> x, revision |-> row.revision]
    BY <1>1, <2>1
  <2>3. [p EXCEPT !.revision = row.revision + 1] =
          [order |-> row.order, visibility |-> row.visibility, groups |-> x, revision |-> row.revision + 1]
    BY <2>2
  <2>4. [row EXCEPT !.groups = x, !.revision = row.revision + 1] =
          [[row EXCEPT !.groups = x] EXCEPT !.revision = row.revision + 1]
    BY <1>1
  <2> QED BY <2>1, <2>3, <2>4, Zenon
<1>7. /\ \A g : GrantAdministrationAreaGroupAndAudit(row, g) =
           [row EXCEPT !.groups = row.groups \cup {g}, !.revision = row.revision + 1]
      /\ \A g : RevokeAdministrationAreaGroupAndAudit(row, g) =
           (IF Cardinality(row.groups) > 1
            THEN [row EXCEPT !.groups = row.groups \ {g}, !.revision = row.revision + 1] ELSE row)
  BY DEF GrantAdministrationAreaGroupAndAudit, RevokeAdministrationAreaGroupAndAudit
<1>8. \A g : GrantAdministrationAreaGroupAndAudit(row, g) =
        [order |-> row.order, visibility |-> row.visibility, groups |-> row.groups \cup {g},
         revision |-> row.revision + 1]
  BY <1>6, <1>7, Zenon
<1>9. \A g : RevokeAdministrationAreaGroupAndAudit(row, g) =
        (IF Cardinality(row.groups) > 1
         THEN [order |-> row.order, visibility |-> row.visibility, groups |-> row.groups \ {g},
               revision |-> row.revision + 1]
         ELSE row)
  BY <1>6, <1>7, Zenon
<1> QED BY <1>1, <1>2, <1>3, <1>4, <1>5, <1>8, <1>9, Zenon

\* One area is written, and the record of it says what it is.
LEMMA AreaWritten ==
    ASSUME ArrangeAssumption, RowsGood, NEW c \in Slots, NEW a \in Areas, NEW row \in AreaRows,
           area' = [area EXCEPT ![a] = row], trail' = [trail EXCEPT ![a] = row],
           (row.visibility = "groups") <=> (row.groups # {}),
           \/ a \notin AreasPresent
           \/ area[a] \in AreaRows /\ row.revision = area[a].revision + 1 /\ Row("area", a) \in Locked(c),
           UNCHANGED <<account, group, members>>
    PROVE  Written(c)
<1>1. /\ area \in [Areas -> AreaRows \cup {Absent}] /\ trail = area
      /\ area'[a] = row /\ \A b \in Areas \ {a} : area'[b] = area[b]
  BY DEF RowsGood, RowsTyped, TrailIsTheArea
<1>2. row # Absent /\ row.revision \in 1..MaxRevision
  BY AreaRowFacts DEF ArrangeAssumption
<1>3. RowsTyped'
  BY <1>1 DEF RowsGood, RowsTyped
<1>4. TrailIsTheArea'
  BY <1>1 DEF TrailIsTheArea
<1>5. AreasFit'
  BY <1>1, <1>2 DEF RowsGood, AreasFit, AreasPresent
<1>6. SomebodyAdministers'
  BY DEF RowsGood, SomebodyAdministers
<1>7. \A b \in AreasPresent : area[b] \in AreaRows /\ area[b].revision \in Nat
  <2>1. \A b \in AreasPresent : area[b] \in AreaRows
    BY <1>1 DEF AreasPresent
  <2>2. \A r \in AreaRows : r.revision \in Nat
    BY AreaRowFacts DEF ArrangeAssumption
  <2> QED BY <2>1, <2>2
<1>8. /\ \A u \in Users : account'[u] = account[u] /\ account[u].revision \in Nat
      /\ \A g \in Groups : group'[g] = group[g]
  BY DEF RowsGood, RowsTyped
<1>9. \A b \in AreasPresent :
        /\ area'[b] # Absent /\ area'[b].revision >= area[b].revision
        /\ area'[b].revision = area[b].revision => area'[b] = area[b]
        /\ area'[b] = area[b] \/ Row("area", b) \in Locked(c)
  <2> SUFFICES ASSUME NEW b \in AreasPresent
               PROVE  /\ area'[b] # Absent /\ area'[b].revision >= area[b].revision
                      /\ area'[b].revision = area[b].revision => area'[b] = area[b]
                      /\ area'[b] = area[b] \/ Row("area", b) \in Locked(c)
    OBVIOUS
  <2>1. b \in Areas /\ area[b] # Absent
    BY DEF AreasPresent
  <2>2. CASE b = a
    BY <1>1, <1>2, <1>7, <2>2
  <2>3. CASE b # a
    BY <1>1, <1>7, <2>1, <2>3
  <2> QED BY <2>2, <2>3
<1>10. RowsAdvance
  BY <1>8, <1>9 DEF RowsAdvance, GroupsPresent
<1>11. RowsTouched(c)
  BY <1>8, <1>9 DEF RowsTouched, GroupsPresent
<1> QED BY <1>3, <1>4, <1>5, <1>6, <1>10, <1>11 DEF Written, RowsGood

LEMMA CreateAreaWrites ==
    ASSUME ArrangeAssumption, RowsGood, TasksAreTrue, LocksArePlanned, ChecksHold, NEW c \in Slots,
           CreateAreaCompletion(c)
    PROVE  Written(c)
<1> DEFINE wish == task[c].wish
           made == [order |-> wish.order, visibility |-> wish.visibility, groups |-> {wish.group} \ {0}, revision |-> 1]
<1>1. Ready(c, "create_area") /\ RowsTyped
  BY DEF CreateAreaCompletion, RowsGood
<1>2. wish \in AreaWishes /\ validAreaCoreInput(wish, TRUE)
  <2>1. FormIsTrue(task[c]) /\ task[c].kind = "create_area"
    BY <1>1, ReadyHolds
  <2> QED BY <2>1 DEF FormIsTrue
<1>3. /\ wish.order \in Orders /\ wish.visibility \in Visibilities /\ wish.group \in Groups \cup {0}
  BY <1>2 DEF AreaWishes
<1>4. wish.group \in Nat /\ 1 \in 1..MaxRevision
  <2>1. Groups \subseteq Nat \ {0} /\ MaxRevision \in Nat \ {0}
    BY DEF ArrangeAssumption
  <2>2. \A g \in Groups \cup {0} : g \in Nat
    BY <2>1
  <2> HIDE DEF wish
  <2>3. wish.group \in Nat
    BY <1>3, <2>2
  <2>4. 1 \in 1..MaxRevision
    BY <2>1
  <2> QED BY <2>3, <2>4
<1>5. made \in AreaRows
  <2>1. {wish.group} \ {0} \in SUBSET Groups
    BY <1>3
  <2> QED BY <1>3, <1>4, <2>1 DEF AreaRows
<1>6. (made.visibility = "groups") <=> (made.groups # {})
  BY <1>2, <1>4 DEF validAreaCoreInput
<1>7. PICK a \in Areas \ AreasPresent :
        /\ area' = [area EXCEPT ![a] = IF wish.group > 0
                                       THEN AddAreaGroupForAdministration(CreateAreaForAdministration(wish), wish.group)
                                       ELSE CreateAreaForAdministration(wish)]
        /\ trail' = [trail EXCEPT ![a] = IF trail[a] = Absent THEN made ELSE Broken]
  <2>1. made = [order |-> wish.order, visibility |-> wish.visibility, revision |-> 1, groups |-> {wish.group} \ {0}]
    OBVIOUS
  <2> QED BY <2>1 DEF CreateAreaCompletion, Audited
<1>8. CreateAreaForAdministration(wish) =
        [order |-> wish.order, visibility |-> wish.visibility, groups |-> {}, revision |-> 1]
  BY DEF CreateAreaForAdministration
<1>9. CreateAreaForAdministration(wish) \in AreaRows
  BY <1>3, <1>4, <1>8 DEF AreaRows
<1>10. wish.group > 0 =>
         AddAreaGroupForAdministration(CreateAreaForAdministration(wish), wish.group) = made
  <2> SUFFICES ASSUME wish.group > 0
               PROVE  AddAreaGroupForAdministration(CreateAreaForAdministration(wish), wish.group) = made
    OBVIOUS
  <2>1. {wish.group} \ {0} = {} \cup {wish.group}
    BY <1>4
  <2>2. AddAreaGroupForAdministration(CreateAreaForAdministration(wish), wish.group) =
          [order |-> wish.order, visibility |-> wish.visibility, groups |-> {} \cup {wish.group}, revision |-> 1]
    BY <1>8 DEF AddAreaGroupForAdministration
  <2> QED BY <2>1, <2>2
<1>11. ~(wish.group > 0) => CreateAreaForAdministration(wish) = made
  <2> SUFFICES ASSUME ~(wish.group > 0) PROVE CreateAreaForAdministration(wish) = made
    OBVIOUS
  <2>1. {wish.group} \ {0} = {}
    BY <1>4
  <2> QED BY <2>1, <1>8
<1>12. trail[a] = Absent /\ area' = [area EXCEPT ![a] = made]
  BY <1>7, <1>10, <1>11 DEF RowsGood, TrailIsTheArea, AreasPresent
<1>13. trail' = [trail EXCEPT ![a] = made] /\ UNCHANGED <<account, group, members>>
  BY <1>7, <1>12 DEF CreateAreaCompletion
<1> HIDE DEF made
<1> QED BY <1>5, <1>6, <1>12, <1>13, AreaWritten

\* What the forms of an area find.
LEMMA AreaFound ==
    ASSUME ArrangeAssumption, RowsGood, TasksAreTrue, LocksArePlanned, ChecksHold, NEW c \in Slots,
           NEW kind \in {"update_area", "area_group"}, Ready(c, kind)
    PROVE  /\ task[c].id \in Areas /\ area[task[c].id] \in AreaRows
           /\ Row("area", task[c].id) \in Locked(c)
           /\ task[c].kind = kind /\ FormIsTrue(task[c])
           /\ task[c].page.row.revision = area[task[c].id].revision
           /\ area[task[c].id].revision # MaxRevision
           /\ AreaAccepted(task[c])
           /\ trail[task[c].id] = area[task[c].id]
           /\ (area[task[c].id].visibility = "groups") <=> (area[task[c].id].groups # {})
<1>1. RowsTyped
  BY DEF RowsGood
<1>2. task[c].kind = kind /\ FormIsTrue(task[c]) /\ OfArea(task[c])
  BY <1>1, ReadyHolds DEF OfArea
<1>3. AreaAccepted(task[c]) /\ Row("area", task[c].id) \in Locked(c)
  BY <1>1, <1>2, ReadyHolds
<1>4. task[c].id \in AreasPresent /\ task[c].id \in Areas
  BY <1>1, <1>2, FormFacts
<1>5. area[task[c].id] \in AreaRows
  BY <1>1, <1>4 DEF RowsTyped, AreasPresent
<1>6. task[c].page.row.revision = area[task[c].id].revision /\ area[task[c].id].revision # MaxRevision
  BY <1>3 DEF AreaAccepted, Stale
<1>7. trail[task[c].id] = area[task[c].id]
  BY DEF RowsGood, TrailIsTheArea
<1>8. (area[task[c].id].visibility = "groups") <=> (area[task[c].id].groups # {})
  BY <1>4 DEF RowsGood, AreasFit
<1> QED BY <1>2, <1>3, <1>4, <1>5, <1>6, <1>7, <1>8

LEMMA UpdateAreaWrites ==
    ASSUME ArrangeAssumption, RowsGood, TasksAreTrue, LocksArePlanned, ChecksHold, NEW c \in Slots,
           UpdateAreaCompletion(c)
    PROVE  Written(c)
<1> DEFINE t == task[c]
           a == t.id
           row == area[a]
           wish == t.wish
           next == [order |-> wish.order, visibility |-> wish.visibility, groups |-> ResultingGroups(row, wish),
                    revision |-> row.revision + 1]
           kept == IF wish.visibility # "groups" THEN DeleteAreaGroupsForAdministration(row) ELSE row
           updated == UpdateAdministrationAreaAndAudit(kept, wish)
           first == wish.visibility = "groups" /\ row.visibility # "groups"
           stored == IF first THEN AddAreaGroupForAdministration(updated, wish.group) ELSE updated
<1>1. Ready(c, "update_area")
  BY DEF UpdateAreaCompletion
<1>2. /\ a \in Areas /\ row \in AreaRows /\ Row("area", a) \in Locked(c) /\ trail[a] = row
      /\ t.page.row.revision = row.revision /\ row.revision # MaxRevision
      /\ (row.visibility = "groups") <=> (row.groups # {})
  BY <1>1, AreaFound
<1>3. wish \in AreaWishes /\ (wish.visibility = "groups" => ((row.visibility = "groups") <=> (wish.group = 0)))
  <2>1. FormIsTrue(t) /\ t.kind = "update_area" /\ AreaAccepted(t)
    BY <1>1, AreaFound
  <2>2. wish \in AreaWishes
    BY <2>1 DEF FormIsTrue
  <2>3. wish.visibility = "groups" => ((row.visibility = "groups") <=> (wish.group = 0))
    BY <2>1 DEF AreaAccepted
  <2> QED BY <2>2, <2>3
<1>4. /\ area' = [area EXCEPT ![a] = stored]
      /\ trail' = [trail EXCEPT ![a] =
           IF trail[a] = row
           THEN [order |-> wish.order, visibility |-> wish.visibility, revision |-> t.page.row.revision + 1,
                 groups |-> ResultingGroups(row, wish)]
           ELSE Broken]
      /\ UNCHANGED <<account, group, members>>
  BY DEF UpdateAreaCompletion, Audited
<1>5. trail' = [trail EXCEPT ![a] = next]
  <2>1. [order |-> wish.order, visibility |-> wish.visibility, revision |-> t.page.row.revision + 1,
         groups |-> ResultingGroups(row, wish)] = next
    BY <1>2
  <2> QED BY <1>2, <1>4, <2>1
<1>6. PICK r : r = row
  OBVIOUS
<1>7. PICK w : w = wish
  OBVIOUS
<1>8. r \in AreaRows /\ w \in AreaWishes /\ r.revision # MaxRevision
      /\ ((r.visibility = "groups") <=> (r.groups # {}))
      /\ (w.visibility = "groups" => ((r.visibility = "groups") <=> (w.group = 0)))
  BY <1>2, <1>3, <1>6, <1>7
<1>9. stored = (IF w.visibility = "groups" /\ r.visibility # "groups"
                THEN AddAreaGroupForAdministration(
                       UpdateAdministrationAreaAndAudit(
                         IF w.visibility # "groups" THEN DeleteAreaGroupsForAdministration(r) ELSE r, w), w.group)
                ELSE UpdateAdministrationAreaAndAudit(
                       IF w.visibility # "groups" THEN DeleteAreaGroupsForAdministration(r) ELSE r, w))
      /\ next = [order |-> w.order, visibility |-> w.visibility, groups |-> ResultingGroups(r, w),
                 revision |-> r.revision + 1]
  BY <1>6, <1>7
<1>10. /\ w.order \in Orders /\ w.visibility \in Visibilities /\ w.group \in Groups \cup {0}
       /\ r.revision \in 1..MaxRevision /\ r.groups \in SUBSET Groups
  BY <1>8, AreaRowFacts DEF AreaWishes, ArrangeAssumption
<1> HIDE DEF t, a, row, wish, kept, updated, first, stored, next
<1>11. r.revision + 1 \in 1..MaxRevision
  BY <1>8, <1>10 DEF ArrangeAssumption
<1>12. ResultingGroups(r, w) \in SUBSET Groups /\ ((w.visibility = "groups") <=> (ResultingGroups(r, w) # {}))
  BY <1>8, <1>10 DEF ResultingGroups
<1>13. next \in AreaRows /\ ((next.visibility = "groups") <=> (next.groups # {})) /\ next.revision = r.revision + 1
  BY <1>9, <1>10, <1>11, <1>12 DEF AreaRows
<1>14. stored = next
  <2>1. CASE w.visibility # "groups"
    <3>1. PICK k : k = DeleteAreaGroupsForAdministration(r)
      OBVIOUS
    <3>2. k = [order |-> r.order, visibility |-> r.visibility, groups |-> {}, revision |-> r.revision]
      BY <1>8, <3>1, AreaRowFacts DEF ArrangeAssumption
    <3>3. k \in AreaRows /\ k.groups = {} /\ k.revision = r.revision
      BY <1>8, <1>10, <3>2, AreaRowFacts DEF AreaRows, ArrangeAssumption
    <3>4. UpdateAdministrationAreaAndAudit(k, w) =
            [order |-> w.order, visibility |-> w.visibility, groups |-> {}, revision |-> r.revision + 1]
      BY <3>3, AreaRowFacts DEF ArrangeAssumption
    <3>5. ResultingGroups(r, w) = {}
      BY <2>1 DEF ResultingGroups
    <3> QED BY <1>9, <2>1, <3>1, <3>4, <3>5
  <2>2. CASE w.visibility = "groups" /\ r.visibility = "groups"
    <3>1. UpdateAdministrationAreaAndAudit(r, w) =
            [order |-> w.order, visibility |-> w.visibility, groups |-> r.groups, revision |-> r.revision + 1]
      BY <1>8, AreaRowFacts DEF ArrangeAssumption
    <3>2. ResultingGroups(r, w) = r.groups
      BY <2>2 DEF ResultingGroups
    <3> QED BY <1>9, <2>2, <3>1, <3>2
  <2>3. CASE w.visibility = "groups" /\ r.visibility # "groups"
    <3>1. PICK u : u = UpdateAdministrationAreaAndAudit(r, w)
      OBVIOUS
    <3>2. u = [order |-> w.order, visibility |-> w.visibility, groups |-> {}, revision |-> r.revision + 1]
      BY <1>8, <2>3, <3>1, AreaRowFacts DEF ArrangeAssumption
    <3>3. u \in AreaRows /\ u.order = w.order /\ u.visibility = w.visibility /\ u.groups = {}
          /\ u.revision = r.revision + 1
      BY <1>10, <1>11, <3>2 DEF AreaRows
    <3>4. AddAreaGroupForAdministration(u, w.group) =
            [order |-> w.order, visibility |-> w.visibility, groups |-> {} \cup {w.group}, revision |-> r.revision + 1]
      <4>1. AddAreaGroupForAdministration(u, w.group) =
              [order |-> u.order, visibility |-> u.visibility, groups |-> u.groups \cup {w.group},
               revision |-> u.revision]
        BY <3>3, AreaRowFacts DEF ArrangeAssumption
      <4> QED BY <3>3, <4>1
    <3>5. ResultingGroups(r, w) = {} \cup {w.group}
      BY <2>3 DEF ResultingGroups
    <3> QED BY <1>9, <2>3, <3>1, <3>4, <3>5
  <2> QED BY <2>1, <2>2, <2>3
<1> QED BY <1>2, <1>4, <1>5, <1>6, <1>13, <1>14, AreaWritten DEF row

LEMMA ChangeAreaGroupWrites ==
    ASSUME ArrangeAssumption, RowsGood, TasksAreTrue, LocksArePlanned, ChecksHold, NEW c \in Slots,
           ChangeAreaGroup(c)
    PROVE  Written(c)
<1> DEFINE t == task[c]
           a == t.id
           row == area[a]
           g == t.wish.group
           next == IF t.wish.grant THEN GrantAdministrationAreaGroupAndAudit(row, g)
                   ELSE RevokeAdministrationAreaGroupAndAudit(row, g)
<1>1. Ready(c, "area_group")
  BY DEF ChangeAreaGroup
<1>2. /\ a \in Areas /\ row \in AreaRows /\ Row("area", a) \in Locked(c) /\ trail[a] = row
      /\ row.revision # MaxRevision
  BY <1>1, AreaFound
<1>3. row.visibility = "groups" /\ g \in Groups
  <2>1. FormIsTrue(t) /\ t.kind = "area_group" /\ AreaAccepted(t) /\ RowsTyped
    BY <1>1, AreaFound DEF RowsGood
  <2> QED BY <2>1, FormFacts DEF AreaAccepted
<1>4. /\ next # row /\ area' = [area EXCEPT ![a] = next]
      /\ trail' = [trail EXCEPT ![a] = IF trail[a] = row THEN next ELSE Broken]
      /\ UNCHANGED <<account, group, members>>
  BY DEF ChangeAreaGroup, Audited
<1>5. trail' = [trail EXCEPT ![a] = next]
  BY <1>2, <1>4
<1>6. PICK r : r = row
  OBVIOUS
<1>7. r \in AreaRows /\ r.visibility = "groups" /\ r.revision \in 1..MaxRevision /\ r.revision # MaxRevision
      /\ r.groups \in SUBSET Groups /\ r.order \in Orders
  BY <1>2, <1>3, <1>6, AreaRowFacts DEF ArrangeAssumption
<1>8. \/ next = [order |-> r.order, visibility |-> r.visibility, groups |-> r.groups \cup {g},
                 revision |-> r.revision + 1]
      \/ /\ Cardinality(r.groups) > 1
         /\ next = [order |-> r.order, visibility |-> r.visibility, groups |-> r.groups \ {g},
                    revision |-> r.revision + 1]
  <2>1. next = GrantAdministrationAreaGroupAndAudit(r, g) \/ next = RevokeAdministrationAreaGroupAndAudit(r, g)
    BY <1>6
  <2> HIDE DEF next, g
  <2>2. GrantAdministrationAreaGroupAndAudit(r, g) =
          [order |-> r.order, visibility |-> r.visibility, groups |-> r.groups \cup {g}, revision |-> r.revision + 1]
    BY <1>7, AreaRowFacts DEF ArrangeAssumption
  <2>3. RevokeAdministrationAreaGroupAndAudit(r, g) =
          (IF Cardinality(r.groups) > 1
           THEN [order |-> r.order, visibility |-> r.visibility, groups |-> r.groups \ {g}, revision |-> r.revision + 1]
           ELSE r)
    BY <1>7, AreaRowFacts DEF ArrangeAssumption
  <2> QED BY <1>4, <1>6, <2>1, <2>2, <2>3
<1> HIDE DEF t, a, row, g, next
<1>9. r.revision + 1 \in 1..MaxRevision
  BY <1>7 DEF ArrangeAssumption
<1>10. Cardinality(r.groups) > 1 => r.groups \ {g} # {}
  <2> SUFFICES ASSUME r.groups \ {g} = {} PROVE ~(Cardinality(r.groups) > 1)
    OBVIOUS
  <2>1. r.groups = {} \/ r.groups = {g}
    OBVIOUS
  <2>2. Cardinality({}) = 0 /\ Cardinality({g}) = 1
    BY FS_EmptySet, FS_Singleton
  <2> QED BY <2>1, <2>2
<1>11. next \in AreaRows /\ ((next.visibility = "groups") <=> (next.groups # {})) /\ next.revision = r.revision + 1
  <2>1. r.groups \cup {g} \in SUBSET Groups /\ r.groups \ {g} \in SUBSET Groups /\ r.visibility \in Visibilities
    BY <1>3, <1>7 DEF Visibilities
  <2>2. PICK gs \in SUBSET Groups :
          /\ gs # {}
          /\ next = [order |-> r.order, visibility |-> r.visibility, groups |-> gs, revision |-> r.revision + 1]
    BY <1>8, <1>10, <2>1
  <2> QED BY <1>7, <1>9, <2>1, <2>2 DEF AreaRows
<1> QED BY <1>2, <1>4, <1>5, <1>6, <1>11, AreaWritten DEF row

LEMMA CreateGroupWrites ==
    ASSUME ArrangeAssumption, RowsGood, NEW c \in Slots, CreateGroup(c), task[c].wish \in Names
    PROVE  Written(c)
<1>1. PICK g \in Groups \ GroupsPresent : group' = [group EXCEPT ![g] = [name |-> task[c].wish, revision |-> 1]]
  BY DEF CreateGroup, CreateAdministrationGroupAndAudit
<1>2. UNCHANGED <<account, area, members, trail>>
  BY DEF CreateGroup
<1>3. [name |-> task[c].wish, revision |-> 1] \in GroupRows
  BY DEF GroupRows, ArrangeAssumption
<1>4. RowsTyped'
  BY <1>1, <1>2, <1>3 DEF RowsGood, RowsTyped
<1>5. RowsGood'
  BY <1>2, <1>4 DEF RowsGood, AreasFit, SomebodyAdministers, TrailIsTheArea, AreasPresent
<1>6. \A h \in GroupsPresent : h # g /\ h \in Groups /\ group'[h] = group[h] /\ group'[h] # Absent
  BY <1>1 DEF GroupsPresent, RowsGood, RowsTyped
<1>7. \A a \in Areas : area'[a] = area[a] /\ (a \in AreasPresent => area[a].revision \in Nat)
  BY <1>2, AreaRowFacts DEF RowsGood, RowsTyped, AreasPresent, ArrangeAssumption
<1>8. \A u \in Users : account'[u] = account[u] /\ account[u].revision \in Nat
  BY <1>2 DEF RowsGood, RowsTyped
<1>9. RowsAdvance
  BY <1>2, <1>6, <1>7, <1>8 DEF RowsAdvance, AreasPresent
<1>10. RowsTouched(c)
  BY <1>6, <1>7, <1>8 DEF RowsTouched, AreasPresent
<1> QED BY <1>5, <1>9, <1>10 DEF Written

LEMMA RenameGroupWrites ==
    ASSUME ArrangeAssumption, RowsGood, TasksAreTrue, LocksArePlanned, ChecksHold, NEW c \in Slots, RenameGroup(c)
    PROVE  Written(c)
<1> DEFINE g == task[c].id
           name == task[c].wish
<1>1. Ready(c, "rename_group") /\ RowsTyped
  BY DEF RenameGroup, RowsGood
<1>2. /\ task[c].kind = "rename_group" /\ FormIsTrue(task[c])
      /\ group[g].revision # MaxRevision /\ Row("group", g) \in Locked(c)
  BY <1>1, ReadyHolds
<1>3. g \in GroupsPresent /\ g \in Groups /\ name \in Names
  BY <1>2 DEF FormIsTrue, GroupsPresent
<1>4. group[g] \in GroupRows
  BY <1>1, <1>3 DEF RowsTyped, GroupsPresent
<1>5. /\ group' = [group EXCEPT ![g] = RenameAdministrationGroupAndAudit(group[g], name)]
      /\ UNCHANGED <<account, area, members, trail>>
  BY DEF RenameGroup
<1>6. PICK r : r = group[g]
  OBVIOUS
<1>7. PICK q : q = RenameAdministrationGroupAndAudit(r, name)
  OBVIOUS
<1>8. q \in GroupRows /\ q # Absent
  <2>1. r = [name |-> r.name, revision |-> r.revision] /\ r.revision \in 1..MaxRevision /\ r.name \in Names
    BY <1>4, <1>6 DEF GroupRows
  <2>2. r.revision + 1 \in 1..MaxRevision
    BY <1>2, <1>6, <2>1 DEF ArrangeAssumption
  <2>3. PICK p : p = [r EXCEPT !.name = name]
    OBVIOUS
  <2>4. p = [name |-> name, revision |-> r.revision]
    BY <2>1, <2>3
  <2>5. [p EXCEPT !.revision = r.revision + 1] = [name |-> name, revision |-> r.revision + 1]
    BY <2>4
  <2>6. q = [[r EXCEPT !.name = name] EXCEPT !.revision = r.revision + 1]
    BY <1>7, <2>1 DEF RenameAdministrationGroupAndAudit
  <2>7. q = [name |-> name, revision |-> r.revision + 1]
    BY <2>3, <2>5, <2>6, Zenon
  <2>8. q \in GroupRows /\ q.revision # 0
    BY <1>3, <2>2, <2>7 DEF GroupRows
  <2> QED BY <2>8 DEF Absent
<1>9. group' = [group EXCEPT ![g] = q]
  BY <1>5, <1>6, <1>7
<1> HIDE DEF g, name
<1>10. RowsTyped'
  BY <1>1, <1>5, <1>8, <1>9 DEF RowsTyped
<1>11. RowsGood'
  BY <1>5, <1>10 DEF RowsGood, AreasFit, SomebodyAdministers, TrailIsTheArea, AreasPresent
<1>12. \A h \in GroupsPresent : /\ group'[h] # Absent
                                /\ group'[h] = group[h] \/ Row("group", h) \in Locked(c)
  BY <1>1, <1>2, <1>8, <1>9 DEF GroupsPresent, RowsTyped
<1>13. \A a \in Areas : area'[a] = area[a] /\ (a \in AreasPresent => area[a].revision \in Nat)
  BY <1>5, AreaRowFacts DEF RowsGood, RowsTyped, AreasPresent, ArrangeAssumption
<1>14. \A u \in Users : account'[u] = account[u] /\ account[u].revision \in Nat
  BY <1>5 DEF RowsGood, RowsTyped
<1>15. RowsAdvance
  BY <1>5, <1>12, <1>13, <1>14 DEF RowsAdvance, AreasPresent
<1>16. RowsTouched(c)
  BY <1>12, <1>13, <1>14 DEF RowsTouched, AreasPresent
<1> QED BY <1>11, <1>15, <1>16 DEF Written

\* Account rows with one field changed.
LEMMA AccountRowFacts ==
    ASSUME NEW r \in [role : Roles, bar : Bars, revision : 1..MaxRevision], MaxRevision \in Nat \ {0}
    PROVE  /\ r.role \in Roles /\ r.bar \in Bars /\ r.revision \in 1..MaxRevision
           /\ \A n : [r EXCEPT !.revision = n] = [role |-> r.role, bar |-> r.bar, revision |-> n]
           /\ \A b : [r EXCEPT !.bar = b] = [role |-> r.role, bar |-> b, revision |-> r.revision]
           /\ \A n, b : [r EXCEPT !.bar = b, !.revision = n] = [role |-> r.role, bar |-> b, revision |-> n]
           /\ \A n, q : [r EXCEPT !.role = q, !.revision = n] = [role |-> q, bar |-> r.bar, revision |-> n]
<1>1. r = [role |-> r.role, bar |-> r.bar, revision |-> r.revision]
  OBVIOUS
<1>2. /\ r.role \in Roles /\ r.bar \in Bars /\ r.revision \in 1..MaxRevision
  OBVIOUS
<1>3. \A n : [r EXCEPT !.revision = n] = [role |-> r.role, bar |-> r.bar, revision |-> n]
  BY <1>1
<1>4. \A b : [r EXCEPT !.bar = b] = [role |-> r.role, bar |-> b, revision |-> r.revision]
  BY <1>1
<1>5. \A n, b : [r EXCEPT !.bar = b, !.revision = n] = [role |-> r.role, bar |-> b, revision |-> n]
  <2> SUFFICES ASSUME NEW n, NEW b
               PROVE  [r EXCEPT !.bar = b, !.revision = n] = [role |-> r.role, bar |-> b, revision |-> n]
    OBVIOUS
  <2>1. PICK p : p = [r EXCEPT !.bar = b]
    OBVIOUS
  <2>2. p = [role |-> r.role, bar |-> b, revision |-> r.revision]
    BY <1>1, <2>1
  <2>3. [p EXCEPT !.revision = n] = [role |-> r.role, bar |-> b, revision |-> n]
    BY <2>2
  <2>4. [r EXCEPT !.bar = b, !.revision = n] = [[r EXCEPT !.bar = b] EXCEPT !.revision = n]
    BY <1>1
  <2> QED BY <2>1, <2>3, <2>4, Zenon
<1>6. \A n, q : [r EXCEPT !.role = q, !.revision = n] = [role |-> q, bar |-> r.bar, revision |-> n]
  <2> SUFFICES ASSUME NEW n, NEW q
               PROVE  [r EXCEPT !.role = q, !.revision = n] = [role |-> q, bar |-> r.bar, revision |-> n]
    OBVIOUS
  <2>1. PICK p : p = [r EXCEPT !.role = q]
    OBVIOUS
  <2>2. p = [role |-> q, bar |-> r.bar, revision |-> r.revision]
    BY <1>1, <2>1
  <2>3. [p EXCEPT !.revision = n] = [role |-> q, bar |-> r.bar, revision |-> n]
    BY <2>2
  <2>4. [r EXCEPT !.role = q, !.revision = n] = [[r EXCEPT !.role = q] EXCEPT !.revision = n]
    BY <1>1
  <2> QED BY <2>1, <2>3, <2>4, Zenon
<1> QED BY <1>2, <1>3, <1>4, <1>5, <1>6, Zenon

LEMMA MembershipWrites ==
    ASSUME ArrangeAssumption, RowsGood, TasksAreTrue, LocksArePlanned, ChecksHold, NEW c \in Slots,
           ChangeGroupMembership(c)
    PROVE  Written(c)
<1> DEFINE u == task[c].id
           g == task[c].wish.group
           next == [role |-> account[u].role, bar |-> account[u].bar, revision |-> account[u].revision + 1]
<1>1. Ready(c, "membership") /\ RowsTyped
  BY DEF ChangeGroupMembership, RowsGood
<1>2. /\ task[c].kind = "membership" /\ FormIsTrue(task[c]) /\ UsersAccepted(task[c])
      /\ Row("user", u) \in Locked(c)
  BY <1>1, ReadyHolds
<1>3. u \in Users /\ g \in Groups
  BY <1>1, <1>2, FormFacts
<1>4. account[u].revision # MaxRevision
  BY <1>2 DEF UsersAccepted, Stale
<1>5. account[u] \in [role : Roles, bar : Bars, revision : 1..MaxRevision]
  BY <1>1, <1>3 DEF RowsTyped
<1>6. /\ account' = [account EXCEPT ![u].revision = @ + 1]
      /\ UNCHANGED <<area, group, trail>>
      /\ members' = members \cup {<<u, g>>} \/ members' = members \ {<<u, g>>}
  BY DEF ChangeGroupMembership, GrantAdministrationMembershipAndAudit, RevokeAdministrationMembershipAndAudit
<1>7. account' = [account EXCEPT ![u] = next]
  <2>1. account' = [account EXCEPT ![u] = [account[u] EXCEPT !.revision = account[u].revision + 1]]
    BY <1>6
  <2>2. [account[u] EXCEPT !.revision = account[u].revision + 1] = next
    BY <1>5, AccountRowFacts DEF ArrangeAssumption
  <2> HIDE DEF next
  <2> QED BY <2>1, <2>2
<1>8. account[u].revision \in 1..MaxRevision /\ account[u].role \in Roles /\ account[u].bar \in Bars
  BY <1>5, AccountRowFacts DEF ArrangeAssumption
<1>9. account[u].revision + 1 \in 1..MaxRevision
  BY <1>4, <1>8 DEF ArrangeAssumption
<1>10. next \in [role : Roles, bar : Bars, revision : 1..MaxRevision] /\ next.role = account[u].role
       /\ next.revision = account[u].revision + 1
  BY <1>8, <1>9
<1> HIDE DEF u, g, next
<1>11. account'[u] = next /\ \A v \in Users \ {u} : account'[v] = account[v]
  BY <1>1, <1>3, <1>7 DEF RowsTyped
<1>12. members' \subseteq Users \X Groups
  BY <1>1, <1>3, <1>6 DEF RowsTyped
<1>13. RowsTyped'
  BY <1>1, <1>6, <1>7, <1>10, <1>12 DEF RowsTyped
<1>14. SomebodyAdministers'
  <2>1. \A v \in Users : account'[v].role = account[v].role
    BY <1>10, <1>11
  <2> QED BY <2>1 DEF RowsGood, SomebodyAdministers
<1>15. RowsGood'
  BY <1>6, <1>13, <1>14 DEF RowsGood, AreasFit, TrailIsTheArea, AreasPresent
<1>16. \A v \in Users : account[v].revision \in Nat
  BY <1>1 DEF RowsTyped
<1>17. \A v \in Users :
         /\ account'[v].revision >= account[v].revision
         /\ account'[v].revision = account[v].revision =>
              account'[v].role = account[v].role /\ \A h \in Groups : <<v, h>> \in members' <=> <<v, h>> \in members
  <2> SUFFICES ASSUME NEW v \in Users
               PROVE  /\ account'[v].revision >= account[v].revision
                      /\ account'[v].revision = account[v].revision =>
                           /\ account'[v].role = account[v].role
                           /\ \A h \in Groups : <<v, h>> \in members' <=> <<v, h>> \in members
    OBVIOUS
  <2>1. CASE v = u
    BY <1>8, <1>10, <1>11, <2>1
  <2>2. CASE v # u
    <3>1. account'[v] = account[v]
      BY <1>11, <2>2
    <3>2. \A h \in Groups : <<v, h>> \in members' <=> <<v, h>> \in members
      BY <1>6, <2>2
    <3> QED BY <1>16, <3>1, <3>2
  <2> QED BY <2>1, <2>2
<1>18. \A a \in Areas : area'[a] = area[a] /\ (a \in AreasPresent => area[a].revision \in Nat)
  BY <1>6, AreaRowFacts DEF RowsGood, RowsTyped, AreasPresent, ArrangeAssumption
<1>19. \A h \in Groups : group'[h] = group[h]
  BY <1>6
<1>20. RowsAdvance
  BY <1>17, <1>18, <1>19 DEF RowsAdvance, AreasPresent, GroupsPresent
<1>21. RowsTouched(c)
  BY <1>2, <1>11, <1>18, <1>19 DEF RowsTouched, AreasPresent, GroupsPresent, u
<1> QED BY <1>15, <1>20, <1>21 DEF Written

\* Every statement that writes.
LEMMA WriteStep ==
    ASSUME ArrangeAssumption, RowsGood, TasksAreTrue, LocksArePlanned, ChecksHold, NEW c \in Slots, Write(c)
    PROVE  Written(c) /\ task' = [task EXCEPT ![c] = Free] /\ Locking(c)
<1>1. task' = [task EXCEPT ![c] = Free] /\ Locking(c)
  BY DEF Write, CreateAreaCompletion, UpdateAreaCompletion, ChangeAreaGroup, CreateGroup, RenameGroup,
         ChangeGroupMembership, End, Ready
<1>2. CASE CreateGroup(c)
  <2>1. Ready(c, "create_group") /\ RowsTyped
    BY <1>2 DEF CreateGroup, RowsGood
  <2>2. task[c].kind = "create_group" /\ FormIsTrue(task[c])
    BY <2>1, ReadyHolds
  <2>3. task[c].wish \in Names
    BY <2>2 DEF FormIsTrue
  <2> QED BY <1>1, <1>2, <2>3, CreateGroupWrites
<1> QED BY <1>1, <1>2, CreateAreaWrites, UpdateAreaWrites, ChangeAreaGroupWrites, RenameGroupWrites,
           MembershipWrites DEF Write

\* What the slot d holds stays.
RowsKept(d) ==
    /\ \A a \in AreasPresent : Row("area", a) \in Locked(d) => area'[a] = area[a]
    /\ \A u \in Users : Row("user", u) \in Locked(d) => account'[u] = account[u]
    /\ \A g \in GroupsPresent : Row("group", g) \in Locked(d) => group'[g] = group[g]

LEMMA OthersKeep ==
    ASSUME LocksExclude, NEW c \in Slots, NEW d \in Slots, c # d, RowsTouched(c)
    PROVE  RowsKept(d)
<1>1. \A r : ~(r \in Locked(c) /\ r \in Locked(d))
  BY DEF LocksExclude
<1> QED BY <1>1 DEF RowsTouched, RowsKept

LEMMA StandingStep ==
    ASSUME ArrangeAssumption, RowsGood, NEW u \in Users, ChangeStanding(u)
    PROVE  RowsGood' /\ RowsAdvance /\ \A d \in Slots : RowsKept(d)
<1>1. RowsTyped /\ UNCHANGED <<area, group, members, trail, task>>
  BY DEF RowsGood, ChangeStanding
<1> DEFINE r == account[u]
<1>2. PICK row : account' = [account EXCEPT ![u] = row] /\
                 row \in {[r EXCEPT !.bar = IF r.bar = "none" THEN "muted" ELSE "none"],
                          [r EXCEPT !.bar = "suspended", !.revision = r.revision + 1],
                          [r EXCEPT !.role = "member", !.revision = r.revision + 1]}
  BY DEF ChangeStanding
<1>3. r \in [role : Roles, bar : Bars, revision : 1..MaxRevision]
  BY <1>1 DEF RowsTyped
<1>4. r.role \in Roles /\ r.bar \in Bars /\ r.revision \in 1..MaxRevision
  BY <1>3, AccountRowFacts DEF ArrangeAssumption
<1>5. r.revision < MaxRevision
  BY DEF ChangeStanding
<1>6. r.revision + 1 \in 1..MaxRevision
  BY <1>4, <1>5 DEF ArrangeAssumption
<1>7. \/ row = [role |-> r.role, bar |-> IF r.bar = "none" THEN "muted" ELSE "none", revision |-> r.revision]
      \/ row = [role |-> r.role, bar |-> "suspended", revision |-> r.revision + 1]
      \/ row = [role |-> "member", bar |-> r.bar, revision |-> r.revision + 1]
  <2> HIDE DEF r
  <2> QED BY <1>2, <1>3, AccountRowFacts DEF ArrangeAssumption
<1>8. /\ row \in [role : Roles, bar : Bars, revision : 1..MaxRevision]
      /\ row.revision >= r.revision /\ (row.revision = r.revision => row.role = r.role)
  <2> HIDE DEF r
  <2>1. CASE row = [role |-> r.role, bar |-> IF r.bar = "none" THEN "muted" ELSE "none", revision |-> r.revision]
    BY <1>4, <2>1 DEF Bars
  <2>2. CASE row = [role |-> r.role, bar |-> "suspended", revision |-> r.revision + 1]
    BY <1>4, <1>6, <2>2 DEF Bars
  <2>3. CASE row = [role |-> "member", bar |-> r.bar, revision |-> r.revision + 1]
    BY <1>4, <1>6, <2>3 DEF Roles
  <2> QED BY <1>7, <2>1, <2>2, <2>3
<1> HIDE DEF r
<1>9. account'[u] = row /\ \A v \in Users \ {u} : account'[v] = account[v]
  BY <1>1, <1>2 DEF RowsTyped
<1>10. RowsTyped'
  BY <1>1, <1>2, <1>8 DEF RowsTyped
<1>11. SomebodyAdministers'
  <2>1. PICK v \in Users \ {u} : account[v].role = "administrator"
    BY DEF ChangeStanding
  <2> QED BY <1>9, <2>1 DEF SomebodyAdministers
<1>12. RowsGood'
  BY <1>1, <1>10, <1>11 DEF RowsGood, AreasFit, TrailIsTheArea, AreasPresent
<1>13. \A v \in Users : account[v].revision \in Nat
  BY <1>1 DEF RowsTyped
<1>14. \A a \in Areas : area'[a] = area[a] /\ (a \in AreasPresent => area[a].revision \in Nat)
  <2>1. \A x \in AreaRows : x.revision \in Nat
    BY AreaRowFacts DEF ArrangeAssumption
  <2> QED BY <1>1, <2>1 DEF RowsTyped, AreasPresent
<1>15. /\ \A h \in Groups : group'[h] = group[h]
       /\ \A v, h : <<v, h>> \in members' <=> <<v, h>> \in members
  BY <1>1
<1>16. \A v \in Users :
         /\ account'[v].revision >= account[v].revision
         /\ account'[v].revision = account[v].revision => account'[v].role = account[v].role
  BY <1>8, <1>9, <1>13 DEF r
<1>17. RowsAdvance
  BY <1>14, <1>15, <1>16 DEF RowsAdvance, AreasPresent, GroupsPresent
<1>18. \A d \in Slots : Row("user", u) \notin Locked(d)
  BY DEF ChangeStanding
<1>19. \A d \in Slots : RowsKept(d)
  BY <1>9, <1>14, <1>15, <1>18 DEF RowsKept, AreasPresent, GroupsPresent
<1> QED BY <1>12, <1>17, <1>19

-----------------------------------------------------------------------------
(* Walks: the order of keys, the first rows of a statement, what a page adds  *)
(* to a walk, and that a walk knows what it has listed.                       *)

LEMMA LeastNumber ==
    ASSUME NEW S \in SUBSET Nat, S # {}
    PROVE  \E n \in S : \A m \in S : n <= m
<1>1. PICK p \in S : TRUE
  OBVIOUS
<1> DEFINE D == {d \in 0..p : p - d \in S}
<1>2. D \in SUBSET Nat /\ D # {} /\ IsFiniteSet(D)
  <2>1. p \in Nat /\ p - 0 = p
    OBVIOUS
  <2>2. 0 \in D
    BY <2>1
  <2>3. IsFiniteSet(0..p) /\ D \subseteq 0..p
    BY <2>1, FS_Interval
  <2> QED BY <2>2, <2>3, FS_Subset
<1>3. PICK d \in D : \A e \in D : e <= d
  <2> HIDE DEF D
  <2> QED BY <1>2, NoEndlessAscent
<1>4. p - d \in S /\ d \in 0..p
  OBVIOUS
<1>5. ASSUME NEW m \in S PROVE p - d <= m
  <2>1. m \in Nat /\ p \in Nat
    OBVIOUS
  <2>2. CASE m > p
    BY <1>4, <2>1, <2>2
  <2>3. CASE m <= p
    <3>1. p - m \in 0..p /\ p - (p - m) = m
      BY <2>1, <2>3
    <3>2. p - m \in D
      BY <3>1
    <3>3. p - m <= d
      BY <1>3, <3>2
    <3> QED BY <1>4, <2>1, <3>3
  <2> QED BY <2>1, <2>2, <2>3
<1> QED BY <1>4, <1>5

\* The order of keys, and the least of a set of them.
LEMMA KeysInOrder ==
    ASSUME NEW k \in Nat \X Nat, NEW l \in Nat \X Nat
    PROVE  /\ ~KeyLess(k, k)
           /\ KeyLess(k, l) => ~KeyLess(l, k)
           /\ k = l \/ KeyLess(k, l) \/ KeyLess(l, k)
           /\ \A m \in Nat \X Nat : KeyLess(k, l) /\ KeyLess(l, m) => KeyLess(k, m)
<1>1. PICK k1 \in Nat, k2 \in Nat : k = <<k1, k2>>
  OBVIOUS
<1>2. PICK l1 \in Nat, l2 \in Nat : l = <<l1, l2>>
  OBVIOUS
<1>3. KeyLess(k, l) <=> (k1 < l1 \/ (k1 = l1 /\ k2 < l2))
  BY <1>1, <1>2 DEF KeyLess
<1>4. KeyLess(l, k) <=> (l1 < k1 \/ (l1 = k1 /\ l2 < k2))
  BY <1>1, <1>2 DEF KeyLess
<1>5. ~KeyLess(k, k)
  BY <1>1 DEF KeyLess
<1>6. k = l <=> (k1 = l1 /\ k2 = l2)
  BY <1>1, <1>2
<1>7. ASSUME NEW m \in Nat \X Nat, KeyLess(k, l), KeyLess(l, m) PROVE KeyLess(k, m)
  <2>1. PICK m1 \in Nat, m2 \in Nat : m = <<m1, m2>>
    OBVIOUS
  <2>2. l1 < m1 \/ (l1 = m1 /\ l2 < m2)
    BY <1>2, <1>7, <2>1 DEF KeyLess
  <2>3. k1 < m1 \/ (k1 = m1 /\ k2 < m2)
    BY <1>3, <1>7, <2>2
  <2> QED BY <1>1, <2>1, <2>3 DEF KeyLess
<1>8. k = l \/ KeyLess(k, l) \/ KeyLess(l, k)
  BY <1>3, <1>4, <1>6
<1>9. KeyLess(k, l) => ~KeyLess(l, k)
  BY <1>3, <1>4
<1> QED BY <1>5, <1>7, <1>8, <1>9

LEMMA LeastKey ==
    ASSUME NEW S \in SUBSET (Nat \X Nat), S # {}
    PROVE  \E k \in S : \A l \in S : l = k \/ KeyLess(k, l)
<1> DEFINE A == {k[1] : k \in S}
<1>1. A \in SUBSET Nat /\ A # {}
  OBVIOUS
<1>2. PICK a \in A : \A b \in A : a <= b
  <2> HIDE DEF A
  <2> QED BY <1>1, LeastNumber
<1> DEFINE B == {k[2] : k \in {l \in S : l[1] = a}}
<1>3. B \in SUBSET Nat /\ B # {}
  BY <1>2
<1>4. PICK b \in B : \A c \in B : b <= c
  <2> HIDE DEF B
  <2> QED BY <1>3, LeastNumber
<1>5. PICK k \in S : k[1] = a /\ k[2] = b
  OBVIOUS
<1>6. ASSUME NEW l \in S, l # k PROVE KeyLess(k, l)
  <2>1. PICK l1 \in Nat, l2 \in Nat : l = <<l1, l2>>
    OBVIOUS
  <2>2. PICK k1 \in Nat, k2 \in Nat : k = <<k1, k2>>
    OBVIOUS
  <2>3. k1 = a /\ k2 = b
    BY <1>5, <2>2
  <2>4. l1 \in A
    BY <2>1
  <2>5. l1 = a => l2 \in B
    BY <2>1
  <2>6. a <= l1 /\ (l1 = a => b <= l2)
    BY <1>2, <1>4, <2>4, <2>5
  <2>7. l1 # k1 \/ l2 # k2
    BY <1>6, <2>1, <2>2
  <2>8. k1 < l1 \/ (k1 = l1 /\ k2 < l2)
    BY <2>3, <2>6, <2>7
  <2> QED BY <2>1, <2>2, <2>8 DEF KeyLess
<1> QED BY <1>6

LEMMA BoundedSeqs ==
    ASSUME NEW S, NEW n \in Nat, NEW s
    PROVE  s \in BoundedSeq(S, n) <=> s \in Seq(S) /\ Len(s) <= n
<1>1. ASSUME s \in BoundedSeq(S, n) PROVE s \in Seq(S) /\ Len(s) <= n
  <2>1. PICK m \in 0..n : s \in [1..m -> S]
    BY <1>1 DEF BoundedSeq, SeqOf
  <2> QED BY <2>1
<1>2. ASSUME s \in Seq(S), Len(s) <= n PROVE s \in BoundedSeq(S, n)
  <2>1. Len(s) \in 0..n /\ s \in [1..Len(s) -> S]
    BY <1>2
  <2> QED BY <2>1 DEF BoundedSeq, SeqOf
<1> QED BY <1>1, <1>2

LEMMA OneMoreRow ==
    ASSUME NEW rest \in SUBSET (Nat \X Nat), NEW n \in Nat, NEW rows \in Seq(rest), Len(rows) <= n,
           AreFirst(rows, rest, n)
    PROVE  \E more \in Seq(rest) : Len(more) <= n + 1 /\ AreFirst(more, rest, n + 1)
<1>1. /\ \A i, j \in 1..Len(rows) : i < j => KeyLess(rows[i], rows[j])
      /\ \A k \in rest : k \in Range(rows) \/ (Len(rows) = n /\ \A i \in 1..Len(rows) : KeyLess(rows[i], k))
  BY DEF AreFirst
<1>2. CASE \A k \in rest : k \in Range(rows)
  <2>1. AreFirst(rows, rest, n + 1)
    BY <1>1, <1>2 DEF AreFirst
  <2> QED BY <2>1
<1>3. CASE ~(\A k \in rest : k \in Range(rows))
  <2> DEFINE left == {k \in rest : k \notin Range(rows)}
  <2>1. left \in SUBSET (Nat \X Nat) /\ left # {}
    BY <1>3
  <2>2. PICK k \in left : \A l \in left : l = k \/ KeyLess(k, l)
    <3> HIDE DEF left
    <3> QED BY <2>1, LeastKey
  <2>3. Len(rows) = n /\ (\A i \in 1..n : KeyLess(rows[i], k)) /\ k \in rest
    BY <1>1
  <2>4. PICK more \in Seq(rest) : more = Append(rows, k)
    <3>1. Append(rows, k) \in Seq(rest)
      BY <2>3, AppendProperties
    <3> QED BY <3>1
  <2>5. /\ Len(more) = n + 1 /\ more[n + 1] = k
        /\ \A i \in 1..n : more[i] = rows[i]
    BY <2>3, <2>4
  <2>6. ASSUME NEW i \in 1..(n + 1), NEW j \in 1..(n + 1), i < j PROVE KeyLess(more[i], more[j])
    <3>1. i \in 1..n
      BY <2>6
    <3>2. CASE j = n + 1
      BY <2>3, <2>5, <3>1, <3>2
    <3>3. CASE j \in 1..n
      BY <1>1, <2>3, <2>5, <2>6, <3>1, <3>3
    <3> QED BY <3>2, <3>3
  <2>7. \A i \in 1..n : rows[i] \in Range(more)
    <3>1. DOMAIN more = 1..(n + 1)
      BY <2>5
    <3>2. \A i \in 1..n : i \in DOMAIN more
      BY <3>1
    <3> QED BY <2>5, <3>2 DEF Range
  <2>8. k \in Range(more)
    <3>1. n + 1 \in DOMAIN more
      BY <2>5
    <3> QED BY <2>5, <3>1 DEF Range
  <2>9. ASSUME NEW l \in rest, l \notin Range(more) PROVE \A i \in 1..(n + 1) : KeyLess(more[i], l)
    <3>1. l \notin Range(rows)
      <4>1. DOMAIN rows = 1..n
        BY <2>3
      <4> QED BY <2>7, <2>9, <4>1 DEF Range
    <3>2. l # k /\ l \in left
      BY <2>8, <2>9, <3>1
    <3>3. KeyLess(k, l)
      BY <2>2, <3>2
    <3>4. \A i \in 1..n : KeyLess(rows[i], l)
      BY <1>1, <2>3, <3>1
    <3>5. \A i \in 1..(n + 1) : i \in 1..n \/ i = n + 1
      OBVIOUS
    <3> QED BY <2>5, <3>3, <3>4, <3>5
  <2>10. AreFirst(more, rest, n + 1)
    BY <2>5, <2>6, <2>9 DEF AreFirst
  <2> QED BY <2>5, <2>10
<1> QED BY <1>2, <1>3

\* There always are first rows, and FirstRows is them.
LEMMA FirstRowsFit ==
    ASSUME NEW rest \in SUBSET (Nat \X Nat), NEW n \in Nat
    PROVE  /\ FirstRows(rest, n) \in Seq(rest) /\ Len(FirstRows(rest, n)) <= n
           /\ AreFirst(FirstRows(rest, n), rest, n)
<1> DEFINE Fit(m) == \E rows \in Seq(rest) : Len(rows) <= m /\ AreFirst(rows, rest, m)
           Unfit == {m \in Nat : ~Fit(m)}
<1>1. Fit(0)
  <2>1. PICK none \in Seq(rest) : none = <<>>
    BY EmptySeq
  <2>2. Len(none) = 0 /\ Len(none) <= 0
    BY <2>1
  <2>3. AreFirst(none, rest, 0)
    BY <2>2 DEF AreFirst
  <2> QED BY <2>2, <2>3, Zenon
<1>2. \A m \in Nat : Fit(m) => Fit(m + 1)
  BY OneMoreRow
<1> HIDE DEF Fit
<1>3. ASSUME Unfit # {} PROVE FALSE
  <2>1. PICK m \in Unfit : \A l \in Unfit : m <= l
    <3>1. Unfit \in SUBSET Nat
      OBVIOUS
    <3> HIDE DEF Unfit
    <3> QED BY <1>3, <3>1, LeastNumber
  <2>2. m \in Nat /\ ~Fit(m) /\ m # 0
    BY <1>1
  <2>3. m - 1 \in Nat /\ (m - 1) + 1 = m /\ ~(m <= m - 1)
    BY <2>2
  <2>4. Fit(m - 1)
    BY <2>1, <2>3
  <2> QED BY <1>2, <2>2, <2>3, <2>4
<1>4. Fit(n)
  BY <1>3
<1>5. \E rows \in BoundedSeq(rest, n) : AreFirst(rows, rest, n)
  BY <1>4, BoundedSeqs DEF Fit
<1>6. FirstRows(rest, n) \in BoundedSeq(rest, n) /\ AreFirst(FirstRows(rest, n), rest, n)
  BY <1>5 DEF FirstRows
<1> QED BY <1>6, BoundedSeqs

LEMMA KeysOfRows ==
    ASSUME ArrangeAssumption, RowsTyped, NEW list \in ListKinds
    PROVE  /\ Keys(list) = {KeyOf(list, id) : id \in IdsOf(list)}
           /\ \A id \in IdsOf(list) :
                id \in Nat \ {0} /\ KeyOf(list, id) \in Nat \X Nat /\ KeyOf(list, id)[2] = id
<1>1. CASE list = "areas"
  <2>1. \A r \in AreaRows : r.order \in Nat
    BY AreaRowFacts DEF ArrangeAssumption
  <2>2. \A a \in AreasPresent : a \in Nat \ {0} /\ area[a].order \in Nat
    BY <2>1 DEF ArrangeAssumption, RowsTyped, AreasPresent
  <2> QED BY <1>1, <2>2 DEF Keys, ListAreasForAdministrationPage, KeyOf, IdsOf
<1>2. CASE list = "groups"
  <2>1. GroupsPresent \subseteq Nat \ {0}
    BY DEF ArrangeAssumption, GroupsPresent
  <2> QED BY <1>2, <2>1 DEF Keys, ListGroupsForAdministration, KeyOf, IdsOf
<1>3. CASE list = "accounts"
  <2>1. Users \subseteq Nat \ {0}
    BY DEF ArrangeAssumption
  <2> QED BY <1>3, <2>1 DEF Keys, ListAccountsForAdministration, KeyOf, IdsOf
<1> QED BY <1>1, <1>2, <1>3 DEF ListKinds

\* What a statement returns that reads the next page.
IsPage(rows, list, after) ==
    /\ rows \in Seq(Nat \X Nat) /\ Len(rows) <= PageSize + 1
    /\ \A i \in 1..Len(rows) :
         rows[i][2] \in IdsOf(list) /\ rows[i] = KeyOf(list, rows[i][2]) /\ KeyLess(after, rows[i])
    /\ \A i, j \in 1..Len(rows) : i < j => KeyLess(rows[i], rows[j])
    /\ \A id \in IdsOf(list) :
         KeyLess(after, KeyOf(list, id)) =>
           \/ \E i \in 1..Len(rows) : rows[i] = KeyOf(list, id)
           \/ Len(rows) = PageSize + 1 /\ \A i \in 1..Len(rows) : KeyLess(rows[i], KeyOf(list, id))

LEMMA FetchedIsPage ==
    ASSUME ArrangeAssumption, RowsTyped, NEW list \in ListKinds, NEW after \in Nat \X Nat
    PROVE  IsPage(Fetched(list, after), list, after)
<1> DEFINE rest == {k \in Keys(list) : KeyLess(after, k)}
           rows == FirstRows(rest, PageSize + 1)
<1>1. /\ Keys(list) = {KeyOf(list, id) : id \in IdsOf(list)}
      /\ \A id \in IdsOf(list) : KeyOf(list, id) \in Nat \X Nat /\ KeyOf(list, id)[2] = id
  BY KeysOfRows
<1>2. rest \in SUBSET (Nat \X Nat) /\ PageSize + 1 \in Nat
  BY <1>1 DEF ArrangeAssumption
<1>3. /\ \A k \in rest : k[2] \in IdsOf(list) /\ k = KeyOf(list, k[2]) /\ KeyLess(after, k)
      /\ \A id \in IdsOf(list) : KeyLess(after, KeyOf(list, id)) => KeyOf(list, id) \in rest
  BY <1>1
<1>4. Fetched(list, after) = rows
  BY DEF Fetched
<1> HIDE DEF rest
<1>5. rows \in Seq(rest) /\ Len(rows) <= PageSize + 1 /\ AreFirst(rows, rest, PageSize + 1)
  BY <1>2, FirstRowsFit
<1> HIDE DEF rows
<1>6. \A i \in 1..Len(rows) : rows[i] \in rest
  BY <1>5
<1>7. rows \in Seq(Nat \X Nat)
  BY <1>2, <1>5
<1>8. /\ \A i, j \in 1..Len(rows) : i < j => KeyLess(rows[i], rows[j])
      /\ \A k \in rest : k \in Range(rows) \/
                         (Len(rows) = PageSize + 1 /\ \A i \in 1..Len(rows) : KeyLess(rows[i], k))
  BY <1>5 DEF AreFirst
<1>9. \A k \in Range(rows) : \E i \in 1..Len(rows) : rows[i] = k
  <2>1. DOMAIN rows = 1..Len(rows)
    BY <1>5
  <2> QED BY <2>1 DEF Range
<1>10. \A id \in IdsOf(list) :
         KeyLess(after, KeyOf(list, id)) =>
           \/ \E i \in 1..Len(rows) : rows[i] = KeyOf(list, id)
           \/ Len(rows) = PageSize + 1 /\ \A i \in 1..Len(rows) : KeyLess(rows[i], KeyOf(list, id))
  BY <1>3, <1>8, <1>9, Zenon
<1>11. \A i \in 1..Len(rows) :
         rows[i][2] \in IdsOf(list) /\ rows[i] = KeyOf(list, rows[i][2]) /\ KeyLess(after, rows[i])
  BY <1>3, <1>6, Zenon
<1>12. IsPage(rows, list, after)
  BY <1>5, <1>7, <1>8, <1>10, <1>11 DEF IsPage
<1> QED BY <1>4, <1>12

LEMMA OnceOrNever ==
    ASSUME NEW x \in Seq(Nat), NEW y \in Seq(Nat), NEW id
    PROVE  /\ Never(x, id) /\ Never(y, id) => Never(x \o y, id)
           /\ Never(x, id) /\ Once(y, id) => Once(x \o y, id)
           /\ Once(x, id) /\ Never(y, id) => Once(x \o y, id)
<1> DEFINE z == x \o y
<1>1. /\ Len(z) = Len(x) + Len(y)
      /\ \A i \in 1..Len(x) : z[i] = x[i]
      /\ \A i \in 1..Len(y) : z[Len(x) + i] = y[i]
  BY ConcatProperties
<1>2. /\ \A i \in 1..Len(x) : i \in 1..Len(z)
      /\ \A i \in 1..Len(y) : Len(x) + i \in 1..Len(z)
      /\ \A i \in 1..Len(z) : i \notin 1..Len(x) => i - Len(x) \in 1..Len(y) /\ Len(x) + (i - Len(x)) = i
  BY <1>1
<1> HIDE DEF z
<1>3. \A j \in 1..Len(z) : \/ j \in 1..Len(x) /\ z[j] = x[j]
                           \/ \E i \in 1..Len(y) : j = Len(x) + i /\ z[j] = y[i]
  BY <1>1, <1>2
<1>4. ASSUME Never(x, id), Never(y, id) PROVE Never(z, id)
  BY <1>3, <1>4 DEF Never
<1>5. ASSUME Never(x, id), Once(y, id) PROVE Once(z, id)
  <2>1. PICK i \in 1..Len(y) : y[i] = id /\ \A j \in 1..Len(y) : y[j] = id => j = i
    BY <1>5 DEF Once
  <2>2. Len(x) + i \in 1..Len(z) /\ z[Len(x) + i] = id
    BY <1>1, <1>2, <2>1
  <2>3. \A j \in 1..Len(z) : z[j] = id => j = Len(x) + i
    BY <1>3, <1>5, <2>1 DEF Never
  <2> QED BY <2>2, <2>3 DEF Once
<1>6. ASSUME Once(x, id), Never(y, id) PROVE Once(z, id)
  <2>1. PICK i \in 1..Len(x) : x[i] = id /\ \A j \in 1..Len(x) : x[j] = id => j = i
    BY <1>6 DEF Once
  <2>2. i \in 1..Len(z) /\ z[i] = id
    BY <1>1, <1>2, <2>1
  <2>3. \A j \in 1..Len(z) : z[j] = id => j = i
    BY <1>3, <1>6, <2>1 DEF Never
  <2> QED BY <2>2, <2>3 DEF Once
<1> QED BY <1>4, <1>5, <1>6 DEF z

LEMMA Smaller ==
    ASSUME NEW m \in Nat, NEW n \in Nat
    PROVE  Min({m, n}) = IF n > m THEN m ELSE n
<1>1. CASE n > m
  <2>1. m \in {m, n} /\ \A y \in {m, n} : m <= y
    BY <1>1
  <2>2. \A x \in {m, n} : (\A y \in {m, n} : x <= y) => x = m
    BY <1>1
  <2>3. (CHOOSE x \in {m, n} : \A y \in {m, n} : x <= y) = m
    BY <2>1, <2>2
  <2> QED BY <1>1, <2>3 DEF Min
<1>2. CASE ~(n > m)
  <2>1. n \in {m, n} /\ \A y \in {m, n} : n <= y
    BY <1>2
  <2>2. \A x \in {m, n} : (\A y \in {m, n} : x <= y) => x = n
    BY <1>2
  <2>3. (CHOOSE x \in {m, n} : \A y \in {m, n} : x <= y) = n
    BY <2>1, <2>2
  <2> QED BY <1>2, <2>3 DEF Min
<1> QED BY <1>1, <1>2

\* What a page adds to a walk: the rows between its two keys, once.
PageAdds(rows, ids, list, after) ==
    \A id \in IdsOf(list) :
      LET key == KeyOf(list, id) IN
      /\ ~KeyLess(after, key) => Never(ids, id) /\ (Len(rows) > PageSize => ~KeyLess(rows[PageSize], key))
      /\ KeyLess(after, key) /\ Len(rows) <= PageSize => Once(ids, id)
      /\ KeyLess(after, key) /\ Len(rows) > PageSize =>
           IF KeyLess(rows[PageSize], key) THEN Never(ids, id) ELSE Once(ids, id)

LEMMA PageLists ==
    ASSUME ArrangeAssumption, RowsTyped, NEW list \in ListKinds, NEW after \in Nat \X Nat,
           NEW rows, IsPage(rows, list, after),
           NEW ids, ids = [i \in 1..Min({PageSize, Len(rows)}) |-> rows[i][2]]
    PROVE  /\ ids \in Seq(Nat)
           /\ Len(rows) > PageSize => rows[PageSize] \in Nat \X Nat
           /\ PageAdds(rows, ids, list, after)
<1> DEFINE m == Min({PageSize, Len(rows)})
<1>1. PageSize \in Nat \ {0} /\ Len(rows) \in Nat /\ rows \in Seq(Nat \X Nat)
  BY DEF ArrangeAssumption, IsPage
<1>2. m = IF Len(rows) > PageSize THEN PageSize ELSE Len(rows)
  BY <1>1, Smaller
<1> HIDE DEF m
<1>3. m \in Nat /\ m <= Len(rows) /\ (Len(rows) > PageSize => m = PageSize) /\ (Len(rows) <= PageSize => m = Len(rows))
  BY <1>1, <1>2
<1>4. \A i \in 1..Len(rows) : rows[i] \in Nat \X Nat /\ rows[i][2] \in Nat
  BY <1>1
<1>5. \A i \in 1..m : i \in 1..Len(rows)
  BY <1>1, <1>3
<1>6. ids \in [1..m -> Nat] /\ \A i \in 1..m : ids[i] = rows[i][2]
  BY <1>4, <1>5 DEF m
<1>7. ids \in Seq(Nat) /\ Len(ids) = m
  <2>1. \A s \in [1..m -> Nat] : s \in Seq(Nat) /\ Len(s) = m
    BY <1>3
  <2> QED BY <1>6, <2>1
<1>8. Len(rows) > PageSize => PageSize \in 1..Len(rows) /\ rows[PageSize] \in Nat \X Nat
  BY <1>1, <1>4
<1>9. ASSUME NEW id \in IdsOf(list), NEW k, k = KeyOf(list, id)
      PROVE  /\ ~KeyLess(after, k) => Never(ids, id) /\ (Len(rows) > PageSize => ~KeyLess(rows[PageSize], k))
             /\ KeyLess(after, k) /\ Len(rows) <= PageSize => Once(ids, id)
             /\ KeyLess(after, k) /\ Len(rows) > PageSize =>
                  IF KeyLess(rows[PageSize], k) THEN Never(ids, id) ELSE Once(ids, id)
  <2>1. k \in Nat \X Nat /\ k[2] = id
    BY <1>9, KeysOfRows
  <2>2. \A i \in 1..Len(rows) : (rows[i][2] = id <=> rows[i] = k) /\ KeyLess(after, rows[i])
    BY <1>9, <2>1 DEF IsPage
  <2>3. \A i, j \in 1..Len(rows) : i < j => KeyLess(rows[i], rows[j])
    BY DEF IsPage
  <2>4. \A i \in 1..Len(rows) : i < Len(rows) \/ i = Len(rows)
    BY <1>1
  <2>5. \A i, j \in 1..Len(rows) : rows[i] = k /\ rows[j] = k => i = j
    <3>1. \A i, j \in 1..Len(rows) : i < j \/ j < i \/ i = j
      BY <1>1
    <3>2. ~KeyLess(k, k)
      BY <2>1, KeysInOrder
    <3> QED BY <2>3, <3>1, <3>2
  <2>6. ASSUME ~KeyLess(after, k) PROVE \A i \in 1..Len(rows) : rows[i] # k /\ ~KeyLess(rows[i], k)
    <3>1. SUFFICES ASSUME NEW i \in 1..Len(rows) PROVE rows[i] # k /\ ~KeyLess(rows[i], k)
      OBVIOUS
    <3>2. rows[i] \in Nat \X Nat /\ KeyLess(after, rows[i])
      BY <1>4, <2>2
    <3>3. KeyLess(rows[i], k) => KeyLess(after, k)
      BY <2>1, <3>2, KeysInOrder
    <3> QED BY <2>6, <3>2, <3>3
  <2>7. (\A i \in 1..m : rows[i] # k) => Never(ids, id)
    BY <1>5, <1>6, <1>7, <2>2 DEF Never
  <2>8. ASSUME NEW i \in 1..m, rows[i] = k PROVE Once(ids, id)
    <3>1. i \in 1..Len(ids) /\ ids[i] = id
      BY <1>5, <1>6, <1>7, <2>2, <2>8
    <3>2. \A j \in 1..Len(ids) : ids[j] = id => j = i
      BY <1>5, <1>6, <1>7, <2>2, <2>5, <2>8
    <3> QED BY <3>1, <3>2 DEF Once
  <2>9. ASSUME ~KeyLess(after, k)
        PROVE  Never(ids, id) /\ (Len(rows) > PageSize => ~KeyLess(rows[PageSize], k))
    BY <1>5, <1>8, <2>6, <2>7, <2>9
  <2>10. ASSUME KeyLess(after, k)
         PROVE  \/ \E i \in 1..Len(rows) : rows[i] = k
                \/ Len(rows) = PageSize + 1 /\ \A i \in 1..Len(rows) : KeyLess(rows[i], k)
    BY <1>9, <2>10 DEF IsPage
  <2>11. ASSUME KeyLess(after, k), Len(rows) <= PageSize PROVE Once(ids, id)
    <3>1. ~(Len(rows) = PageSize + 1) /\ m = Len(rows)
      BY <1>1, <1>3, <2>11
    <3>2. PICK i \in 1..m : rows[i] = k
      BY <2>10, <2>11, <3>1
    <3> QED BY <2>8, <3>2
  <2>12. ASSUME KeyLess(after, k), Len(rows) > PageSize, KeyLess(rows[PageSize], k) PROVE Never(ids, id)
    <3>1. m = PageSize
      BY <1>3, <2>12
    <3>2. \A i \in 1..m : KeyLess(rows[i], k)
      <4>1. SUFFICES ASSUME NEW i \in 1..m PROVE KeyLess(rows[i], k)
        OBVIOUS
      <4>2. i = PageSize \/ i < PageSize
        BY <1>1, <3>1
      <4>3. i \in 1..Len(rows) /\ PageSize \in 1..Len(rows) /\ rows[PageSize] \in Nat \X Nat /\ rows[i] \in Nat \X Nat
        BY <1>4, <1>5, <1>8, <2>12
      <4>4. CASE i < PageSize
        <5>1. KeyLess(rows[i], rows[PageSize])
          BY <2>3, <4>3, <4>4
        <5> QED BY <2>1, <2>12, <4>3, <5>1, KeysInOrder
      <4> QED BY <2>12, <4>2, <4>4
    <3>3. \A i \in 1..m : rows[i] # k
      BY <2>1, <3>2, KeysInOrder
    <3> QED BY <2>7, <3>3
  <2>13. ASSUME KeyLess(after, k), Len(rows) > PageSize, ~KeyLess(rows[PageSize], k) PROVE Once(ids, id)
    <3>1. PICK i \in 1..Len(rows) : rows[i] = k
      BY <1>8, <2>10, <2>13
    <3>2. i \in 1..m
      <4>1. ~(PageSize < i)
        BY <1>8, <2>3, <2>13, <3>1
      <4> QED BY <1>1, <1>3, <2>13, <4>1
    <3> QED BY <2>8, <3>1, <3>2
  <2> QED BY <2>9, <2>11, <2>12, <2>13
<1> QED BY <1>7, <1>8, <1>9 DEF PageAdds

LEMMA RevisionsOfRows ==
    ASSUME ArrangeAssumption, RowsTyped, NEW list \in ListKinds
    PROVE  /\ DOMAIN Revisions(list) = IdsOf(list)
           /\ \A id \in IdsOf(list) : Revisions(list)[id] \in Nat
           /\ list = "areas" => \A id \in IdsOf(list) : Revisions(list)[id] = area[id].revision
<1>1. CASE list = "areas"
  <2>1. \A a \in AreasPresent : area[a].revision \in Nat
    <3>1. \A r \in AreaRows : r.revision \in Nat
      BY AreaRowFacts DEF ArrangeAssumption
    <3> QED BY <3>1 DEF RowsTyped, AreasPresent
  <2> QED BY <1>1, <2>1 DEF Revisions, IdsOf
<1>2. CASE list = "groups"
  BY <1>2 DEF Revisions, IdsOf
<1>3. CASE list = "accounts"
  BY <1>3 DEF Revisions, IdsOf
<1> QED BY <1>1, <1>2, <1>3 DEF ListKinds

\* A walk that has just begun has listed nothing.
LEMMA WalkBegins ==
    ASSUME ArrangeAssumption, RowsTyped, NEW list \in ListKinds, NEW t,
           t.step = "walking", t.kind = list, t.after = <<0, 0>>, t.listed = <<>>, t.began = Revisions(list)
    PROVE  WalkIsTrue(t)
<1>1. /\ DOMAIN Revisions(list) = IdsOf(list)
      /\ \A id \in IdsOf(list) : Revisions(list)[id] \in Nat
  BY RevisionsOfRows
<1>2. BeganThere(t)
  BY <1>1 DEF BeganThere
<1>3. t.listed \in Seq(Nat) /\ Len(t.listed) = 0
  BY EmptySeq
<1>4. t.after \in Nat \X Nat
  OBVIOUS
<1>5. ASSUME NEW id \in DOMAIN t.began PROVE RowIsWalked(t, id)
  <2>1. id \in IdsOf(list)
    BY <1>1
  <2>2. id \in Nat \ {0} /\ KeyOf(list, id) \in Nat \X Nat /\ KeyOf(list, id)[2] = id
    BY <2>1, KeysOfRows
  <2>3. PICK a \in Nat, b \in Nat : KeyOf(list, id) = <<a, b>>
    BY <2>2
  <2>4. b \in Nat \ {0}
    BY <2>2, <2>3
  <2>5. KeyLess(<<0, 0>>, <<a, b>>)
    BY <2>4 DEF KeyLess
  <2>6. ~Passed(t, id)
    BY <2>3, <2>5 DEF Passed
  <2>7. Never(t.listed, id)
    BY <1>3 DEF Never
  <2> QED BY <2>6, <2>7 DEF RowIsWalked
<1> QED BY <1>2, <1>3, <1>4, <1>5 DEF WalkIsTrue

LEMMA WalkStays ==
    ASSUME ArrangeAssumption, RowsTyped, RowsTyped', RowsAdvance, NEW t, WalkIsTrue(t)
    PROVE  WalkIsTrue(t)'
<1> DEFINE list == t.kind
<1>1. list \in ListKinds /\ BeganThere(t)
  BY DEF WalkIsTrue
<1>2. ASSUME NEW id \in IdsOf(list)
      PROVE  /\ id \in IdsOf(list)' /\ Revisions(list)[id] <= Revisions(list)'[id]
             /\ Revisions(list)[id] \in Nat /\ Revisions(list)'[id] \in Nat
             /\ Revisions(list)'[id] = Revisions(list)[id] => KeyOf(list, id)' = KeyOf(list, id)
  <2>1. CASE list = "areas"
    <3>1. id \in AreasPresent
      BY <1>2, <2>1 DEF IdsOf
    <3>2. /\ area'[id] # Absent /\ area'[id].revision >= area[id].revision
          /\ area'[id].revision = area[id].revision => area'[id] = area[id]
      BY <3>1 DEF RowsAdvance
    <3>3. id \in AreasPresent'
      BY <3>1, <3>2 DEF AreasPresent
    <3>4. \A r \in AreaRows : r.revision \in Nat
      BY AreaRowFacts DEF ArrangeAssumption
    <3>5. area[id].revision \in Nat /\ area'[id].revision \in Nat
      BY <3>1, <3>3, <3>4 DEF RowsTyped, AreasPresent
    <3>6. Revisions(list)[id] = area[id].revision /\ Revisions(list)'[id] = area'[id].revision
      BY <2>1, <3>1, <3>3 DEF Revisions
    <3>7. area'[id].revision = area[id].revision => KeyOf(list, id)' = KeyOf(list, id)
      BY <2>1, <3>2 DEF KeyOf
    <3> HIDE DEF list
    <3>8. id \in IdsOf(list)'
      BY <2>1, <3>3 DEF IdsOf
    <3>9. area[id].revision <= area'[id].revision
      BY <3>2, <3>5
    <3> QED BY <3>5, <3>6, <3>7, <3>8, <3>9
  <2>2. CASE list = "groups"
    <3>1. id \in GroupsPresent /\ id \in GroupsPresent'
      BY <1>2, <2>2 DEF IdsOf, RowsAdvance, GroupsPresent
    <3>2. Revisions(list)[id] = 1 /\ Revisions(list)'[id] = 1
      BY <2>2, <3>1 DEF Revisions
    <3> QED BY <2>2, <3>1, <3>2 DEF IdsOf, KeyOf
  <2>3. CASE list = "accounts"
    <3>1. Revisions(list)[id] = 1 /\ Revisions(list)'[id] = 1
      BY <1>2, <2>3 DEF Revisions, IdsOf
    <3> QED BY <1>2, <2>3, <3>1 DEF IdsOf, KeyOf
  <2> QED BY <1>1, <2>1, <2>2, <2>3 DEF ListKinds
<1>3. \A id \in DOMAIN t.began :
        id \in IdsOf(list) /\ t.began[id] \in Nat /\ t.began[id] <= Revisions(list)[id]
  BY <1>1 DEF BeganThere
<1>4. ASSUME NEW id \in DOMAIN t.began
      PROVE  t.began[id] <= Revisions(list)'[id] /\ (t.began[id] = Revisions(list)'[id] => Revisions(list)'[id] = Revisions(list)[id])
  BY <1>2, <1>3
<1>5. BeganThere(t)'
  BY <1>2, <1>3, <1>4 DEF BeganThere
<1>6. ASSUME NEW id \in DOMAIN t.began, Unmoved(t, id)' PROVE RowIsWalked(t, id)'
  <2>1. Unmoved(t, id) /\ KeyOf(list, id)' = KeyOf(list, id)
    BY <1>2, <1>3, <1>4, <1>6 DEF Unmoved
  <2>2. RowIsWalked(t, id)
    BY <2>1 DEF WalkIsTrue
  <2>3. Passed(t, id)' <=> Passed(t, id)
    BY <2>1 DEF Passed, KeyLess
  <2> QED BY <2>2, <2>3 DEF RowIsWalked
<1> QED BY <1>1, <1>5, <1>6 DEF WalkIsTrue

\* The next page, or the last one, leaves a walk that knows what it has listed.
LEMMA WalkGoesOn ==
    ASSUME ArrangeAssumption, RowsTyped, NEW s, s.step = "walking", WalkIsTrue(s),
           NEW rows, rows = Fetched(s.kind, s.after),
           NEW ids, ids = [i \in 1..Min({PageSize, Len(rows)}) |-> rows[i][2]],
           NEW t, t.kind = s.kind, t.began = s.began, t.listed = s.listed \o ids,
           \/ Len(rows) > PageSize /\ t.step = "walking" /\ t.after = rows[PageSize]
           \/ ~(Len(rows) > PageSize) /\ t.step = "walked" /\ t.after = s.after
    PROVE  WalkIsTrue(t)
<1>1. /\ s.kind \in ListKinds /\ s.listed \in Seq(Nat) /\ s.after \in Nat \X Nat /\ BeganThere(s)
      /\ \A id \in DOMAIN s.began : Unmoved(s, id) => RowIsWalked(s, id)
  BY DEF WalkIsTrue
<1>2. IsPage(rows, s.kind, s.after)
  BY <1>1, FetchedIsPage
<1>3. /\ ids \in Seq(Nat)
      /\ Len(rows) > PageSize => rows[PageSize] \in Nat \X Nat
      /\ PageAdds(rows, ids, s.kind, s.after)
  BY <1>1, <1>2, PageLists
<1>4. ~(Len(rows) > PageSize) <=> Len(rows) <= PageSize
  BY <1>2 DEF IsPage, ArrangeAssumption
<1>5. t.listed \in Seq(Nat) /\ t.after \in Nat \X Nat
  BY <1>1, <1>3, ConcatProperties
<1>6. BeganThere(t)
  BY <1>1 DEF BeganThere
<1>7. ASSUME NEW id \in DOMAIN t.began, Unmoved(t, id) PROVE RowIsWalked(t, id)
  <2>1. id \in IdsOf(s.kind) /\ RowIsWalked(s, id)
    BY <1>1, <1>7 DEF Unmoved, BeganThere
  <2> DEFINE key == KeyOf(s.kind, id)
  <2>2. /\ ~KeyLess(s.after, key) => Once(s.listed, id)
        /\ KeyLess(s.after, key) => Never(s.listed, id)
    BY <2>1 DEF RowIsWalked, Passed
  <2>3. /\ ~KeyLess(s.after, key) => Never(ids, id) /\ (Len(rows) > PageSize => ~KeyLess(rows[PageSize], key))
        /\ KeyLess(s.after, key) /\ Len(rows) <= PageSize => Once(ids, id)
        /\ KeyLess(s.after, key) /\ Len(rows) > PageSize =>
             IF KeyLess(rows[PageSize], key) THEN Never(ids, id) ELSE Once(ids, id)
    BY <1>3, <2>1 DEF PageAdds
  <2>4. /\ Never(s.listed, id) /\ Never(ids, id) => Never(t.listed, id)
        /\ Never(s.listed, id) /\ Once(ids, id) => Once(t.listed, id)
        /\ Once(s.listed, id) /\ Never(ids, id) => Once(t.listed, id)
    BY <1>1, <1>3, OnceOrNever
  <2>5. CASE Len(rows) > PageSize /\ t.step = "walking" /\ t.after = rows[PageSize]
    <3>1. Passed(t, id) <=> ~KeyLess(rows[PageSize], key)
      BY <2>5 DEF Passed
    <3> HIDE DEF key
    <3> QED BY <2>2, <2>3, <2>4, <2>5, <3>1 DEF RowIsWalked
  <2>6. CASE ~(Len(rows) > PageSize) /\ t.step = "walked" /\ t.after = s.after
    <3>1. Passed(t, id)
      BY <2>6 DEF Passed
    <3> HIDE DEF key
    <3> QED BY <1>4, <2>2, <2>3, <2>4, <2>6, <3>1 DEF RowIsWalked
  <2> QED BY <2>5, <2>6
<1> QED BY <1>1, <1>5, <1>6, <1>7 DEF WalkIsTrue

LEMMA WalksListed ==
    ASSUME TasksAreTrue
    PROVE  WalksListEverything
<1>1. SUFFICES ASSUME NEW c \in Slots, task[c].step = "walked", NEW id \in DOMAIN task[c].began,
                      task[c].began[id] = Revisions(task[c].kind)[id]
               PROVE  Cardinality({i \in DOMAIN task[c].listed : task[c].listed[i] = id}) = 1
  BY DEF WalksListEverything
<1>2. PICK t : t = task[c]
  OBVIOUS
<1>3. TaskIsTrue(t) /\ t.step = "walked"
  BY <1>1, <1>2 DEF TasksAreTrue
<1>4. t # Free
  BY <1>3 DEF Free
<1>5. WalkIsTrue(t)
  BY <1>3, <1>4 DEF TaskIsTrue
<1>6. Once(t.listed, id) /\ t.listed \in Seq(Nat)
  BY <1>1, <1>2, <1>3, <1>5 DEF WalkIsTrue, Unmoved, RowIsWalked, Passed
<1>7. DOMAIN t.listed = 1..Len(t.listed)
  BY <1>6
<1>8. PICK i \in 1..Len(t.listed) : t.listed[i] = id /\ \A j \in 1..Len(t.listed) : t.listed[j] = id => j = i
  BY <1>6 DEF Once
<1>9. {j \in DOMAIN t.listed : t.listed[j] = id} = {i}
  BY <1>7, <1>8
<1>10. Cardinality({i}) = 1
  BY FS_Singleton
<1> QED BY <1>2, <1>9, <1>10

-----------------------------------------------------------------------------
(* What tasks know stays true when rows advance. *)

LEMMA RowStays ==
    ASSUME ArrangeAssumption, RowsTyped, RowsTyped', RowsAdvance, NEW kind, NEW id, NEW row, RowIsTrue(kind, id, row)
    PROVE  RowIsTrue(kind, id, row)'
<1>1. CASE kind = "area"
  <2>1. /\ id \in AreasPresent /\ row.revision \in Nat /\ row.revision <= area[id].revision
        /\ row.revision = area[id].revision => row = LoadAreaForAdministrationPage(id)
    BY <1>1 DEF RowIsTrue
  <2>2. /\ id \in Areas /\ area'[id] # Absent /\ area'[id].revision >= area[id].revision
        /\ area'[id].revision = area[id].revision => area'[id] = area[id]
    BY <2>1 DEF RowsAdvance, AreasPresent
  <2>3. area[id] \in AreaRows /\ area'[id] \in AreaRows
    BY <2>1, <2>2 DEF RowsTyped, AreasPresent
  <2>4. area[id].revision \in Nat /\ area'[id].revision \in Nat
    <3>1. \A r \in AreaRows : r.revision \in Nat
      BY AreaRowFacts DEF ArrangeAssumption
    <3> QED BY <2>3, <3>1
  <2>5. row.revision <= area'[id].revision
    BY <2>1, <2>2, <2>4
  <2>6. row.revision = area'[id].revision => area'[id] = area[id] /\ row.revision = area[id].revision
    BY <2>1, <2>2, <2>4
  <2>7. row.revision = area'[id].revision => row = LoadAreaForAdministrationPage(id)'
    BY <2>1, <2>6 DEF LoadAreaForAdministrationPage
  <2> QED BY <1>1, <2>1, <2>2, <2>5, <2>7 DEF RowIsTrue, AreasPresent
<1>2. CASE kind = "account"
  <2>1. /\ id \in Users /\ row.revision \in Nat /\ row.revision <= account[id].revision
        /\ row.revision = account[id].revision => row = LoadAccountForAdministration(id)
    BY <1>2 DEF RowIsTrue
  <2>2. /\ account'[id].revision >= account[id].revision
        /\ account'[id].revision = account[id].revision => account'[id].role = account[id].role
    BY <2>1 DEF RowsAdvance
  <2>3. account[id].revision \in Nat /\ account'[id].revision \in Nat
    BY <2>1 DEF RowsTyped
  <2>4. row.revision <= account'[id].revision
    BY <2>1, <2>2, <2>3
  <2>5. row.revision = account'[id].revision =>
          account'[id].role = account[id].role /\ row.revision = account[id].revision
    BY <2>1, <2>2, <2>3
  <2>6. row.revision = account'[id].revision => row = LoadAccountForAdministration(id)'
    BY <2>1, <2>5 DEF LoadAccountForAdministration
  <2> QED BY <1>2, <2>1, <2>4, <2>6 DEF RowIsTrue
<1>3. CASE kind = "group"
  BY <1>3 DEF RowIsTrue, RowsAdvance, GroupsPresent
<1> QED BY <1>1, <1>2, <1>3 DEF RowIsTrue

LEMMA GroupsStay ==
    ASSUME ArrangeAssumption, RowsTyped, RowsTyped', RowsAdvance, NEW kind, NEW id, NEW page,
           RowIsTrue(kind, id, page.row), GroupsAreTrue(kind, id, page)
    PROVE  GroupsAreTrue(kind, id, page)'
<1>1. CASE kind = "area"
  <2>1. id \in AreasPresent /\ page.row.revision \in Nat /\ page.row.revision <= area[id].revision
    BY <1>1 DEF RowIsTrue
  <2>2. /\ id \in Areas /\ area'[id] # Absent /\ area'[id].revision >= area[id].revision
        /\ area'[id].revision = area[id].revision => area'[id] = area[id]
    BY <2>1 DEF RowsAdvance, AreasPresent
  <2>3. area[id] \in AreaRows /\ area'[id] \in AreaRows
    BY <2>1, <2>2 DEF RowsTyped, AreasPresent
  <2>4. area[id].revision \in Nat /\ area'[id].revision \in Nat
    <3>1. \A r \in AreaRows : r.revision \in Nat
      BY AreaRowFacts DEF ArrangeAssumption
    <3> QED BY <2>3, <3>1
  <2>5. page.row.revision = area'[id].revision => area'[id] = area[id] /\ page.row.revision = area[id].revision
    BY <2>1, <2>2, <2>4
  <2> QED BY <1>1, <2>5 DEF GroupsAreTrue
<1>2. CASE kind = "account"
  <2>1. id \in Users /\ page.row.revision \in Nat /\ page.row.revision <= account[id].revision
    BY <1>2 DEF RowIsTrue
  <2>2. /\ account'[id].revision >= account[id].revision
        /\ account'[id].revision = account[id].revision => \A g \in Groups : <<id, g>> \in members' <=> <<id, g>> \in members
    BY <2>1 DEF RowsAdvance
  <2>3. account[id].revision \in Nat /\ account'[id].revision \in Nat
    BY <2>1 DEF RowsTyped
  <2>4. page.row.revision = account'[id].revision =>
          /\ page.row.revision = account[id].revision
          /\ \A g \in Groups : <<id, g>> \in members' <=> <<id, g>> \in members
    BY <2>1, <2>2, <2>3
  <2>5. page.row.revision = account'[id].revision => page.groups = ListAccountGroupsForAdministration(id)
    BY <1>2, <2>4 DEF GroupsAreTrue
  <2>6. page.row.revision = account'[id].revision =>
          ListAccountGroupsForAdministration(id)' = ListAccountGroupsForAdministration(id)
    BY <2>4 DEF ListAccountGroupsForAdministration, AdministrationMembershipExists
  <2> QED BY <1>2, <2>5, <2>6 DEF GroupsAreTrue
<1>3. CASE kind \notin {"area", "account"}
  BY <1>3 DEF GroupsAreTrue
<1> QED BY <1>1, <1>2, <1>3

LEMMA ShownStays ==
    ASSUME ArrangeAssumption, RowsTyped, RowsTyped', RowsAdvance, NEW kind, NEW id, NEW page
    PROVE  /\ ShownIsTrue(kind, id, page) => ShownIsTrue(kind, id, page)'
           /\ OpenedIsTrue(kind, id, page) => OpenedIsTrue(kind, id, page)'
<1>1. RowIsTrue(kind, id, page.row) => RowIsTrue(kind, id, page.row)'
  BY RowStays
<1>2. RowIsTrue(kind, id, page.row) /\ GroupsAreTrue(kind, id, page) => GroupsAreTrue(kind, id, page)'
  BY GroupsStay
<1>3. ShownIsTrue(kind, id, page) => ShownIsTrue(kind, id, page)'
  BY <1>1, <1>2 DEF ShownIsTrue
<1>4. OpenedIsTrue(kind, id, page) => OpenedIsTrue(kind, id, page)'
  BY <1>1 DEF OpenedIsTrue
<1> QED BY <1>3, <1>4

LEMMA FormStays ==
    ASSUME ArrangeAssumption, RowsTyped, RowsTyped', RowsAdvance, NEW t, FormIsTrue(t)
    PROVE  FormIsTrue(t)'
<1>1. /\ ShownIsTrue("area", t.id, t.page) => ShownIsTrue("area", t.id, t.page)'
      /\ ShownIsTrue("account", t.id, t.page) => ShownIsTrue("account", t.id, t.page)'
  BY ShownStays
<1>2. t.id \in GroupsPresent => t.id \in GroupsPresent'
  BY DEF RowsAdvance, GroupsPresent
<1>3. CASE t.kind = "create_group"
  BY <1>3 DEF FormIsTrue
<1>4. CASE t.kind = "create_area"
  BY <1>4 DEF FormIsTrue
<1>5. CASE t.kind = "update_area"
  BY <1>1, <1>5 DEF FormIsTrue
<1>6. CASE t.kind = "area_group"
  BY <1>1, <1>6 DEF FormIsTrue
<1>7. CASE t.kind = "membership"
  BY <1>1, <1>7 DEF FormIsTrue
<1>8. CASE t.kind = "rename_group"
  BY <1>2, <1>8 DEF FormIsTrue
<1> QED BY <1>3, <1>4, <1>5, <1>6, <1>7, <1>8 DEF FormIsTrue

LEMMA TaskStays ==
    ASSUME ArrangeAssumption, RowsTyped, RowsTyped', RowsAdvance, NEW t, TaskIsTrue(t)
    PROVE  TaskIsTrue(t)'
<1>1. FormIsTrue(t) => FormIsTrue(t)'
  BY FormStays
<1>2. /\ ShownIsTrue(t.kind, t.id, t.page) => ShownIsTrue(t.kind, t.id, t.page)'
      /\ OpenedIsTrue(t.kind, t.id, t.page) => OpenedIsTrue(t.kind, t.id, t.page)'
  BY ShownStays
<1>3. WalkIsTrue(t) => WalkIsTrue(t)'
  BY WalkStays
<1> QED BY <1>1, <1>2, <1>3 DEF TaskIsTrue

-----------------------------------------------------------------------------
(* The steps that only read. *)

\* A step of the slot c that changes no row and leaves it with the task t.
Quiet(c, t) == UNCHANGED <<account, area, group, members, trail>> /\ task' = [task EXCEPT ![c] = t] /\ TaskIsTrue(t)

\* It holds nothing, or what it held and one row more.
WithRow(s, row) == [s EXCEPT !.locked = Append(@, row)]
HoldsNothing(t) == t.step = "locking" => t.locked = <<>>
HoldsMore(c, t) ==
    LET s == task[c]
        row == LockPlan(s)[Len(s.locked) + 1] IN
    /\ Locking(c) /\ Len(s.locked) < Len(LockPlan(s)) /\ ~Waits(c) /\ Accepted(s, row)
    /\ t = WithRow(s, row)

LEMMA JoinedFields ==
    ASSUME NEW r, NEW gs
    PROVE  /\ Joined([row |-> r], [groups |-> gs]).row = r
           /\ Joined([row |-> r], [groups |-> gs]).groups = gs
  BY DEF Joined

LEMMA OpenPageStep ==
    ASSUME ArrangeAssumption, RowsTyped, NEW c \in Slots, OpenPage(c)
    PROVE  \E t : Quiet(c, t) /\ HoldsNothing(t)
<1>1. PICK actor \in Users, kind \in {"area", "account", "group"} :
        \E id \in IF kind = "area" THEN AreasPresent ELSE IF kind = "account" THEN Users ELSE GroupsPresent :
          task' = [task EXCEPT ![c] = [step |-> "opened", kind |-> kind, actor |-> actor, id |-> id,
                                       page |-> Statements(kind, id)[1]]]
  BY DEF OpenPage
<1>2. PICK id \in IF kind = "area" THEN AreasPresent ELSE IF kind = "account" THEN Users ELSE GroupsPresent :
        task' = [task EXCEPT ![c] = [step |-> "opened", kind |-> kind, actor |-> actor, id |-> id,
                                     page |-> Statements(kind, id)[1]]]
  BY <1>1
<1>3. Statements(kind, id)[1] = Loaded(kind, id)
  BY DEF Statements
<1>4. PICK page : page = Loaded(kind, id)
  OBVIOUS
<1>5. page = [row |-> page.row]
  BY <1>4 DEF Loaded
<1>6. RowIsTrue(kind, id, page.row)
  <2>1. CASE kind = "area"
    <3>1. page.row = LoadAreaForAdministrationPage(id) /\ id \in AreasPresent
      BY <1>2, <1>4, <2>1 DEF Loaded
    <3>2. area[id] \in AreaRows
      BY <3>1 DEF RowsTyped, AreasPresent
    <3>3. area[id].revision \in Nat
      BY <3>2, AreaRowFacts DEF ArrangeAssumption
    <3>4. page.row.revision = area[id].revision
      BY <3>1 DEF LoadAreaForAdministrationPage
    <3> QED BY <2>1, <3>1, <3>3, <3>4 DEF RowIsTrue
  <2>2. CASE kind = "account"
    <3>1. page.row = LoadAccountForAdministration(id) /\ id \in Users
      BY <1>2, <1>4, <2>2 DEF Loaded
    <3>2. account[id].revision \in Nat
      BY <3>1 DEF RowsTyped
    <3>3. page.row.revision = account[id].revision
      BY <3>1 DEF LoadAccountForAdministration
    <3> QED BY <2>2, <3>1, <3>2, <3>3 DEF RowIsTrue
  <2>3. CASE kind = "group"
    BY <1>2, <2>3 DEF RowIsTrue
  <2> QED BY <2>1, <2>2, <2>3
<1>7. OpenedIsTrue(kind, id, page)
  BY <1>5, <1>6 DEF OpenedIsTrue
<1>8. PICK t : t = [step |-> "opened", kind |-> kind, actor |-> actor, id |-> id, page |-> page]
  OBVIOUS
<1>9. /\ t.step = "opened" /\ t.kind = kind /\ t.actor = actor /\ t.id = id /\ t.page = page /\ PageShape(t)
  BY <1>8 DEF PageShape
<1>10. TaskIsTrue(t)
  BY <1>7, <1>9 DEF TaskIsTrue
<1>11. task' = [task EXCEPT ![c] = t]
  BY <1>2, <1>3, <1>4, <1>8
<1> QED BY <1>9, <1>10, <1>11 DEF OpenPage, Quiet, HoldsNothing

LEMMA FreeIsTrue == TaskIsTrue(Free) /\ HoldsNothing(Free)
  BY DEF TaskIsTrue, HoldsNothing, Free

LEMMA ShowPageStep ==
    ASSUME ArrangeAssumption, RowsTyped, TasksAreTrue, NEW c \in Slots, ShowPage(c)
    PROVE  \E t : Quiet(c, t) /\ HoldsNothing(t)
<1>1. CASE ~validLockedAdministrator(task[c].actor)
  <2>1. task' = [task EXCEPT ![c] = Free]
    BY <1>1 DEF ShowPage
  <2> QED BY <2>1, FreeIsTrue DEF ShowPage, Quiet
<1>2. CASE validLockedAdministrator(task[c].actor)
  <2>1. PICK s : s = task[c]
    OBVIOUS
  <2>2. /\ s.step = "opened" /\ PageShape(s) /\ s.actor \in Users /\ s.kind \in {"area", "account", "group"}
        /\ OpenedIsTrue(s.kind, s.id, s.page)
    BY <2>1 DEF ShowPage, TasksAreTrue, TaskIsTrue, Free
  <2>3. PICK gs : Listed(s.kind, s.id) = [groups |-> gs]
    BY DEF Listed
  <2>4. Statements(s.kind, s.id)[2] = Listed(s.kind, s.id)
    BY DEF Statements
  <2>5. PICK page : page = Joined(s.page, Listed(s.kind, s.id))
    OBVIOUS
  <2>6. page = Joined([row |-> s.page.row], [groups |-> gs])
    BY <2>2, <2>3, <2>5 DEF OpenedIsTrue
  <2>7. page.row = s.page.row /\ page.groups = gs
    BY <2>6, JoinedFields
  <2>8. s.kind = "area" => gs = area[s.id].groups
    BY <2>3 DEF Listed, ListAreaGroupsForAdministrationPage
  <2>9. s.kind = "account" => gs = ListAccountGroupsForAdministration(s.id)
    BY <2>3 DEF Listed
  <2>10. GroupsAreTrue(s.kind, s.id, page)
    BY <2>7, <2>8, <2>9 DEF GroupsAreTrue
  <2>11. ShownIsTrue(s.kind, s.id, page)
    BY <2>2, <2>6, <2>7, <2>10 DEF ShownIsTrue, OpenedIsTrue
  <2>12. PICK t : t = [s EXCEPT !.step = "shown", !.page = page]
    OBVIOUS
  <2>13. t = [step |-> "shown", kind |-> s.kind, actor |-> s.actor, id |-> s.id, page |-> page]
    <3>1. s = [step |-> s.step, kind |-> s.kind, actor |-> s.actor, id |-> s.id, page |-> s.page]
      BY <2>2 DEF PageShape
    <3>2. PICK p : p = [s EXCEPT !.step = "shown"]
      OBVIOUS
    <3>3. p = [step |-> "shown", kind |-> s.kind, actor |-> s.actor, id |-> s.id, page |-> s.page]
      BY <3>1, <3>2
    <3>4. [p EXCEPT !.page = page] = [step |-> "shown", kind |-> s.kind, actor |-> s.actor, id |-> s.id, page |-> page]
      BY <3>3
    <3>5. t = [[s EXCEPT !.step = "shown"] EXCEPT !.page = page]
      BY <2>12, <3>1
    <3> QED BY <3>2, <3>4, <3>5, Zenon
  <2>14. /\ t.step = "shown" /\ t.kind = s.kind /\ t.actor = s.actor /\ t.id = s.id /\ t.page = page /\ PageShape(t)
    BY <2>13 DEF PageShape
  <2>15. TaskIsTrue(t)
    BY <2>2, <2>11, <2>14 DEF TaskIsTrue
  <2>16. task' = [task EXCEPT ![c] = [s EXCEPT !.step = "shown", !.page = Joined(s.page, Statements(s.kind, s.id)[2])]]
    BY <1>2, <2>1 DEF ShowPage
  <2>17. task' = [task EXCEPT ![c] = t]
    BY <2>4, <2>5, <2>12, <2>16
  <2> QED BY <2>14, <2>15, <2>17 DEF ShowPage, Quiet, HoldsNothing
<1> QED BY <1>1, <1>2

LEMMA StartWalkStep ==
    ASSUME ArrangeAssumption, RowsTyped, NEW c \in Slots, StartWalk(c)
    PROVE  \E t : Quiet(c, t) /\ HoldsNothing(t)
<1>1. PICK actor \in Users, list \in {"areas", "groups", "accounts"} :
        task' = [task EXCEPT ![c] = [step |-> "walking", kind |-> list, actor |-> actor, after |-> <<0, 0>>,
                                     listed |-> <<>>, began |-> Revisions(list)]]
  BY DEF StartWalk
<1>2. PICK t : t = [step |-> "walking", kind |-> list, actor |-> actor, after |-> <<0, 0>>, listed |-> <<>>,
                    began |-> Revisions(list)]
  OBVIOUS
<1>3. t.step = "walking" /\ WalkShape(t) /\ t.actor \in Users
  BY <1>2 DEF WalkShape
<1>4. TaskIsTrue(t)
  <2>1. WalkIsTrue(t)
    BY <1>2, WalkBegins DEF ListKinds
  <2> QED BY <1>3, <2>1 DEF TaskIsTrue
<1>5. task' = [task EXCEPT ![c] = t]
  BY <1>1, <1>2
<1> QED BY <1>3, <1>4, <1>5 DEF StartWalk, Quiet, HoldsNothing

\* A walk after another page, and after the last one.
Walked(s, x, after) == [s EXCEPT !.listed = x, !.after = after]
WalkedOut(s, x) == [s EXCEPT !.listed = x, !.step = "walked"]

LEMMA WalkFields ==
    ASSUME NEW s, WalkShape(s), NEW x, NEW y
    PROVE  /\ Walked(s, x, y) = [step |-> s.step, kind |-> s.kind, actor |-> s.actor, after |-> y, listed |-> x,
                                 began |-> s.began]
           /\ WalkedOut(s, x) = [step |-> "walked", kind |-> s.kind, actor |-> s.actor, after |-> s.after,
                                 listed |-> x, began |-> s.began]
<1>1. s = [step |-> s.step, kind |-> s.kind, actor |-> s.actor, after |-> s.after, listed |-> s.listed,
           began |-> s.began]
  BY DEF WalkShape
<1>2. PICK p : p = [s EXCEPT !.listed = x]
  OBVIOUS
<1>3. p = [step |-> s.step, kind |-> s.kind, actor |-> s.actor, after |-> s.after, listed |-> x, began |-> s.began]
  BY <1>1, <1>2
<1>4. [p EXCEPT !.after = y] =
        [step |-> s.step, kind |-> s.kind, actor |-> s.actor, after |-> y, listed |-> x, began |-> s.began]
  BY <1>3
<1>5. [p EXCEPT !.step = "walked"] =
        [step |-> "walked", kind |-> s.kind, actor |-> s.actor, after |-> s.after, listed |-> x, began |-> s.began]
  BY <1>3
<1>6. Walked(s, x, y) = [[s EXCEPT !.listed = x] EXCEPT !.after = y]
  BY <1>1 DEF Walked
<1>7. WalkedOut(s, x) = [[s EXCEPT !.listed = x] EXCEPT !.step = "walked"]
  BY <1>1 DEF WalkedOut
<1> QED BY <1>2, <1>4, <1>5, <1>6, <1>7, Zenon

LEMMA ListPageStep ==
    ASSUME ArrangeAssumption, RowsTyped, TasksAreTrue, NEW c \in Slots, ListPage(c)
    PROVE  \E t : Quiet(c, t) /\ HoldsNothing(t)
<1>1. PICK s : s = task[c]
  OBVIOUS
<1>2. s.step = "walking" /\ WalkShape(s) /\ s.actor \in Users /\ WalkIsTrue(s)
  BY <1>1 DEF ListPage, TasksAreTrue, TaskIsTrue, Free
<1>3. PICK rows : rows = Fetched(s.kind, s.after)
  OBVIOUS
<1>4. PICK ids : ids = [i \in 1..Min({PageSize, Len(rows)}) |-> rows[i][2]]
  OBVIOUS
<1>5. \/ task' = [task EXCEPT ![c] = Free]
      \/ Len(rows) > PageSize /\ task' = [task EXCEPT ![c] = Walked(s, s.listed \o ids, rows[PageSize])]
      \/ ~(Len(rows) > PageSize) /\ task' = [task EXCEPT ![c] = WalkedOut(s, s.listed \o ids)]
  BY <1>1, <1>3, <1>4 DEF ListPage, Walked, WalkedOut, NextAfter
<1>6. UNCHANGED <<account, area, group, members, trail>>
  BY DEF ListPage
<1>7. CASE task' = [task EXCEPT ![c] = Free]
  BY <1>6, <1>7, FreeIsTrue DEF Quiet
<1>8. CASE Len(rows) > PageSize /\ task' = [task EXCEPT ![c] = Walked(s, s.listed \o ids, rows[PageSize])]
  <2>1. PICK t : t = Walked(s, s.listed \o ids, rows[PageSize])
    OBVIOUS
  <2>2. t = [step |-> s.step, kind |-> s.kind, actor |-> s.actor, after |-> rows[PageSize],
             listed |-> s.listed \o ids, began |-> s.began]
    BY <1>2, <2>1, WalkFields
  <2>3. /\ t.step = "walking" /\ t.kind = s.kind /\ t.actor = s.actor /\ t.after = rows[PageSize]
        /\ t.listed = s.listed \o ids /\ t.began = s.began /\ WalkShape(t)
    BY <1>2, <2>2 DEF WalkShape
  <2>4. WalkIsTrue(t)
    BY <1>2, <1>3, <1>4, <1>8, <2>3, WalkGoesOn
  <2>5. TaskIsTrue(t) /\ HoldsNothing(t)
    BY <1>2, <2>3, <2>4 DEF TaskIsTrue, HoldsNothing
  <2> QED BY <1>6, <1>8, <2>1, <2>5 DEF Quiet
<1>9. CASE ~(Len(rows) > PageSize) /\ task' = [task EXCEPT ![c] = WalkedOut(s, s.listed \o ids)]
  <2>1. PICK t : t = WalkedOut(s, s.listed \o ids)
    OBVIOUS
  <2>2. t = [step |-> "walked", kind |-> s.kind, actor |-> s.actor, after |-> s.after,
             listed |-> s.listed \o ids, began |-> s.began]
    BY <1>2, <2>1, WalkFields
  <2>3. /\ t.step = "walked" /\ t.kind = s.kind /\ t.actor = s.actor /\ t.after = s.after
        /\ t.listed = s.listed \o ids /\ t.began = s.began /\ WalkShape(t)
    BY <2>2 DEF WalkShape
  <2>4. WalkIsTrue(t)
    BY <1>2, <1>3, <1>4, <1>9, <2>3, WalkGoesOn
  <2>5. TaskIsTrue(t) /\ HoldsNothing(t)
    BY <1>2, <2>3, <2>4 DEF TaskIsTrue, HoldsNothing
  <2> QED BY <1>6, <1>9, <2>1, <2>5 DEF Quiet
<1> QED BY <1>5, <1>7, <1>8, <1>9

\* A form that comes in.
LEMMA SubmitStep ==
    ASSUME NEW c \in Slots, NEW t, UNCHANGED <<account, area, group, members, trail>>,
           task' = [task EXCEPT ![c] = t], t.step = "locking", t.locked = <<>>, t.actor \in Users, FormIsTrue(t)
    PROVE  Quiet(c, t) /\ HoldsNothing(t)
<1>1. t.locked \in Seq(Rows)
  OBVIOUS
<1> QED BY <1>1 DEF Quiet, HoldsNothing, TaskIsTrue

LEMMA NewFormStep ==
    ASSUME NEW c \in Slots, SubmitNewGroup(c) \/ SubmitNewArea(c)
    PROVE  \E t : Quiet(c, t) /\ HoldsNothing(t)
<1>1. PICK t : /\ task' = [task EXCEPT ![c] = t] /\ UNCHANGED <<account, area, group, members, trail>>
               /\ t.step = "locking" /\ t.locked = <<>> /\ t.actor \in Users /\ FormIsTrue(t)
  <2>1. CASE SubmitNewGroup(c)
    <3>1. PICK actor \in Users, name \in Names :
            Submit(c, [step |-> "locking", locked |-> <<>>, kind |-> "create_group", actor |-> actor, wish |-> name])
      BY <2>1 DEF SubmitNewGroup
    <3>2. PICK t : t = [step |-> "locking", locked |-> <<>>, kind |-> "create_group", actor |-> actor, wish |-> name]
      OBVIOUS
    <3>3. /\ t.step = "locking" /\ t.locked = <<>> /\ t.kind = "create_group" /\ t.actor = actor /\ t.wish = name
          /\ NewShape(t)
      BY <3>2 DEF NewShape
    <3>4. FormIsTrue(t)
      BY <3>3 DEF FormIsTrue
    <3> QED BY <3>1, <3>2, <3>3, <3>4 DEF Submit
  <2>2. CASE SubmitNewArea(c)
    <3>1. PICK actor \in Users, wish \in AreaWishes :
            /\ validAreaCoreInput(wish, TRUE)
            /\ Submit(c, [step |-> "locking", locked |-> <<>>, kind |-> "create_area", actor |-> actor, wish |-> wish])
      BY <2>2 DEF SubmitNewArea
    <3>2. PICK t : t = [step |-> "locking", locked |-> <<>>, kind |-> "create_area", actor |-> actor, wish |-> wish]
      OBVIOUS
    <3>3. /\ t.step = "locking" /\ t.locked = <<>> /\ t.kind = "create_area" /\ t.actor = actor /\ t.wish = wish
          /\ NewShape(t)
      BY <3>2 DEF NewShape
    <3>4. FormIsTrue(t)
      BY <3>1, <3>3 DEF FormIsTrue
    <3> QED BY <3>1, <3>2, <3>3, <3>4 DEF Submit
  <2> QED BY <2>1, <2>2
<1> QED BY <1>1, SubmitStep

LEMMA FromPage ==
    ASSUME TasksAreTrue, NEW c \in Slots, NEW page, NEW kind, NEW wish, SubmitFrom(c, page, kind, wish),
           \/ kind = "update_area" /\ page = "area" /\ wish \in AreaWishes /\ validAreaCoreInput(wish, FALSE)
           \/ kind = "area_group" /\ page = "area" /\ wish \in Toggles
           \/ kind = "membership" /\ page = "account" /\ wish \in Toggles
           \/ kind = "rename_group" /\ page = "group" /\ wish \in Names
    PROVE  \E t : Quiet(c, t) /\ HoldsNothing(t)
<1>1. PICK s : s = task[c]
  OBVIOUS
<1>2. s.step = "shown" /\ s.kind = page /\ s.actor \in Users /\ ShownIsTrue(page, s.id, s.page)
  BY <1>1 DEF SubmitFrom, TasksAreTrue, TaskIsTrue, Free
<1>3. PICK t : t = [step |-> "locking", locked |-> <<>>, kind |-> kind, actor |-> s.actor, id |-> s.id,
                    page |-> s.page, wish |-> wish]
  OBVIOUS
<1>4. /\ t.step = "locking" /\ t.locked = <<>> /\ t.kind = kind /\ t.actor = s.actor /\ t.id = s.id
      /\ t.page = s.page /\ t.wish = wish /\ FormShape(t)
  BY <1>3 DEF FormShape
<1>5. /\ task' = [task EXCEPT ![c] = t] /\ UNCHANGED <<account, area, group, members, trail>>
  BY <1>1, <1>3 DEF SubmitFrom, Submit
<1>6. page = "group" => s.id \in GroupsPresent
  BY <1>2 DEF ShownIsTrue, RowIsTrue
<1>7. FormIsTrue(t)
  <2>1. CASE kind = "update_area"
    BY <1>2, <1>4, <2>1 DEF FormIsTrue
  <2>2. CASE kind = "area_group"
    BY <1>2, <1>4, <2>2 DEF FormIsTrue
  <2>3. CASE kind = "membership"
    BY <1>2, <1>4, <2>3 DEF FormIsTrue
  <2>4. CASE kind = "rename_group"
    BY <1>4, <1>6, <2>4 DEF FormIsTrue
  <2> QED BY <2>1, <2>2, <2>3, <2>4
<1> QED BY <1>2, <1>4, <1>5, <1>7, SubmitStep

LEMMA PageFormStep ==
    ASSUME TasksAreTrue, NEW c \in Slots,
           SubmitArea(c) \/ SubmitAreaGroup(c) \/ SubmitMembership(c) \/ SubmitName(c)
    PROVE  \E t : Quiet(c, t) /\ HoldsNothing(t)
<1>1. \A g \in GroupsPresent : Toggle(c, g) \in Toggles
  BY Zenon DEF Toggle, Toggles, GroupsPresent
<1>2. CASE SubmitArea(c)
  <2>1. PICK wish \in AreaWishes : validAreaCoreInput(wish, FALSE) /\ SubmitFrom(c, "area", "update_area", wish)
    BY <1>2 DEF SubmitArea
  <2> QED BY <2>1, FromPage
<1>3. CASE SubmitAreaGroup(c)
  <2>1. PICK wish \in Toggles : SubmitFrom(c, "area", "area_group", wish)
    BY <1>1, <1>3 DEF SubmitAreaGroup
  <2> QED BY <2>1, FromPage
<1>4. CASE SubmitMembership(c)
  <2>1. PICK wish \in Toggles : SubmitFrom(c, "account", "membership", wish)
    BY <1>1, <1>4 DEF SubmitMembership
  <2> QED BY <2>1, FromPage
<1>5. CASE SubmitName(c)
  <2>1. PICK wish \in Names : SubmitFrom(c, "group", "rename_group", wish)
    BY <1>5 DEF SubmitName
  <2> QED BY <2>1, FromPage
<1> QED BY <1>2, <1>3, <1>4, <1>5

LEMMA WithRowFields ==
    ASSUME NEW s, NewShape(s) \/ FormShape(s), NEW row
    PROVE  /\ WithRow(s, row).step = s.step /\ WithRow(s, row).kind = s.kind /\ WithRow(s, row).actor = s.actor
           /\ WithRow(s, row).wish = s.wish /\ WithRow(s, row).locked = Append(s.locked, row)
           /\ NewShape(s) => NewShape(WithRow(s, row))
           /\ FormShape(s) => /\ FormShape(WithRow(s, row))
                              /\ WithRow(s, row).id = s.id /\ WithRow(s, row).page = s.page
<1>1. PICK q : q = Append(s.locked, row)
  OBVIOUS
<1>2. WithRow(s, row) = [s EXCEPT !.locked = q]
  BY <1>1 DEF WithRow
<1>3. CASE NewShape(s)
  <2>1. s = [step |-> s.step, locked |-> s.locked, kind |-> s.kind, actor |-> s.actor, wish |-> s.wish]
    BY <1>3 DEF NewShape
  <2>2. [s EXCEPT !.locked = q] =
          [step |-> s.step, locked |-> q, kind |-> s.kind, actor |-> s.actor, wish |-> s.wish]
    BY <2>1
  <2>3. PICK t : t = WithRow(s, row)
    OBVIOUS
  <2>4. t = [step |-> s.step, locked |-> q, kind |-> s.kind, actor |-> s.actor, wish |-> s.wish]
    BY <1>2, <2>2, <2>3
  <2>5. /\ t.step = s.step /\ t.kind = s.kind /\ t.actor = s.actor /\ t.wish = s.wish /\ t.locked = q /\ NewShape(t)
    BY <2>4 DEF NewShape
  <2>6. ~FormShape(s)
    <3>1. DOMAIN s = {"step", "locked", "kind", "actor", "wish"}
      BY <2>1
    <3>2. FormShape(s) => "id" \in DOMAIN s
      BY DEF FormShape
    <3> QED BY <3>1, <3>2
  <2> QED BY <1>1, <2>3, <2>5, <2>6
<1>4. CASE FormShape(s)
  <2>1. s = [step |-> s.step, locked |-> s.locked, kind |-> s.kind, actor |-> s.actor, id |-> s.id,
             page |-> s.page, wish |-> s.wish]
    BY <1>4 DEF FormShape
  <2>2. [s EXCEPT !.locked = q] =
          [step |-> s.step, locked |-> q, kind |-> s.kind, actor |-> s.actor, id |-> s.id, page |-> s.page,
           wish |-> s.wish]
    BY <2>1
  <2>3. PICK t : t = WithRow(s, row)
    OBVIOUS
  <2>4. t = [step |-> s.step, locked |-> q, kind |-> s.kind, actor |-> s.actor, id |-> s.id, page |-> s.page,
             wish |-> s.wish]
    BY <1>2, <2>2, <2>3
  <2>5. /\ t.step = s.step /\ t.kind = s.kind /\ t.actor = s.actor /\ t.wish = s.wish /\ t.locked = q
        /\ t.id = s.id /\ t.page = s.page /\ FormShape(t)
    BY <2>4 DEF FormShape
  <2>6. ~NewShape(s)
    <3>1. DOMAIN s = {"step", "locked", "kind", "actor", "id", "page", "wish"}
      BY <2>1
    <3>2. NewShape(s) => "id" \notin DOMAIN s
      BY DEF NewShape
    <3> QED BY <3>1, <3>2
  <2> QED BY <1>1, <2>3, <2>5, <2>6
<1> QED BY <1>3, <1>4

\* Forms that differ in what they hold alone.
SameForm(s, t) ==
    /\ t.step = s.step /\ t.kind = s.kind /\ t.actor = s.actor /\ t.wish = s.wish
    /\ s.kind \in {"create_group", "create_area"} \/ (t.id = s.id /\ t.page = s.page)

LEMMA SamePlan ==
    ASSUME NEW s, NEW t, SameForm(s, t), s.kind \in Forms
    PROVE  /\ lockAdministrationUsers(t) = lockAdministrationUsers(s) /\ LockPlan(t) = LockPlan(s)
           /\ UsersAccepted(s) => UsersAccepted(t)
           /\ OfArea(s) <=> OfArea(t)
           /\ OfArea(s) /\ AreaAccepted(s) => AreaAccepted(t)
<1>1. CASE s.kind \in {"create_group", "create_area"}
  <2>1. lockAdministrationUsers(t) = lockAdministrationUsers(s)
    BY <1>1 DEF SameForm, lockAdministrationUsers
  <2>2. s.kind = "create_area" => (TakesFirstGroup(t) <=> TakesFirstGroup(s))
    BY DEF SameForm, TakesFirstGroup
  <2>3. s.kind = "create_area" => LockPlan(t) = LockPlan(s)
    BY <2>2, PlanOf DEF SameForm
  <2>4. s.kind = "create_group" => LockPlan(t) = LockPlan(s)
    BY PlanOf DEF SameForm
  <2> QED BY <1>1, <2>1, <2>3, <2>4 DEF SameForm, UsersAccepted, OfArea
<1>2. CASE t.id = s.id /\ t.page = s.page
  <2>1. lockAdministrationUsers(t) = lockAdministrationUsers(s)
    BY <1>2 DEF SameForm, lockAdministrationUsers
  <2>2. TakesFirstGroup(t) <=> TakesFirstGroup(s)
    BY <1>2 DEF SameForm, TakesFirstGroup
  <2>3. LockPlan(t) = LockPlan(s)
    BY <1>2, <2>1, <2>2 DEF SameForm, LockPlan
  <2>4. UsersAccepted(s) => UsersAccepted(t)
    BY <1>2 DEF SameForm, UsersAccepted, Stale
  <2>5. OfArea(s) /\ AreaAccepted(s) => AreaAccepted(t)
    BY <1>2 DEF SameForm, OfArea, AreaAccepted, Stale
  <2> QED BY <2>1, <2>3, <2>4, <2>5 DEF SameForm, OfArea
<1> QED BY <1>1, <1>2 DEF SameForm

\* The last of the accounts' rows in a plan.
LEMMA LastUser ==
    ASSUME NEW t, t.kind \in Forms
    PROVE  /\ LockPlan(t)[Len(lockAdministrationUsers(t))] = Last(lockAdministrationUsers(t))
           /\ Last(lockAdministrationUsers(t)).table = "user"
<1>1. \A x, y : /\ Len(<<x>>) = 1 /\ Len(<<x, y>>) = 2 /\ <<x>>[1] = x /\ <<x, y>>[2] = y
  OBVIOUS
<1>2. CASE t.kind = "membership" /\ t.id # t.actor
  <2>1. lockAdministrationUsers(t) = <<Row("user", Min({t.actor, t.id})), Row("user", Max({t.actor, t.id}))>>
    BY <1>2 DEF lockAdministrationUsers
  <2>2. Len(lockAdministrationUsers(t)) = 2 /\ Last(lockAdministrationUsers(t)) = Row("user", Max({t.actor, t.id}))
    BY <1>1, <2>1 DEF Last
  <2> QED BY <1>2, <2>2, Places, RowFacts
<1>3. CASE ~(t.kind = "membership" /\ t.id # t.actor)
  <2>1. lockAdministrationUsers(t) = <<Row("user", t.actor)>>
    BY <1>3 DEF lockAdministrationUsers
  <2>2. Len(lockAdministrationUsers(t)) = 1 /\ Last(lockAdministrationUsers(t)) = Row("user", t.actor)
    BY <1>1, <2>1 DEF Last
  <2>3. LockPlan(t)[1] = Row("user", t.actor)
    BY <1>3, Places
  <2> QED BY <2>2, <2>3, RowFacts
<1> QED BY <1>2, <1>3

LEMMA LockRowStep ==
    ASSUME ArrangeAssumption, RowsTyped, TasksAreTrue, LocksArePlanned, NEW c \in Slots, LockRow(c)
    PROVE  \E t : Quiet(c, t) /\ (HoldsNothing(t) \/ HoldsMore(c, t))
<1>1. PICK s : s = task[c]
  OBVIOUS
<1>2. PICK row : row = LockPlan(s)[Len(s.locked) + 1]
  OBVIOUS
<1>3. /\ Locking(c) /\ Len(s.locked) < Len(LockPlan(s)) /\ ~Waits(c)
      /\ task' = [task EXCEPT ![c] = IF Accepted(s, row) THEN WithRow(s, row) ELSE Free]
      /\ UNCHANGED <<account, area, group, members, trail>>
  BY <1>1, <1>2 DEF LockRow, WithRow
<1>4. CASE ~Accepted(s, row)
  <2>1. task' = [task EXCEPT ![c] = Free]
    BY <1>3, <1>4
  <2> QED BY <1>3, <2>1, FreeIsTrue DEF Quiet
<1>5. CASE Accepted(s, row)
  <2>1. task' = [task EXCEPT ![c] = WithRow(s, row)]
    BY <1>3, <1>5
  <2>2. s.step = "locking" /\ s.actor \in Users /\ s.locked \in Seq(Rows) /\ FormIsTrue(s) /\ s.kind \in Forms
    BY <1>1, <1>3, HeldOf DEF Locking
  <2>3. LockPlan(s) \in Seq(Rows) /\ Len(LockPlan(s)) \in 1..3
    BY <2>2, PlansClimb
  <2>4. row \in Rows
    <3>1. Len(s.locked) + 1 \in 1..Len(LockPlan(s))
      BY <1>3, <2>2, <2>3
    <3> QED BY <1>2, <2>3, <3>1
  <2>5. Append(s.locked, row) \in Seq(Rows)
    BY <2>2, <2>4
  <2>6. NewShape(s) \/ FormShape(s)
    BY <2>2 DEF FormIsTrue
  <2>7. PICK t : t = WithRow(s, row)
    OBVIOUS
  <2>8. /\ t.step = s.step /\ t.kind = s.kind /\ t.actor = s.actor /\ t.wish = s.wish
        /\ t.locked = Append(s.locked, row)
        /\ NewShape(s) => NewShape(t)
        /\ FormShape(s) => FormShape(t) /\ t.id = s.id /\ t.page = s.page
    BY <2>6, <2>7, WithRowFields
  <2>9. FormIsTrue(t)
    BY <2>2, <2>8 DEF FormIsTrue
  <2>10. TaskIsTrue(t)
    BY <2>2, <2>5, <2>8, <2>9 DEF TaskIsTrue
  <2>11. HoldsMore(c, t)
    BY <1>1, <1>2, <1>3, <1>5, <2>7 DEF HoldsMore
  <2>12. task' = [task EXCEPT ![c] = t]
    BY <2>1, <2>7
  <2> QED BY <1>3, <2>10, <2>11, <2>12 DEF Quiet
<1> QED BY <1>4, <1>5

\* Every step: a step of a slot that changes no row, a statement that writes,
\* or a change of an account's standing.
LEMMA StepShapes ==
    ASSUME ArrangeAssumption, RowsTyped, TasksAreTrue, LocksArePlanned, Next
    PROVE  \/ \E c \in Slots : \E t : Quiet(c, t) /\ (HoldsNothing(t) \/ HoldsMore(c, t))
           \/ \E c \in Slots : Write(c)
           \/ \E u \in Users : ChangeStanding(u)
<1>1. ASSUME NEW c \in Slots, Rollback(c)
      PROVE  \E t : Quiet(c, t) /\ HoldsNothing(t)
  BY <1>1, FreeIsTrue DEF Rollback, Quiet
<1>2. ASSUME NEW c \in Slots,
             \/ OpenPage(c) \/ ShowPage(c) \/ StartWalk(c) \/ ListPage(c)
             \/ SubmitNewGroup(c) \/ SubmitNewArea(c) \/ SubmitArea(c) \/ SubmitAreaGroup(c)
             \/ SubmitMembership(c) \/ SubmitName(c) \/ LockRow(c) \/ Rollback(c)
      PROVE  \E t : Quiet(c, t) /\ (HoldsNothing(t) \/ HoldsMore(c, t))
  <2>1. CASE OpenPage(c)
    BY <2>1, OpenPageStep
  <2>2. CASE ShowPage(c)
    BY <2>2, ShowPageStep
  <2>3. CASE StartWalk(c)
    BY <2>3, StartWalkStep
  <2>4. CASE ListPage(c)
    BY <2>4, ListPageStep
  <2>5. CASE SubmitNewGroup(c) \/ SubmitNewArea(c)
    BY <2>5, NewFormStep
  <2>6. CASE SubmitArea(c) \/ SubmitAreaGroup(c) \/ SubmitMembership(c) \/ SubmitName(c)
    BY <2>6, PageFormStep
  <2>7. CASE LockRow(c)
    BY <2>7, LockRowStep
  <2>8. CASE Rollback(c)
    BY <1>1, <2>8
  <2> QED BY <1>2, <2>1, <2>2, <2>3, <2>4, <2>5, <2>6, <2>7, <2>8
<1> QED BY <1>2 DEF Next

-----------------------------------------------------------------------------
(* Locks and what was checked under them. *)

LEMMA NothingHeld ==
    ASSUME NEW t, t.locked = <<>>, t.kind \in Forms
    PROVE  IsPlanned(t) /\ IsChecked(t)
<1>1. Len(t.locked) = 0
  OBVIOUS
<1>2. Len(lockAdministrationUsers(t)) \in 1..2
  BY UserLocks
<1>3. ~(Len(t.locked) >= Len(lockAdministrationUsers(t))) /\ ~(Len(t.locked) >= 2)
  <2>1. \A k \in 1..2 : ~(0 >= k)
    OBVIOUS
  <2>2. ~(0 >= Len(lockAdministrationUsers(t)))
    BY <1>2, <2>1
  <2> QED BY <1>1, <2>2
<1>4. 0 <= Len(LockPlan(t))
  <2>1. t.kind = "membership" => Len(LockPlan(t)) = 2 \/ Len(LockPlan(t)) = 3
    BY Places
  <2>2. t.kind # "membership" => Len(LockPlan(t)) >= 1
    BY Places
  <2> QED BY <2>1, <2>2
<1> QED BY <1>1, <1>3, <1>4 DEF IsPlanned, IsChecked

LEMMA MoreHeld ==
    ASSUME ArrangeAssumption, RowsTyped, TasksAreTrue, LocksArePlanned, ChecksHold, NEW c \in Slots, NEW t,
           HoldsMore(c, t)
    PROVE  IsPlanned(t) /\ IsChecked(t)
           /\ Range(t.locked) = Locked(c) \cup {LockPlan(task[c])[Len(task[c].locked) + 1]}
<1>1. PICK s : s = task[c]
  OBVIOUS
<1>2. PICK row : row = LockPlan(s)[Len(s.locked) + 1]
  OBVIOUS
<1>3. Locking(c) /\ Len(s.locked) < Len(LockPlan(s)) /\ Accepted(s, row) /\ t = WithRow(s, row)
  BY <1>1, <1>2 DEF HoldsMore
<1>4. /\ s.actor \in Users /\ FormIsTrue(s) /\ s.kind \in Forms /\ s.locked \in Seq(Rows)
      /\ IsPlanned(s) /\ IsChecked(s) /\ Len(s.locked) \in Nat /\ Locked(c) = Range(s.locked)
  BY <1>1, <1>3, HeldOf DEF LocksArePlanned, ChecksHold
<1>5. LockPlan(s) \in Seq(Rows) /\ Len(LockPlan(s)) \in 1..3
  BY <1>4, PlansClimb
<1>6. NewShape(s) \/ FormShape(s)
  BY <1>4 DEF FormIsTrue
<1>7. /\ SameForm(s, t) /\ t.locked = Append(s.locked, row)
  <2>1. NewShape(s) => s.kind \in {"create_group", "create_area"}
    <3> SUFFICES ASSUME NewShape(s), FormShape(s) PROVE FALSE
      BY <1>4 DEF FormIsTrue
    <3>1. DOMAIN s = {"step", "locked", "kind", "actor", "wish"}
      BY DEF NewShape
    <3>2. "id" \in DOMAIN s
      BY DEF FormShape
    <3> QED BY <3>1, <3>2
  <2> QED BY <1>3, <1>6, <2>1, WithRowFields DEF SameForm
<1>8. /\ Len(t.locked) = Len(s.locked) + 1
      /\ \A i \in 1..Len(s.locked) : t.locked[i] = s.locked[i]
      /\ t.locked[Len(s.locked) + 1] = row
  BY <1>4, <1>7
<1>9. /\ LockPlan(t) = LockPlan(s) /\ lockAdministrationUsers(t) = lockAdministrationUsers(s)
      /\ UsersAccepted(s) => UsersAccepted(t)
      /\ OfArea(s) <=> OfArea(t)
      /\ OfArea(s) /\ AreaAccepted(s) => AreaAccepted(t)
  BY <1>4, <1>7, SamePlan
<1>10. IsPlanned(t)
  <2>1. Len(t.locked) <= Len(LockPlan(t))
    BY <1>3, <1>4, <1>5, <1>8, <1>9
  <2>2. \A i \in 1..Len(s.locked) : s.locked[i] = LockPlan(s)[i]
    BY <1>4 DEF IsPlanned
  <2>3. \A i \in 1..(Len(s.locked) + 1) : i \in 1..Len(s.locked) \/ i = Len(s.locked) + 1
    BY <1>4
  <2>4. \A i \in 1..Len(t.locked) : t.locked[i] = LockPlan(t)[i]
    BY <1>2, <1>8, <1>9, <2>2, <2>3
  <2> QED BY <2>1, <2>4 DEF IsPlanned
<1>11. Len(t.locked) >= Len(lockAdministrationUsers(t)) => UsersAccepted(t)
  <2> SUFFICES ASSUME Len(t.locked) >= Len(lockAdministrationUsers(s)) PROVE UsersAccepted(s)
    BY <1>9
  <2>1. CASE Len(s.locked) >= Len(lockAdministrationUsers(s))
    BY <1>4, <2>1 DEF IsChecked
  <2>2. CASE Len(s.locked) + 1 = Len(lockAdministrationUsers(s))
    <3>1. row = Last(lockAdministrationUsers(s)) /\ row.table = "user"
      BY <1>2, <1>4, <2>2, LastUser
    <3> QED BY <1>3, <3>1 DEF Accepted
  <2>3. Len(lockAdministrationUsers(s)) \in Nat
    BY UserLocks
  <2> QED BY <1>4, <1>8, <2>1, <2>2, <2>3
<1>12. OfArea(t) /\ Len(t.locked) >= 2 => AreaAccepted(t)
  <2> SUFFICES ASSUME OfArea(s), Len(t.locked) >= 2 PROVE AreaAccepted(s)
    BY <1>9
  <2>1. CASE Len(s.locked) >= 2
    BY <1>4, <2>1 DEF IsChecked
  <2>2. CASE Len(s.locked) + 1 = 2
    <3>1. row = Row("area", s.id)
      BY <1>2, <2>2, Places
    <3>2. row.table = "area"
      BY <3>1, RowFacts
    <3> QED BY <1>3, <3>2 DEF Accepted
  <2> QED BY <1>4, <1>8, <2>1, <2>2
<1>13. t.kind = "rename_group" /\ Len(t.locked) >= 2 => group[t.id].revision # MaxRevision
  <2> SUFFICES ASSUME s.kind = "rename_group", Len(t.locked) >= 2 PROVE group[s.id].revision # MaxRevision
    BY <1>7 DEF SameForm
  <2>1. CASE Len(s.locked) >= 2
    BY <1>4, <2>1 DEF IsChecked
  <2>2. CASE Len(s.locked) + 1 = 2
    <3>1. row = Row("group", s.id)
      BY <1>2, <2>2, Places
    <3>2. row.table = "group" /\ row.id = s.id
      BY <3>1, RowFacts
    <3>3. GroupAccepted(s, s.id)
      BY <1>3, <3>2 DEF Accepted
    <3> QED BY <3>3 DEF GroupAccepted, Stale
  <2> QED BY <1>4, <1>8, <2>1, <2>2
<1>14. IsChecked(t)
  BY <1>11, <1>12, <1>13 DEF IsChecked
<1>15. Range(t.locked) = Range(s.locked) \cup {row}
  <2>1. DOMAIN s.locked = 1..Len(s.locked)
    BY <1>4
  <2>2. DOMAIN t.locked = 1..(Len(s.locked) + 1)
    <3>1. row \in Rows
      <4>1. Len(s.locked) + 1 \in 1..Len(LockPlan(s))
        BY <1>3, <1>4, <1>5
      <4> QED BY <1>2, <1>5, <4>1
    <3> QED BY <1>4, <1>7, <3>1
  <2>3. 1..(Len(s.locked) + 1) = (1..Len(s.locked)) \cup {Len(s.locked) + 1}
    BY <1>4
  <2> QED BY <1>8, <2>1, <2>2, <2>3 DEF Range
<1> QED BY <1>1, <1>2, <1>4, <1>10, <1>14, <1>15

\* A form whose rows stay keeps its plan and what it checked.
LEMMA FormKept ==
    ASSUME NEW s, s.kind \in Forms, Len(s.locked) \in Nat, IsPlanned(s), IsChecked(s),
           OfArea(s) /\ Len(s.locked) >= 2 => area'[s.id] = area[s.id],
           Len(s.locked) >= Len(lockAdministrationUsers(s)) => account'[s.actor] = account[s.actor],
           Len(s.locked) >= Len(lockAdministrationUsers(s)) /\ s.kind = "membership" =>
             account'[s.id] = account[s.id],
           s.kind = "rename_group" /\ Len(s.locked) >= 2 => group'[s.id] = group[s.id]
    PROVE  IsPlanned(s)' /\ IsChecked(s)'
<1>1. IsPlanned(s)'
  <2>1. CASE s.kind # "update_area" \/ area'[s.id] = area[s.id]
    <3>2. LockPlan(s)' = LockPlan(s)
      <4>1. s.kind \in AreaForms => (TakesFirstGroup(s)' <=> TakesFirstGroup(s))
        BY <2>1 DEF TakesFirstGroup, AreaForms
      <4> QED BY <4>1 DEF LockPlan, lockAdministrationUsers
    <3> QED BY <3>2 DEF IsPlanned
  <2>2. CASE s.kind = "update_area" /\ area'[s.id] # area[s.id]
    <3>1. ~(Len(s.locked) >= 2)
      BY <2>2 DEF OfArea
    <3>2. LockPlan(s)[1] = Row("user", s.actor)
      BY <2>2, Places DEF OfArea
    <3>3. LockPlan(s)'[1] = Row("user", s.actor) /\ Len(LockPlan(s)') >= 2
      <4> DEFINE actor == <<Row("user", s.actor)>>
                 place == <<Row("area", s.id)>>
                 wished == <<Row("group", s.wish.group)>>
      <4>1. LockPlan(s)' = (actor \o place) \o wished \/ LockPlan(s)' = (actor \o place) \o <<>>
        BY <2>2 DEF LockPlan, lockAdministrationUsers, AreaForms
      <4>2. actor \o place = <<Row("user", s.actor), Row("area", s.id)>>
        BY Pair
      <4>3. <<Row("user", s.actor), Row("area", s.id)>> \o wished =
              <<Row("user", s.actor), Row("area", s.id), Row("group", s.wish.group)>>
        BY Triple
      <4>4. <<Row("user", s.actor), Row("area", s.id)>> \o <<>> = <<Row("user", s.actor), Row("area", s.id)>>
        BY NothingMore
      <4> HIDE DEF actor, place, wished
      <4>5. \/ LockPlan(s)' = <<Row("user", s.actor), Row("area", s.id), Row("group", s.wish.group)>>
            \/ LockPlan(s)' = <<Row("user", s.actor), Row("area", s.id)>>
        BY <4>1, <4>2, <4>3, <4>4
      <4>6. \A x, y, z : Len(<<x, y>>) = 2 /\ Len(<<x, y, z>>) = 3 /\ <<x, y>>[1] = x /\ <<x, y, z>>[1] = x
        OBVIOUS
      <4>7. PICK p : p = LockPlan(s)'
        OBVIOUS
      <4>8. p[1] = Row("user", s.actor) /\ (Len(p) = 2 \/ Len(p) = 3)
        BY <4>5, <4>6, <4>7
      <4>9. \A k : k = 2 \/ k = 3 => k >= 2
        OBVIOUS
      <4> QED BY <4>7, <4>8, <4>9, Zenon
    <3>4. \A i \in 1..Len(s.locked) : i = 1
      BY <3>1
    <3>5. \A i \in 1..Len(s.locked) : s.locked[i] = LockPlan(s)[i]
      BY DEF IsPlanned
    <3>6. \A i \in 1..Len(s.locked) : s.locked[i] = LockPlan(s)'[i]
      BY <3>2, <3>3, <3>4, <3>5
    <3>7. Len(s.locked) <= Len(LockPlan(s)')
      BY <3>1, <3>3
    <3> QED BY <3>6, <3>7 DEF IsPlanned
  <2> QED BY <2>1, <2>2
<1>2. Len(s.locked) >= Len(lockAdministrationUsers(s)) => UsersAccepted(s)'
  BY DEF IsChecked, UsersAccepted, validLockedAdministrator, Stale
<1>3. OfArea(s) /\ Len(s.locked) >= 2 => AreaAccepted(s)'
  BY DEF IsChecked, AreaAccepted, Stale
<1>4. s.kind = "rename_group" /\ Len(s.locked) >= 2 => group'[s.id].revision # MaxRevision
  BY DEF IsChecked
<1>5. IsChecked(s)'
  BY <1>2, <1>3, <1>4 DEF IsChecked, OfArea, lockAdministrationUsers
<1> QED BY <1>1, <1>5

\* A slot whose rows stay keeps both.
LEMMA SlotKept ==
    ASSUME ArrangeAssumption, RowsTyped, TasksAreTrue, LocksArePlanned, ChecksHold, NEW d \in Slots, Locking(d),
           RowsKept(d)
    PROVE  \A s : s = task[d] => IsPlanned(s)' /\ IsChecked(s)'
<1> SUFFICES ASSUME NEW s, s = task[d] PROVE IsPlanned(s)' /\ IsChecked(s)'
  OBVIOUS
<1> DEFINE n == Len(s.locked)
<1>1. /\ s.actor \in Users /\ FormIsTrue(s) /\ s.kind \in Forms /\ n \in Nat
      /\ IsPlanned(s) /\ IsChecked(s) /\ \A i \in 1..n : LockPlan(s)[i] \in Locked(d)
  BY HeldOf DEF LocksArePlanned, ChecksHold
<1>2. OfArea(s) /\ n >= 2 => area'[s.id] = area[s.id]
  <2> SUFFICES ASSUME OfArea(s), n >= 2 PROVE area'[s.id] = area[s.id]
    OBVIOUS
  <2>1. Row("area", s.id) \in Locked(d)
    <3>1. 2 \in 1..n
      BY <1>1
    <3>2. LockPlan(s)[2] = Row("area", s.id)
      BY Places
    <3> QED BY <1>1, <3>1, <3>2
  <2> QED BY <1>1, <2>1, FormFacts DEF RowsKept
<1>3. n >= Len(lockAdministrationUsers(s)) =>
        /\ account'[s.actor] = account[s.actor]
        /\ s.kind = "membership" => account'[s.id] = account[s.id]
  <2> SUFFICES ASSUME n >= Len(lockAdministrationUsers(s))
               PROVE  /\ account'[s.actor] = account[s.actor]
                      /\ s.kind = "membership" => account'[s.id] = account[s.id]
    OBVIOUS
  <2>1. CASE s.kind = "membership" /\ s.id # s.actor
    <3>1. Len(lockAdministrationUsers(s)) = 2
      BY <2>1, UserLocks
    <3>2. 1 \in 1..n /\ 2 \in 1..n
      BY <1>1, <3>1
    <3>3. /\ LockPlan(s)[1] = Row("user", Min({s.actor, s.id}))
          /\ LockPlan(s)[2] = Row("user", Max({s.actor, s.id}))
      BY <2>1, Places
    <3>4. /\ Row("user", Min({s.actor, s.id})) \in Locked(d)
          /\ Row("user", Max({s.actor, s.id})) \in Locked(d)
      BY <1>1, <3>2, <3>3
    <3>5. s.id \in Users
      BY <1>1, <2>1, FormFacts
    <3>6. s.id \in Nat /\ s.actor \in Nat
      BY <1>1, <3>5 DEF ArrangeAssumption
    <3>7. /\ s.id \in {Min({s.actor, s.id}), Max({s.actor, s.id})}
          /\ s.actor \in {Min({s.actor, s.id}), Max({s.actor, s.id})}
      BY <2>1, <3>6, TwoIds
    <3>8. Row("user", s.id) \in Locked(d) /\ Row("user", s.actor) \in Locked(d)
      BY <3>4, <3>7
    <3> QED BY <1>1, <3>5, <3>8 DEF RowsKept
  <2>2. CASE ~(s.kind = "membership" /\ s.id # s.actor)
    <3>1. Len(lockAdministrationUsers(s)) = 1
      BY <2>2, UserLocks
    <3>2. 1 \in 1..n
      BY <1>1, <3>1
    <3>3. LockPlan(s)[1] = Row("user", s.actor)
      BY <1>1, <2>2, Places
    <3>4. Row("user", s.actor) \in Locked(d)
      BY <1>1, <3>2, <3>3
    <3> QED BY <1>1, <2>2, <3>4 DEF RowsKept
  <2> QED BY <2>1, <2>2
<1>4. s.kind = "rename_group" /\ n >= 2 => group'[s.id] = group[s.id]
  <2> SUFFICES ASSUME s.kind = "rename_group", n >= 2 PROVE group'[s.id] = group[s.id]
    OBVIOUS
  <2>1. Row("group", s.id) \in Locked(d)
    <3>1. 2 \in 1..n
      BY <1>1
    <3>2. LockPlan(s)[2] = Row("group", s.id)
      BY Places
    <3> QED BY <1>1, <3>1, <3>2
  <2>2. s.id \in GroupsPresent
    BY <1>1 DEF FormIsTrue
  <2> QED BY <2>1, <2>2 DEF RowsKept
<1> QED BY <1>1, <1>2, <1>3, <1>4, FormKept

-----------------------------------------------------------------------------
(* The invariant. *)

Stays(d) == task'[d] = task[d] /\ RowsKept(d)

\* Slots that stay, and at most one that begins something true or holds more.
LEMMA SlotsMove ==
    ASSUME ArrangeAssumption, ArrangeInv, RowsGood', RowsAdvance, DOMAIN task' = Slots,
           \A d \in Slots :
             \/ Stays(d)
             \/ \E t : /\ task'[d] = t /\ TaskIsTrue(t)
                       /\ t.step = "locking" =>
                            /\ IsPlanned(t)' /\ IsChecked(t)'
                            /\ \A e \in Slots \ {d} : Stays(e) /\ Range(t.locked) \cap Locked(e) = {}
    PROVE  ArrangeInv'
<1>1. RowsGood /\ RowsTyped /\ RowsTyped' /\ TasksAreTrue /\ LocksArePlanned /\ ChecksHold /\ LocksExclude
  BY DEF ArrangeInv, RowsGood
<1>2. ASSUME NEW d \in Slots, NEW t, task'[d] = t, TaskIsTrue(t) PROVE TaskIsTrue(task[d])'
  <2>1. TaskIsTrue(t)'
    BY <1>1, <1>2, TaskStays
  <2> QED BY <1>2, <2>1
<1>3. TasksAreTrue'
  <2>1. \A d \in Slots : \E t : task'[d] = t /\ TaskIsTrue(t)
    BY <1>1 DEF TasksAreTrue, Stays
  <2>2. \A d \in Slots : TaskIsTrue(task[d])'
    BY <1>2, <2>1
  <2> QED BY <2>2 DEF TasksAreTrue
<1>4. ASSUME NEW d \in Slots, Locking(d)'
      PROVE  IsPlanned(task[d])' /\ IsChecked(task[d])'
  <2>1. PICK s : s = task'[d]
    OBVIOUS
  <2>2. s.step = "locking"
    BY <1>4, <2>1 DEF Locking
  <2>3. IsPlanned(s)' /\ IsChecked(s)'
    <3>1. CASE Stays(d)
      <4>1. s = task[d] /\ Locking(d) /\ RowsKept(d)
        BY <2>1, <2>2, <3>1 DEF Stays, Locking
      <4> QED BY <1>1, <4>1, SlotKept
    <3>2. CASE ~Stays(d)
      BY <2>1, <2>2, <3>2
    <3> QED BY <3>1, <3>2
  <2> QED BY <2>1, <2>3
<1>5. LocksArePlanned' /\ ChecksHold'
  BY <1>4 DEF LocksArePlanned, ChecksHold
<1>6. ASSUME NEW d \in Slots PROVE \/ Locked(d)' = {}
                                   \/ Stays(d) /\ Locked(d)' = Locked(d)
                                   \/ \A e \in Slots \ {d} : Stays(e) /\ Locked(d)' \cap Locked(e) = {}
  <2>1. CASE Stays(d)
    BY <2>1 DEF Stays, Locked, Locking
  <2>2. CASE ~Stays(d)
    <3>1. PICK t : /\ task'[d] = t
                   /\ t.step = "locking" => \A e \in Slots \ {d} : Stays(e) /\ Range(t.locked) \cap Locked(e) = {}
      BY <2>2
    <3>2. Locked(d)' = IF t.step = "locking" THEN Range(t.locked) ELSE {}
      BY <3>1 DEF Locked, Locking
    <3> QED BY <3>1, <3>2
  <2> QED BY <2>1, <2>2
<1>7. \A e \in Slots : Stays(e) => Locked(e)' = Locked(e)
  BY DEF Stays, Locked, Locking
<1>8. LocksExclude'
  <2> SUFFICES ASSUME NEW c \in Slots, NEW d \in Slots, c # d PROVE Locked(c)' \cap Locked(d)' = {}
    BY DEF LocksExclude
  <2>1. CASE Locked(c)' = {} \/ Locked(d)' = {}
    BY <2>1
  <2>2. CASE \A e \in Slots \ {c} : Stays(e) /\ Locked(c)' \cap Locked(e) = {}
    BY <1>7, <2>2
  <2>3. CASE \A e \in Slots \ {d} : Stays(e) /\ Locked(d)' \cap Locked(e) = {}
    BY <1>7, <2>3
  <2>4. CASE Locked(c)' = Locked(c) /\ Locked(d)' = Locked(d)
    BY <1>1, <2>4 DEF LocksExclude
  <2> QED BY <1>6, <2>1, <2>2, <2>3, <2>4
<1> QED BY <1>3, <1>5, <1>8 DEF ArrangeInv, RowsGood

LEMMA RowsSame ==
    ASSUME ArrangeAssumption, RowsGood, UNCHANGED <<account, area, group, members, trail>>
    PROVE  RowsGood' /\ RowsAdvance /\ \A d \in Slots : RowsKept(d)
<1>1. RowsTyped
  BY DEF RowsGood
<1>2. RowsGood'
  BY DEF RowsGood, RowsTyped, AreasFit, SomebodyAdministers, TrailIsTheArea, AreasPresent
<1>3. \A a \in AreasPresent : area[a].revision \in Nat
  BY <1>1, AreaRowFacts DEF RowsTyped, AreasPresent, ArrangeAssumption
<1>4. \A u \in Users : account[u].revision \in Nat
  BY <1>1 DEF RowsTyped
<1>5. RowsAdvance
  BY <1>3, <1>4 DEF RowsAdvance, AreasPresent, GroupsPresent
<1> QED BY <1>2, <1>5 DEF RowsKept

LEMMA QuietKeeps ==
    ASSUME ArrangeAssumption, ArrangeInv, NEW c \in Slots, NEW t, Quiet(c, t), HoldsNothing(t) \/ HoldsMore(c, t)
    PROVE  ArrangeInv'
<1>1. /\ UNCHANGED <<account, area, group, members, trail>> /\ task' = [task EXCEPT ![c] = t] /\ TaskIsTrue(t)
  BY DEF Quiet
<1>2. RowsGood /\ RowsTyped /\ TasksAreTrue /\ LocksArePlanned /\ ChecksHold /\ LocksExclude
  BY DEF ArrangeInv, RowsGood
<1>3. RowsGood' /\ RowsAdvance /\ \A d \in Slots : RowsKept(d)
  BY <1>1, <1>2, RowsSame
<1>4. DOMAIN task' = Slots /\ task'[c] = t /\ \A d \in Slots \ {c} : Stays(d)
  BY <1>1, <1>2, <1>3 DEF TasksAreTrue, Stays
<1>5. t.step = "locking" => IsPlanned(t) /\ IsChecked(t) /\ \A d \in Slots \ {c} : Range(t.locked) \cap Locked(d) = {}
  <2> SUFFICES ASSUME t.step = "locking"
               PROVE  IsPlanned(t) /\ IsChecked(t) /\ \A d \in Slots \ {c} : Range(t.locked) \cap Locked(d) = {}
    OBVIOUS
  <2>1. t.kind \in Forms
    BY <1>1, <1>2, FormFacts DEF TaskIsTrue, Free
  <2>2. CASE HoldsNothing(t)
    <3>1. t.locked = <<>>
      BY <2>2 DEF HoldsNothing
    <3>2. Range(t.locked) = {}
      BY <3>1 DEF Range
    <3> QED BY <2>1, <3>1, <3>2, NothingHeld
  <2>3. CASE HoldsMore(c, t)
    <3>1. /\ IsPlanned(t) /\ IsChecked(t)
          /\ Range(t.locked) = Locked(c) \cup {LockPlan(task[c])[Len(task[c].locked) + 1]}
      BY <1>2, <2>3, MoreHeld
    <3>2. \A d \in Slots \ {c} : LockPlan(task[c])[Len(task[c].locked) + 1] \notin Locked(d)
      BY <2>3 DEF HoldsMore, Waits, WaitsFor
    <3>3. \A d \in Slots \ {c} : Locked(c) \cap Locked(d) = {}
      BY <1>2 DEF LocksExclude
    <3> QED BY <3>1, <3>2, <3>3
  <2> QED BY <2>2, <2>3
<1>6. t.step = "locking" => IsPlanned(t)' /\ IsChecked(t)'
  <2> SUFFICES ASSUME t.step = "locking" PROVE IsPlanned(t)' /\ IsChecked(t)'
    OBVIOUS
  <2>1. t.kind \in Forms /\ t.locked \in Seq(Rows)
    BY <1>1, <1>2, FormFacts DEF TaskIsTrue, Free
  <2>2. Len(t.locked) \in Nat
    BY <2>1
  <2> QED BY <1>1, <1>5, <2>1, <2>2, FormKept
<1> QED BY <1>1, <1>3, <1>4, <1>5, <1>6, SlotsMove

LEMMA WriteKeeps ==
    ASSUME ArrangeAssumption, ArrangeInv, NEW c \in Slots, Write(c)
    PROVE  ArrangeInv'
<1>1. RowsGood /\ TasksAreTrue /\ LocksArePlanned /\ ChecksHold /\ LocksExclude
  BY DEF ArrangeInv, RowsGood
<1>2. RowsGood' /\ RowsAdvance /\ RowsTouched(c) /\ task' = [task EXCEPT ![c] = Free]
  BY <1>1, WriteStep DEF Written
<1>3. \A d \in Slots \ {c} : RowsKept(d)
  BY <1>1, <1>2, OthersKeep
<1>4. DOMAIN task' = Slots /\ task'[c] = Free /\ \A d \in Slots \ {c} : Stays(d)
  BY <1>1, <1>2, <1>3 DEF TasksAreTrue, Stays
<1>5. TaskIsTrue(Free) /\ Free.step # "locking"
  BY FreeIsTrue DEF Free
<1> QED BY <1>2, <1>4, <1>5, SlotsMove

LEMMA StandingKeeps ==
    ASSUME ArrangeAssumption, ArrangeInv, NEW u \in Users, ChangeStanding(u)
    PROVE  ArrangeInv'
<1>1. RowsGood /\ TasksAreTrue
  BY DEF ArrangeInv, RowsGood
<1>2. RowsGood' /\ RowsAdvance /\ \A d \in Slots : RowsKept(d)
  BY <1>1, StandingStep
<1>3. task' = task
  BY DEF ChangeStanding
<1>4. DOMAIN task' = Slots /\ \A d \in Slots : Stays(d)
  BY <1>1, <1>2, <1>3 DEF TasksAreTrue, Stays
<1> QED BY <1>2, <1>4, SlotsMove

LEMMA ArrangeInvStep ==
    ASSUME ArrangeAssumption, ArrangeInv, Next
    PROVE  ArrangeInv'
<1>1. RowsTyped /\ TasksAreTrue /\ LocksArePlanned
  BY DEF ArrangeInv
<1> QED BY <1>1, StepShapes, QuietKeeps, WriteKeeps, StandingKeeps

LEMMA ArrangeInvInit ==
    ASSUME ArrangeAssumption, Init
    PROVE  ArrangeInv
<1>1. RowsTyped
  BY DEF Init, RowsTyped, ArrangeAssumption, Roles, Bars
<1>2. \A c \in Slots : task[c] = Free /\ ~Locking(c)
  BY DEF Init, Free, Locking
<1>3. TasksAreTrue
  BY <1>2 DEF Init, TasksAreTrue, TaskIsTrue
<1>4. LocksArePlanned /\ ChecksHold /\ LocksExclude
  BY <1>2 DEF LocksArePlanned, ChecksHold, LocksExclude, Locked
<1>5. AreasFit
  BY DEF Init, AreasFit, AreasPresent
<1>6. SomebodyAdministers
  BY DEF Init, SomebodyAdministers, ArrangeAssumption
<1>7. TrailIsTheArea
  BY DEF Init, TrailIsTheArea
<1> QED BY <1>1, <1>3, <1>4, <1>5, <1>6, <1>7 DEF ArrangeInv

-----------------------------------------------------------------------------
(* What follows from the invariant. *)

LEMMA ArrangeTypes == RowsTyped /\ TasksAreTrue /\ TrailIsTheArea /\ ArrangeAssumption => TypeOK
<1> SUFFICES ASSUME RowsTyped, TasksAreTrue, TrailIsTheArea, ArrangeAssumption PROVE TypeOK
  OBVIOUS
<1>1. trail \in [Areas -> AreaRows \cup {Absent, Broken}]
  BY DEF RowsTyped, TrailIsTheArea
<1>2. ASSUME NEW c \in Slots, task[c] # Free
      PROVE  /\ task[c].step \in {"opened", "shown", "locking", "walking", "walked"}
             /\ task[c].actor \in Users
             /\ Locking(c) => task[c].kind \in Forms /\ task[c].locked \in Seq(Rows)
  <2>1. PICK t : t = task[c]
    OBVIOUS
  <2>2. TaskIsTrue(t) /\ t # Free
    BY <1>2, <2>1 DEF TasksAreTrue
  <2>3. t.step \in {"opened", "shown", "locking", "walking", "walked"} /\ t.actor \in Users
    BY <2>2 DEF TaskIsTrue
  <2>4. t.step = "locking" => t.kind \in Forms /\ t.locked \in Seq(Rows)
    BY <2>2, FormFacts DEF TaskIsTrue
  <2> QED BY <2>1, <2>3, <2>4 DEF Locking
<1> QED BY <1>1, <1>2 DEF TypeOK, RowsTyped

\* Counting the accounts: each is a member or an administrator.
LEMMA PagesServed == ArrangeAssumption /\ RowsTyped /\ AreasFit /\ SomebodyAdministers => PagesAreServed
<1> SUFFICES ASSUME ArrangeAssumption, RowsTyped, AreasFit, SomebodyAdministers PROVE PagesAreServed
  OBVIOUS
<1>1. ASSUME NEW a \in AreasPresent PROVE validAreaSummary(LoadAreaForAdministrationPage(a))
  <2>1. area[a] \in AreaRows
    BY DEF RowsTyped, AreasPresent
  <2>2. area[a].groups \in SUBSET Groups
    BY <2>1, AreaRowFacts DEF ArrangeAssumption
  <2>3. IsFiniteSet(area[a].groups)
    BY <2>2, FS_Subset DEF ArrangeAssumption
  <2>4. Cardinality(area[a].groups) \in Nat /\ (Cardinality(area[a].groups) = 0 <=> area[a].groups = {})
    BY <2>3, FS_CardinalityType, FS_EmptySet
  <2>5. Cardinality(area[a].groups) > 0 <=> area[a].groups # {}
    BY <2>4
  <2>6. (area[a].visibility = "groups") <=> (area[a].groups # {})
    BY DEF AreasFit
  <2> QED BY <2>5, <2>6 DEF validAreaSummary, LoadAreaForAdministrationPage
<1>2. LoadDashboard(LoadAdministrationDashboard)
  <2> DEFINE M == {u \in Users : account[u].role = "member"}
             A == {u \in Users : account[u].role = "administrator"}
             S == {u \in Users : account[u].bar = "suspended"}
  <2>1. IsFiniteSet(Users) /\ M \subseteq Users /\ A \subseteq Users /\ S \subseteq Users
    BY DEF ArrangeAssumption
  <2>2. IsFiniteSet(M) /\ IsFiniteSet(A) /\ IsFiniteSet(S)
    BY <2>1, FS_Subset
  <2>3. M \cap A = {} /\ A # {}
    BY DEF SomebodyAdministers
  <2>4. M \cup A = Users
    <3>1. \A u \in Users : account[u] \in [role : Roles, bar : Bars, revision : 1..MaxRevision]
      BY DEF RowsTyped
    <3>2. \A u \in Users : account[u].role \in Roles
      BY <3>1
    <3> QED BY <3>2 DEF Roles
  <2>5. Cardinality(S) <= Cardinality(Users)
    BY <2>1, FS_Subset
  <2> HIDE DEF M, A, S
  <2>6. Cardinality(M \cup A) = Cardinality(M) + Cardinality(A) - Cardinality(M \cap A)
    BY <2>2, FS_Union
  <2>7. Cardinality({}) = 0 /\ (Cardinality(A) = 0 <=> A = {})
    BY <2>2, FS_EmptySet
  <2>8. Cardinality(M) \in Nat /\ Cardinality(A) \in Nat
    BY <2>2, FS_CardinalityType
  <2>9. Cardinality(M) + Cardinality(A) = Cardinality(Users) /\ Cardinality(A) >= 1
    <3>1. Cardinality(M \cap A) = 0 /\ Cardinality(A) # 0
      BY <2>3, <2>7
    <3>2. Cardinality(Users) = Cardinality(M) + Cardinality(A) - Cardinality(M \cap A)
      BY <2>4, <2>6
    <3>3. \A m, a \in Nat : \A n, u : n = 0 /\ u = m + a - n /\ a # 0 => m + a = u /\ a >= 1
      OBVIOUS
    <3> QED BY <2>8, <3>1, <3>2, <3>3
  <2>10. LoadAdministrationDashboard = [users |-> Cardinality(Users), members |-> Cardinality(M),
                                        administrators |-> Cardinality(A), suspended |-> Cardinality(S)]
    BY DEF LoadAdministrationDashboard, M, A, S
  <2> QED BY <2>5, <2>9, <2>10 DEF LoadDashboard
<1> QED BY <1>1, <1>2 DEF PagesAreServed

\* Whoever writes holds the rows of the accounts, which passed their check.
LEMMA WritersMay ==
    ASSUME ArrangeAssumption, ArrangeInv, NEW c \in Slots, Write(c)
    PROVE  /\ UsersAccepted(task[c]) /\ task' = [task EXCEPT ![c] = Free]
           /\ task[c] # Free /\ DOMAIN task = Slots
<1>1. RowsGood /\ RowsTyped /\ TasksAreTrue /\ LocksArePlanned /\ ChecksHold
  BY DEF ArrangeInv, RowsGood
<1>2. PICK kind : Ready(c, kind)
  BY DEF Write, CreateAreaCompletion, UpdateAreaCompletion, ChangeAreaGroup, CreateGroup, RenameGroup,
         ChangeGroupMembership
<1>3. UsersAccepted(task[c])
  BY <1>1, <1>2, ReadyHolds
<1>4. task' = [task EXCEPT ![c] = Free] /\ Locking(c)
  BY <1>1, WriteStep
<1>5. task[c] # Free
  BY <1>4 DEF Locking, Free
<1> QED BY <1>1, <1>3, <1>4, <1>5 DEF TasksAreTrue

LEMMA AuthorityStep ==
    ASSUME ArrangeAssumption, ArrangeInv, Next
    PROVE  ChangeIsAuthorised
<1> USE DEF ChangeIsAuthorised
<1>1. RowsTyped /\ TasksAreTrue /\ LocksArePlanned
  BY DEF ArrangeInv
<1>2. CASE \E c \in Slots : \E t : Quiet(c, t)
  BY <1>2 DEF Quiet
<1>3. CASE \E u \in Users : ChangeStanding(u)
  BY <1>3 DEF ChangeStanding
<1>4. ASSUME NEW c \in Slots, Write(c)
      PROVE  \A d \in Slots : task'[d] # task[d] => validLockedAdministrator(task[d].actor)
  <2>1. UsersAccepted(task[c]) /\ task' = [task EXCEPT ![c] = Free]
    BY <1>4, WritersMay
  <2>2. \A d \in Slots : task'[d] # task[d] => d = c
    BY <2>1
  <2> QED BY <2>1, <2>2 DEF UsersAccepted
<1> QED BY <1>1, <1>2, <1>3, <1>4, StepShapes

\* A page that showed the revision that is there showed what is there.
LEMMA PageOfArea ==
    ASSUME NEW id, NEW page, ShownIsTrue("area", id, page), page.row.revision = area[id].revision
    PROVE  page = Joined(Loaded("area", id), Listed("area", id))
<1>1. page.row = LoadAreaForAdministrationPage(id) /\ page.groups = area[id].groups
  BY DEF ShownIsTrue, RowIsTrue, GroupsAreTrue
<1>2. Loaded("area", id) = [row |-> page.row] /\ Listed("area", id) = [groups |-> page.groups]
  BY <1>1 DEF Loaded, Listed, ListAreaGroupsForAdministrationPage
<1> QED BY <1>2 DEF ShownIsTrue

LEMMA PageOfAccount ==
    ASSUME NEW id, NEW page, ShownIsTrue("account", id, page), page.row.revision = account[id].revision
    PROVE  page = Joined(Loaded("account", id), Listed("account", id))
<1>1. page.row = LoadAccountForAdministration(id) /\ page.groups = ListAccountGroupsForAdministration(id)
  BY DEF ShownIsTrue, RowIsTrue, GroupsAreTrue
<1>2. Loaded("account", id) = [row |-> page.row] /\ Listed("account", id) = [groups |-> page.groups]
  BY <1>1 DEF Loaded, Listed
<1> QED BY <1>2 DEF ShownIsTrue

LEMMA PageStep ==
    ASSUME ArrangeAssumption, ArrangeInv, Next
    PROVE  ChangeIsAsShown
<1> USE DEF ChangeIsAsShown
<1>1. RowsGood /\ RowsTyped /\ TasksAreTrue /\ LocksArePlanned /\ ChecksHold
  BY DEF ArrangeInv, RowsGood
<1>2. area \in [Areas -> AreaRows \cup {Absent}]
  BY <1>1 DEF RowsTyped
<1>3. CASE \E c \in Slots : \E t : Quiet(c, t)
  BY <1>3 DEF Quiet
<1>4. CASE \E u \in Users : ChangeStanding(u)
  BY <1>4 DEF ChangeStanding
<1>5. ASSUME NEW c \in Slots, CreateAreaCompletion(c)
      PROVE  \E a \in Areas : area[a] = Absent /\ area' = [area EXCEPT ![a] = area'[a]] /\ members' = members
  <2>1. PICK a \in Areas \ AreasPresent : \E row : area' = [area EXCEPT ![a] = row]
    BY <1>5 DEF CreateAreaCompletion
  <2>2. area[a] = Absent /\ a \in Areas
    BY <2>1 DEF AreasPresent
  <2>3. area' = [area EXCEPT ![a] = area'[a]]
    BY <1>2, <2>1, <2>2
  <2> QED BY <1>5, <2>2, <2>3 DEF CreateAreaCompletion
<1>6. ASSUME NEW c \in Slots, UpdateAreaCompletion(c) \/ ChangeAreaGroup(c)
      PROVE  LET t == task[c] IN
             /\ t # Free /\ task'[c] = Free /\ t.kind \in {"update_area", "area_group"}
             /\ area' = [area EXCEPT ![t.id] = area'[t.id]] /\ members' = members
             /\ t.page = Joined(Loaded("area", t.id), Listed("area", t.id))
  <2>1. task[c] # Free /\ task'[c] = Free
    BY <1>6, WritersMay DEF Write
  <2>2. PICK kind \in {"update_area", "area_group"} : Ready(c, kind)
    BY <1>6 DEF UpdateAreaCompletion, ChangeAreaGroup
  <2>3. /\ task[c].id \in Areas /\ task[c].kind = kind /\ FormIsTrue(task[c])
        /\ task[c].page.row.revision = area[task[c].id].revision
    BY <1>1, <2>2, AreaFound
  <2>4. ShownIsTrue("area", task[c].id, task[c].page)
    BY <2>2, <2>3 DEF FormIsTrue
  <2>5. task[c].page = Joined(Loaded("area", task[c].id), Listed("area", task[c].id))
    BY <2>3, <2>4, PageOfArea
  <2>6. \E row : area' = [area EXCEPT ![task[c].id] = row]
    BY <1>6 DEF UpdateAreaCompletion, ChangeAreaGroup
  <2>7. area' = [area EXCEPT ![task[c].id] = area'[task[c].id]]
    BY <1>2, <2>3, <2>6
  <2>8. members' = members
    BY <1>6 DEF UpdateAreaCompletion, ChangeAreaGroup
  <2> QED BY <2>1, <2>2, <2>3, <2>5, <2>7, <2>8
<1>7. ASSUME NEW c \in Slots, ChangeGroupMembership(c)
      PROVE  LET t == task[c] IN
             /\ t # Free /\ task'[c] = Free /\ t.kind = "membership"
             /\ \A m \in members \cup members' : m \in members \cap members' \/ m[1] = t.id
             /\ area' = area
             /\ t.page = Joined(Loaded("account", t.id), Listed("account", t.id))
  <2>1. task[c] # Free /\ task'[c] = Free
    BY <1>7, WritersMay DEF Write
  <2>2. Ready(c, "membership")
    BY <1>7 DEF ChangeGroupMembership
  <2>3. task[c].kind = "membership" /\ FormIsTrue(task[c]) /\ UsersAccepted(task[c])
    BY <1>1, <2>2, ReadyHolds
  <2>4. ShownIsTrue("account", task[c].id, task[c].page)
    BY <2>3 DEF FormIsTrue
  <2>5. task[c].page.row.revision = account[task[c].id].revision
    BY <2>3 DEF UsersAccepted, Stale
  <2>6. task[c].page = Joined(Loaded("account", task[c].id), Listed("account", task[c].id))
    BY <2>4, <2>5, PageOfAccount
  <2>7. \/ members' = members \cup {<<task[c].id, task[c].wish.group>>}
        \/ members' = members \ {<<task[c].id, task[c].wish.group>>}
    BY <1>7 DEF ChangeGroupMembership, GrantAdministrationMembershipAndAudit,
                RevokeAdministrationMembershipAndAudit
  <2>8. \A m \in members \cup members' : m \in members \cap members' \/ m[1] = task[c].id
    <3>1. \A x, y : <<x, y>>[1] = x
      OBVIOUS
    <3> QED BY <2>7, <3>1
  <2>9. area' = area
    BY <1>7 DEF ChangeGroupMembership
  <2> QED BY <2>1, <2>3, <2>6, <2>8, <2>9
<1>8. ASSUME NEW c \in Slots, CreateGroup(c) \/ RenameGroup(c)
      PROVE  <<area, members>>' = <<area, members>>
  BY <1>8 DEF CreateGroup, RenameGroup
<1>9. ASSUME NEW c \in Slots, Write(c)
      PROVE  \/ CreateAreaCompletion(c) \/ (UpdateAreaCompletion(c) \/ ChangeAreaGroup(c))
             \/ ChangeGroupMembership(c) \/ (CreateGroup(c) \/ RenameGroup(c))
  BY <1>9 DEF Write
<1>10. CASE \E c \in Slots : Write(c)
  BY <1>5, <1>6, <1>7, <1>8, <1>9, <1>10
<1> QED BY <1>1, <1>3, <1>4, <1>10, StepShapes

-----------------------------------------------------------------------------
(* Theorems, for all constants of which the assumption holds. *)

LEMMA ArrangeInvariance ==
    ASSUME ArrangeAssumption
    PROVE  Spec => []ArrangeInv
<1>1. Init => ArrangeInv
  BY ArrangeInvInit
<1>2. ArrangeInv /\ [Next]_vars => ArrangeInv'
  <2>1. ASSUME ArrangeInv, UNCHANGED vars PROVE ArrangeInv'
    <3>1. UNCHANGED <<account, area, group, members, trail>> /\ task' = task
      BY <2>1 DEF vars
    <3>2. RowsGood /\ TasksAreTrue
      BY <2>1 DEF ArrangeInv, RowsGood
    <3>3. RowsGood' /\ RowsAdvance /\ \A d \in Slots : RowsKept(d)
      BY <3>1, <3>2, RowsSame
    <3>4. DOMAIN task' = Slots /\ \A d \in Slots : Stays(d)
      BY <3>1, <3>2, <3>3 DEF TasksAreTrue, Stays
    <3> QED BY <2>1, <3>3, <3>4, SlotsMove
  <2> QED BY <2>1, ArrangeInvStep
<1> QED BY <1>1, <1>2, PTL DEF Spec

\* Whatever order forms and requests come in, no page refuses to show an area
\* or the dashboard, the audit records of an area tell its row, and a walk that
\* has come to the end of a list has seen once each row that kept its place.
THEOREM AreasAreServed ==
    ASSUME ArrangeAssumption
    PROVE  Spec => [](TypeOK /\ PagesAreServed /\ TrailIsTheArea /\ WalksListEverything)
<1>1. ArrangeInv => TypeOK /\ PagesAreServed /\ TrailIsTheArea /\ WalksListEverything
  BY ArrangeTypes, PagesServed, WalksListed DEF ArrangeInv
<1> QED BY <1>1, ArrangeInvariance, PTL

\* No set of transactions, however many, waits only for rows of its own members.
THEOREM AreasNeverDeadlock ==
    ASSUME ArrangeAssumption
    PROVE  Spec => []NoWaitCycle
<1>1. ArrangeInv => NoWaitCycle
  BY NoRing DEF ArrangeInv
<1> QED BY <1>1, ArrangeInvariance, PTL

\* Who changes an area, a group or a membership is an administrator in good
\* standing in the very state that the change is made in.
THEOREM AreasNeedAuthority ==
    ASSUME ArrangeAssumption
    PROVE  Spec => AuthorityAtCommit
<1>1. ArrangeInv /\ [Next]_vars => [ChangeIsAuthorised]_vars
  BY AuthorityStep
<1> QED BY <1>1, ArrangeInvariance, PTL DEF Spec, AuthorityAtCommit

\* What a form changes is what its page showed: the row, and the groups that
\* another statement read.
THEOREM AreasChangeAsShown ==
    ASSUME ArrangeAssumption
    PROVE  Spec => FormsAreOfTheirPage
<1>1. ArrangeInv /\ [Next]_vars => [ChangeIsAsShown]_vars
  BY PageStep
<1> QED BY <1>1, ArrangeInvariance, PTL DEF Spec, FormsAreOfTheirPage
=============================================================================
