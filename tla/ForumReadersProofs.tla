------------------------- MODULE ForumReadersProofs -------------------------
(***************************************************************************)
(* Proofs about what the forum shows, for every number of accounts, areas, *)
(* posts, rows and keys, and about the four services together.             *)
(*                                                                         *)
(* Reading (Read!): the number of a post counts its topic's posts up to    *)
(* it, a mark knows no more than its topic has, and one that found less    *)
(* than it chose holds the row until it commits.  Pages are ranks in the   *)
(* order of the thread.                                                    *)
(*                                                                         *)
(* Discovery (Discover!): a page is the first ranks of what lies before a  *)
(* cursor, so a walk has shown every post up to its cursor; a cursor stays *)
(* in the window of its key, and the key in the ring while it is young.    *)
(***************************************************************************)
EXTENDS ForumServicesProofs

-----------------------------------------------------------------------------
(* A finite set in a strict order, given as a set of pairs: the rank of an    *)
(* element is the number of those before it.                                  *)

Orders(R, S) ==
    /\ \A x \in S : <<x, x>> \notin R
    /\ \A x, y \in S : x = y \/ <<x, y>> \in R \/ <<y, x>> \in R
    /\ \A x, y, z \in S : <<x, y>> \in R /\ <<y, z>> \in R => <<x, z>> \in R
Preceding(R, S, x) == {y \in S : <<y, x>> \in R}
Rank(R, S, x) == Cardinality(Preceding(R, S, x))

LEMMA RankIsStrict ==
    ASSUME NEW S, IsFiniteSet(S), NEW R, Orders(R, S)
    PROVE  /\ Cardinality(S) \in Nat
           /\ \A x \in S : Rank(R, S, x) \in Nat /\ Rank(R, S, x) < Cardinality(S)
           /\ \A x, y \in S : <<x, y>> \in R <=> Rank(R, S, x) < Rank(R, S, y)
           /\ \A x, y \in S : Rank(R, S, x) = Rank(R, S, y) => x = y
<1>1. ASSUME NEW x \in S
      PROVE  /\ IsFiniteSet(Preceding(R, S, x)) /\ Rank(R, S, x) \in Nat
             /\ IsFiniteSet(Preceding(R, S, x) \cup {x})
             /\ Cardinality(Preceding(R, S, x) \cup {x}) = Rank(R, S, x) + 1
  <2>1. Preceding(R, S, x) \in SUBSET S /\ x \notin Preceding(R, S, x)
    BY DEF Preceding, Orders
  <2>2. IsFiniteSet(Preceding(R, S, x))
    BY <2>1, FS_Subset
  <2> QED BY <2>1, <2>2, FS_AddElement, FS_CardinalityType DEF Rank
<1>2. Cardinality(S) \in Nat
  BY FS_CardinalityType
<1>3. ASSUME NEW x \in S PROVE Rank(R, S, x) < Cardinality(S)
  <2>1. Preceding(R, S, x) \cup {x} \in SUBSET S
    BY DEF Preceding
  <2>2. Cardinality(Preceding(R, S, x) \cup {x}) <= Cardinality(S)
    BY <2>1, FS_Subset
  <2> QED BY <1>1, <1>2, <2>2
<1>4. ASSUME NEW x \in S, NEW y \in S, <<x, y>> \in R PROVE Rank(R, S, x) < Rank(R, S, y)
  <2>1. Preceding(R, S, x) \cup {x} \in SUBSET Preceding(R, S, y)
    BY <1>4 DEF Preceding, Orders
  <2>2. Cardinality(Preceding(R, S, x) \cup {x}) <= Cardinality(Preceding(R, S, y))
    BY <1>1, <2>1, FS_Subset
  <2>3. Cardinality(Preceding(R, S, x) \cup {x}) = Rank(R, S, x) + 1 /\ Rank(R, S, x) \in Nat
    BY <1>1
  <2>4. Cardinality(Preceding(R, S, y)) = Rank(R, S, y) /\ Rank(R, S, y) \in Nat
    BY <1>1 DEF Rank
  <2> QED BY <2>2, <2>3, <2>4
<1>5. ASSUME NEW x \in S, NEW y \in S, ~(<<x, y>> \in R) PROVE x = y \/ <<y, x>> \in R
  BY <1>5 DEF Orders
<1>6. ASSUME NEW x \in S, NEW y \in S
      PROVE  /\ <<x, y>> \in R <=> Rank(R, S, x) < Rank(R, S, y)
             /\ Rank(R, S, x) = Rank(R, S, y) => x = y
  <2>1. Rank(R, S, x) \in Nat /\ Rank(R, S, y) \in Nat
    BY <1>1
  <2>2. CASE x = y
    BY <2>1, <2>2 DEF Orders
  <2>3. CASE <<x, y>> \in R
    BY <1>4, <2>1, <2>3
  <2>4. CASE <<y, x>> \in R
    <3>1. Rank(R, S, y) < Rank(R, S, x)
      BY <1>4, <2>4
    <3>2. ~(<<x, y>> \in R)
      BY <1>4, <2>1, <3>1
    <3> QED BY <2>1, <3>1, <3>2
  <2> QED BY <2>2, <2>3, <2>4 DEF Orders
<1> QED BY <1>1, <1>2, <1>3, <1>6

\* Every number below the size of the set is a rank.
LEMMA RankIsTaken ==
    ASSUME NEW S, IsFiniteSet(S), NEW R, Orders(R, S), NEW i \in Nat, i < Cardinality(S)
    PROVE  \E x \in S : Rank(R, S, x) = i
<1> DEFINE n == Cardinality(S)
           f == [x \in S |-> Rank(R, S, x)]
<1>1. n \in Nat /\ f \in Injection(S, 0..(n - 1))
  <2>1. /\ n \in Nat
        /\ \A x \in S : Rank(R, S, x) \in Nat /\ Rank(R, S, x) < n
        /\ \A x, y \in S : Rank(R, S, x) = Rank(R, S, y) => x = y
    BY RankIsStrict
  <2> HIDE DEF n
  <2>2. \A x \in S : Rank(R, S, x) \in 0..(n - 1)
    BY <2>1
  <2> QED BY <2>1, <2>2 DEF Injection, IsInjective
<1>2. IsFiniteSet(0..(n - 1)) /\ Cardinality(0..(n - 1)) = n
  BY <1>1, FS_Interval
<1>3. f \in Surjection(S, 0..(n - 1))
  BY <1>1, <1>2, FS_Injection
<1>4. i \in 0..(n - 1)
  BY <1>1
<1> QED BY <1>3, <1>4 DEF Surjection

\* As many elements have their rank in a set of ranks as the set has members.
LEMMA RanksCount ==
    ASSUME NEW S, IsFiniteSet(S), NEW R, Orders(R, S),
           NEW I \in SUBSET Nat, \A i \in I : i < Cardinality(S)
    PROVE  /\ IsFiniteSet({x \in S : Rank(R, S, x) \in I})
           /\ Cardinality({x \in S : Rank(R, S, x) \in I}) = Cardinality(I)
<1> DEFINE T == {x \in S : Rank(R, S, x) \in I}
           g == [x \in T |-> Rank(R, S, x)]
<1>1. g \in Bijection(T, I)
  <2>1. \A x, y \in T : g[x] = g[y] => x = y
    BY RankIsStrict
  <2>2. \A i \in I : \E x \in T : g[x] = i
    BY RankIsTaken
  <2> QED BY <2>1, <2>2 DEF Bijection, Injection, Surjection, IsInjective
<1>2. IsFiniteSet(T) /\ T \in SUBSET S
  BY FS_Subset
<1>3. Cardinality(T) = Cardinality(I)
  BY <1>1, <1>2, FS_Bijection DEF ExistsBijection
<1> QED BY <1>2, <1>3

LEMMA UpTo ==
    ASSUME NEW n \in Nat
    PROVE  IsFiniteSet(1..n) /\ Cardinality(1..n) = n
BY FS_Interval

\* A set that is not empty has a first and a last element.
LEMMA OrderEnds ==
    ASSUME NEW S, IsFiniteSet(S), S # {}, NEW R, Orders(R, S)
    PROVE  /\ \E x \in S : \A y \in S : <<y, x>> \notin R
           /\ \E x \in S : \A y \in S : <<x, y>> \notin R
<1> DEFINE n == Cardinality(S)
<1>1. n \in Nat /\ n # 0
  BY FS_CardinalityType, FS_EmptySet
<1>2. 0 \in Nat /\ 0 < n /\ n - 1 \in Nat /\ n - 1 < n
  BY <1>1
<1>3. PICK x \in S : Rank(R, S, x) = 0
  BY <1>2, RankIsTaken
<1>4. PICK y \in S : Rank(R, S, y) = n - 1
  BY <1>2, RankIsTaken
<1>5. /\ \A m \in S : Rank(R, S, m) \in Nat /\ Rank(R, S, m) < n
      /\ \A m, k \in S : <<m, k>> \in R <=> Rank(R, S, m) < Rank(R, S, k)
  BY RankIsStrict
<1> HIDE DEF n
<1> QED BY <1>1, <1>3, <1>4, <1>5

LEMMA Extremes ==
    ASSUME NEW S \in SUBSET Int, IsFiniteSet(S), S # {}
    PROVE  /\ \E n \in S : \A m \in S : n <= m
           /\ \E n \in S : \A m \in S : m <= n
<1> DEFINE R == {r \in S \X S : r[1] < r[2]}
<1>1. \A x, y \in S : <<x, y>> \in R <=> x < y
  OBVIOUS
<1> HIDE DEF R
<1>2. Orders(R, S)
  BY <1>1 DEF Orders
<1>3. /\ \E x \in S : \A y \in S : <<y, x>> \notin R
      /\ \E x \in S : \A y \in S : <<x, y>> \notin R
  BY <1>2, OrderEnds, Zenon
<1>4. PICK x \in S : \A m \in S : ~(m < x)
  BY <1>1, <1>3
<1>5. PICK y \in S : \A m \in S : ~(y < m)
  BY <1>1, <1>3
<1>6. \A m \in S : x <= m /\ m <= y
  BY <1>4, <1>5
<1> QED BY <1>6

-----------------------------------------------------------------------------
(* Reading: what is always true of posts, markers and requests. *)

LEMMA SameCounts ==
    /\ \A S : Read!Cardinality(S) = Cardinality(S)
    /\ \A S : Read!IsFiniteSet(S) <=> IsFiniteSet(S)
<1>1. ASSUME NEW S PROVE Read!Cardinality(S) = Cardinality(S)
  BY DEF Read!Cardinality, Cardinality
<1>2. ASSUME NEW S PROVE Read!IsFiniteSet(S) <=> IsFiniteSet(S)
  BY DEF Read!IsFiniteSet, IsFiniteSet
<1> QED BY <1>1, <1>2

\* Posts of a topic have the numbers 1, 2, ... in the order of their ids, and
\* a reply's path is that of an earlier post of its topic and its own number.
NumbersCount ==
    \A p \in DOMAIN entries :
      entries[p].number = Cardinality({q \in Read!PostsOf(entries[p].topic) : q <= p})
PathsGrow ==
    \A p \in DOMAIN entries :
      LET path == entries[p].thread_path IN
      \/ path = <<entries[p].number>>
      \/ \E q \in DOMAIN entries :
           q < p /\ entries[q].topic = entries[p].topic
           /\ path = Append(entries[q].thread_path, entries[p].number)
RedactedIsDeleted == \A p \in DOMAIN entries : entries[p].redacted => entries[p].deleted

Held(t) == Cardinality(Read!PostsOf(t))
MarkersFit == \A u \in Read!Accounts, t \in ReadTopics : marker[u][t] <= Held(t)

\* A request knows no more than the topic has; what it has chosen to store is
\* more than what is stored, until it commits, and it is alone with the row.
MarkStands(x) ==
    LET stored == marker[x.user][x.topic] IN
    /\ x.next <= Held(x.topic) + 1 /\ x.selected < x.next
    /\ \A n \in x.seen : n <= x.selected
    /\ x.advanced => x.selected > 0
    /\ x.step \in {"begin", "selected"} => ~x.advanced
    /\ x.step = "upserted" /\ ~x.advanced => x.selected <= stored
    /\ x.step \in {"ok", "refused"} => x.selected <= stored
    /\ x.step = "refused" => x.next <= stored
MarksStand == \A c \in Slots : call[c] # Read!Free => MarkStands(call[c])
MarkAdvances(c) == call[c].step = "upserted" /\ call[c].advanced
AdvancesAlone ==
    \A c \in Slots : MarkAdvances(c) =>
      /\ call[c].selected > marker[call[c].user][call[c].topic]
      /\ \A d \in Slots \ {c} : call[d].step = "upserted" /\ call[d].selected > 0
                                => call[d].user # call[c].user \/ call[d].topic # call[c].topic

ReadInv == /\ Read!TypeOK /\ NumbersCount /\ PathsGrow /\ RedactedIsDeleted
           /\ MarkersFit /\ MarksStand /\ AdvancesAlone

-----------------------------------------------------------------------------
(* Reading: what a step can do. *)

\* A step of a request: its record changes, and perhaps the marker of its topic.
Requests(c, x) == /\ c \in Slots /\ x \in {Read!Free} \cup Read!Calls
                  /\ call' = [call EXCEPT ![c] = x] /\ UNCHANGED <<area, topic, entries>>
MarkBegins(c, x) == /\ Requests(c, x) /\ x \in Read!Calls /\ UNCHANGED marker
                /\ x.step = "begin" /\ x.next = 1 /\ x.selected = 0 /\ ~x.advanced /\ x.seen = {}
Selects(c, x) == /\ Requests(c, x) /\ UNCHANGED marker /\ call[c] \in Read!Calls
                 /\ x = [call[c] EXCEPT !.step = "selected", !.next = Held(call[c].topic) + 1,
                                        !.selected = Read!ReadHead(call[c].user, call[c].topic),
                                        !.seen = Read!Numbers(Read!Eligible(call[c].user, call[c].topic))]
                 /\ ~call[c].advanced
Upserts(c, x) == /\ Requests(c, x) /\ UNCHANGED marker /\ call[c] \in Read!Calls
                 /\ call[c].step = "selected" /\ (call[c].selected > 0 => ~Read!MarkerLocked(c))
                 /\ x = [call[c] EXCEPT !.step = "upserted",
                                        !.advanced = call[c].selected > marker[call[c].user][call[c].topic]]
\* The end of a request stores what it chose, or keeps what is there.
Ends(c, x) == /\ Requests(c, x) /\ call[c] \in Read!Calls /\ call[c].step = "upserted"
              /\ \/ /\ x = [call[c] EXCEPT !.step = "ok"] /\ call[c].advanced
                    /\ marker' = [marker EXCEPT ![call[c].user][call[c].topic] = call[c].selected]
                 \/ /\ x = [call[c] EXCEPT !.step = "ok"] /\ ~call[c].advanced /\ UNCHANGED marker
                 \/ /\ x = [call[c] EXCEPT !.step = "refused"] /\ UNCHANGED marker
                    /\ call[c].selected <= marker[call[c].user][call[c].topic]
                    /\ call[c].next <= marker[call[c].user][call[c].topic]
Leaves(c, x) == Requests(c, x) /\ x = Read!Free /\ UNCHANGED marker

AddsPost(x) == /\ x \in Read!PostRows /\ Len(entries) < EntriesKept /\ entries' = Append(entries, x)
               /\ x.number = Held(x.topic) + 1 /\ ~x.redacted
               /\ \E q \in DOMAIN entries :
                    entries[q].topic = x.topic /\ x.thread_path = Append(entries[q].thread_path, x.number)
               /\ UNCHANGED <<area, topic, marker, call>>
ChangesPost(p, x) == /\ p \in DOMAIN entries /\ x \in Read!PostRows
                     /\ x.topic = entries[p].topic /\ x.number = entries[p].number
                     /\ x.thread_path = entries[p].thread_path /\ (x.redacted => x.deleted)
                     /\ entries' = [entries EXCEPT ![p] = x]
                     /\ UNCHANGED <<area, topic, marker, call>>
Closes == /\ UNCHANGED <<entries, marker, call>>
          /\ topic' \in [ReadTopics -> {"open", "hidden", "deleted"}]
          /\ area' \in [ReadAreas -> Read!AreaRows]

ReadShape ==
    \/ \E c, x : MarkBegins(c, x) \/ Selects(c, x) \/ Upserts(c, x) \/ Ends(c, x) \/ Leaves(c, x)
    \/ \E x : AddsPost(x)
    \/ \E p, x : ChangesPost(p, x)
    \/ Closes
    \/ UNCHANGED readVars

-----------------------------------------------------------------------------
(* Reading: posts of a topic, and the numbers in use. *)

LEMMA HeldFits ==
    ASSUME Read!TypeOK, NEW t
    PROVE  /\ IsFiniteSet(Read!PostsOf(t)) /\ Held(t) \in Nat /\ Held(t) <= Len(entries)
           /\ Len(entries) \in Nat /\ Len(entries) <= EntriesKept /\ EntriesKept \in Nat
           /\ DOMAIN entries = 1..Len(entries) /\ Read!PostsOf(t) \in SUBSET (1..Len(entries))
<1>1. entries \in Seq(Read!PostRows) /\ Len(entries) <= EntriesKept
  BY DEF Read!TypeOK
<1>2. Len(entries) \in Nat /\ DOMAIN entries = 1..Len(entries)
  BY <1>1, LenProperties
<1>3. IsFiniteSet(1..Len(entries)) /\ Cardinality(1..Len(entries)) = Len(entries)
  BY <1>2, UpTo
<1>4. Read!PostsOf(t) \in SUBSET (1..Len(entries))
  BY <1>2 DEF Read!PostsOf
<1> QED BY <1>1, <1>2, <1>3, <1>4, FS_Subset, FS_CardinalityType, PartsAssumption
        DEF Held, Read!ReadingAssumption

LEMMA NumbersFit ==
    ASSUME Read!TypeOK, NumbersCount, NEW p \in DOMAIN entries
    PROVE  /\ entries[p] \in Read!PostRows
           /\ entries[p].number \in 1..EntriesKept
           /\ entries[p].number <= Held(entries[p].topic)
           /\ \A q \in DOMAIN entries : q # p /\ entries[q].topic = entries[p].topic
                                        => entries[q].number # entries[p].number
<1> DEFINE T == Read!PostsOf(entries[p].topic)
           Up(q) == {r \in T : r <= q}
<1>1. IsFiniteSet(T) /\ Cardinality(T) \in Nat /\ DOMAIN entries \in SUBSET Nat
  BY HeldFits, FS_CardinalityType
<1>2. ASSUME NEW q PROVE IsFiniteSet(Up(q)) /\ Up(q) \in SUBSET T /\ Cardinality(Up(q)) \in Nat /\ Cardinality(Up(q)) <= Cardinality(T)
  <2>1. Up(q) \in SUBSET T
    OBVIOUS
  <2> QED BY <1>1, <2>1, FS_Subset, FS_CardinalityType
<1>3. entries[p] \in Read!PostRows
  BY ElementOfSeq, HeldFits DEF Read!TypeOK
<1>4. \A q \in DOMAIN entries : entries[q].topic = entries[p].topic => entries[q].number = Cardinality(Up(q)) /\ q \in T
  BY DEF NumbersCount, Read!PostsOf
<1>5. ASSUME NEW q \in T, NEW r \in T, q < r PROVE Cardinality(Up(q)) < Cardinality(Up(r))
  <2>1. Up(q) \in SUBSET Up(r) /\ r \in Up(r) /\ r \notin Up(q)
    BY <1>1, <1>5 DEF Read!PostsOf
  <2>2. Cardinality(Up(q)) <= Cardinality(Up(r)) /\ Cardinality(Up(r)) # Cardinality(Up(q))
    BY <1>2, <2>1, FS_Subset
  <2> QED BY <1>2, <2>2
<1>6. ASSUME NEW q \in T, q # p PROVE Cardinality(Up(q)) # Cardinality(Up(p))
  <2>1. p \in T /\ q \in Nat /\ p \in Nat
    BY <1>1, <1>4 DEF Read!PostsOf
  <2>2. q < p \/ p < q
    BY <1>6, <2>1
  <2>3. Cardinality(Up(q)) \in Nat /\ Cardinality(Up(p)) \in Nat
    BY <1>2
  <2> HIDE DEF T, Up
  <2> QED BY <1>5, <2>1, <2>2, <2>3
<1> HIDE DEF T, Up
<1>7. entries[p].number \in 1..EntriesKept
  BY <1>3 DEF Read!PostRows
<1> QED BY <1>2, <1>3, <1>4, <1>6, <1>7 DEF Held, T

LEMMA ReadMax ==
    ASSUME NEW S \in SUBSET Int, IsFiniteSet(S), S # {}
    PROVE  Read!Max(S) \in S /\ \A m \in S : m <= Read!Max(S)
<1>1. PICK n \in S : \A m \in S : m <= n
  BY Extremes
<1>2. \A m \in S : n >= m
  BY <1>1
<1>3. Read!Max(S) \in S /\ \A m \in S : Read!Max(S) >= m
  BY <1>2 DEF Read!Max
<1> QED BY <1>3

LEMMA ReadMin ==
    ASSUME NEW S \in SUBSET Int, IsFiniteSet(S), S # {}
    PROVE  Read!Min(S) \in S /\ \A m \in S : Read!Min(S) <= m
<1>1. PICK n \in S : \A m \in S : n <= m
  BY Extremes
<1> QED BY <1>1 DEF Read!Min

\* The head of a topic is the greatest number that a reader has to read.
LEMMA HeadFits ==
    ASSUME Read!TypeOK, NumbersCount, NEW u, NEW t
    PROVE  /\ Read!ReadHead(u, t) \in Nat /\ Read!ReadHead(u, t) <= Held(t)
           /\ \A n \in Read!Numbers(Read!Eligible(u, t)) : n \in 1..EntriesKept /\ n <= Read!ReadHead(u, t)
           /\ Read!ReadHead(u, t) # 0 => Read!ReadHead(u, t) \in Read!Numbers(Read!Eligible(u, t))
<1> DEFINE S == {0} \cup Read!Numbers(Read!Eligible(u, t))
<1>1. \A p \in Read!Eligible(u, t) : p \in DOMAIN entries /\ entries[p].topic = t
  BY DEF Read!Eligible, Read!PostsOf
<1>2. \A n \in Read!Numbers(Read!Eligible(u, t)) : n \in 1..EntriesKept /\ n <= Held(t)
  BY <1>1, NumbersFit DEF Read!Numbers
<1>3. Held(t) \in Nat /\ EntriesKept \in Nat
  BY HeldFits
<1>4. S \in SUBSET Nat /\ S # {} /\ \A n \in S : n <= Held(t)
  BY <1>2, <1>3
<1>5. IsFiniteSet(S)
  BY <1>3, <1>4, FS_BoundedSetOfNaturals
<1>6. Read!Max(S) \in S /\ \A m \in S : m <= Read!Max(S)
  <2>1. S \in SUBSET Int
    BY <1>4
  <2> HIDE DEF S
  <2> QED BY <1>4, <1>5, <2>1, ReadMax
<1>7. Read!ReadHead(u, t) = Read!Max(S)
  BY DEF Read!ReadHead
<1> QED BY <1>2, <1>3, <1>4, <1>6, <1>7

LEMMA NextNumber == ASSUME NEW t PROVE Read!NextPostNumber(t) = 1 + Held(t)
BY SameCounts DEF Read!NextPostNumber, Held

LEMMA MarkCall ==
    ASSUME Read!TypeOK, NEW c \in Slots, call[c] # Read!Free
    PROVE  call[c] \in Read!Calls
BY DEF Read!TypeOK

\* What a step of a request does to its record keeps it one.
LEMMA MarkFields ==
    ASSUME NEW x \in Read!Calls
    PROVE  /\ x = [step |-> x.step, user |-> x.user, topic |-> x.topic, next |-> x.next,
                   selected |-> x.selected, advanced |-> x.advanced, seen |-> x.seen]
           /\ x.user \in Read!Accounts /\ x.topic \in ReadTopics /\ x.next \in 1..EntriesKept + 1
           /\ x.selected \in 0..EntriesKept /\ x.advanced \in BOOLEAN /\ x.seen \in SUBSET (1..EntriesKept)
           /\ x.step \in {"begin", "selected", "upserted", "ok", "refused"}
           /\ x # Read!Free
<1>1. x # Read!Free
  BY DEF Read!Calls, Read!Free
<1> QED BY <1>1 DEF Read!Calls

LEMMA ReadSteps ==
    ASSUME Read!TypeOK, NumbersCount, RedactedIsDeleted, MarksStand, [Read!Next]_(Read!vars)
    PROVE  ReadShape
<1>1. ASSUME NEW c \in Slots, NEW u \in Read!Accounts, NEW t \in ReadTopics, Read!StartMark(c, u, t)
      PROVE  \E x : MarkBegins(c, x)
  <2> DEFINE x == [step |-> "begin", user |-> u, topic |-> t, next |-> 1,
                   selected |-> 0, advanced |-> FALSE, seen |-> {}]
  <2>1. x \in Read!Calls
    BY <1>1, PartsAssumption DEF Read!Calls, Read!ReadingAssumption
  <2>2. MarkBegins(c, x)
    BY <1>1, <2>1 DEF Read!StartMark, MarkBegins, Requests
  <2> QED BY <2>2
<1>2. ASSUME NEW c \in Slots, Read!MarkTopicReadBoundary(c) PROVE \E x : Selects(c, x)
  <2>1. call[c] \in Read!Calls /\ call[c].step = "begin"
    BY <1>2, MarkCall DEF Read!MarkTopicReadBoundary, Read!Free
  <2> DEFINE u == call[c].user
             t == call[c].topic
             x == [call[c] EXCEPT !.step = "selected", !.next = Held(t) + 1,
                                  !.selected = Read!ReadHead(u, t),
                                  !.seen = Read!Numbers(Read!Eligible(u, t))]
  <2>2. Held(t) \in Nat /\ Held(t) <= EntriesKept /\ EntriesKept \in Nat
    BY HeldFits
  <2>3. /\ Read!ReadHead(u, t) \in 0..EntriesKept
        /\ Read!Numbers(Read!Eligible(u, t)) \in SUBSET (1..EntriesKept)
    BY <2>2, HeadFits
  <2>4. x \in Read!Calls
    <3>1. Held(t) + 1 \in 1..EntriesKept + 1
      BY <2>2
    <3> DEFINE n == Held(t) + 1
               h == Read!ReadHead(u, t)
               s == Read!Numbers(Read!Eligible(u, t))
    <3>2. n \in 1..EntriesKept + 1 /\ h \in 0..EntriesKept /\ s \in SUBSET (1..EntriesKept)
      BY <2>3, <3>1
    <3> HIDE DEF n, h, s
    <3>3. [call[c] EXCEPT !.step = "selected", !.next = n, !.selected = h, !.seen = s] \in Read!Calls
      BY <2>1, <3>2 DEF Read!Calls
    <3> QED BY <3>3 DEF n, h, s
  <2>5. ~call[c].advanced
    BY <2>1, MarkFields DEF MarksStand, MarkStands
  <2>6. call' = [call EXCEPT ![c] = x] /\ UNCHANGED <<area, topic, entries, marker>>
    <3>1. Read!NextPostNumber(t) = Held(t) + 1
      BY <2>2, NextNumber
    <3>2. /\ call' = [call EXCEPT ![c].step = "selected", ![c].next = Read!NextPostNumber(t),
                                  ![c].selected = Read!ReadHead(u, t),
                                  ![c].seen = Read!Numbers(Read!Eligible(u, t))]
          /\ UNCHANGED <<area, topic, entries, marker>>
      BY <1>2 DEF Read!MarkTopicReadBoundary
    <3> DEFINE n == Held(t) + 1
               h == Read!ReadHead(u, t)
               s == Read!Numbers(Read!Eligible(u, t))
    <3>3. call' = [call EXCEPT ![c].step = "selected", ![c].next = n, ![c].selected = h, ![c].seen = s]
      BY <3>1, <3>2
    <3> HIDE DEF n, h, s
    <3>4. call' = [call EXCEPT ![c] = [call[c] EXCEPT !.step = "selected", !.next = n, !.selected = h, !.seen = s]]
      BY <2>1, <3>3 DEF Read!TypeOK, Read!Calls
    <3> QED BY <3>2, <3>4 DEF n, h, s
  <2>7. Selects(c, x)
    BY <2>1, <2>4, <2>5, <2>6 DEF Selects, Requests
  <2> QED BY <2>7
<1>3. ASSUME NEW c \in Slots, Read!UpsertMarker(c) PROVE \E x : Upserts(c, x)
  <2>1. call[c] \in Read!Calls /\ call[c].step = "selected"
    BY <1>3, MarkCall DEF Read!UpsertMarker, Read!Free
  <2> DEFINE x == [call[c] EXCEPT !.step = "upserted",
                                  !.advanced = call[c].selected > marker[call[c].user][call[c].topic]]
  <2>2. x \in Read!Calls
    <3> DEFINE more == call[c].selected > marker[call[c].user][call[c].topic]
    <3>1. more \in BOOLEAN
      OBVIOUS
    <3> HIDE DEF more
    <3>2. [call[c] EXCEPT !.step = "upserted", !.advanced = more] \in Read!Calls
      BY <2>1, <3>1 DEF Read!Calls
    <3> QED BY <3>2 DEF more
  <2>3. call' = [call EXCEPT ![c] = x] /\ UNCHANGED <<area, topic, entries, marker>>
    BY <1>3, <2>1 DEF Read!UpsertMarker, Read!TypeOK, Read!Calls
  <2>4. Upserts(c, x)
    BY <1>3, <2>1, <2>2, <2>3 DEF Upserts, Requests, Read!UpsertMarker
  <2> QED BY <2>4
<1>4. ASSUME NEW c \in Slots, Read!MarkTopicRead(c) PROVE \E x : Ends(c, x)
  <2>1. call[c] \in Read!Calls /\ call[c].step = "upserted" /\ MarkStands(call[c])
    BY <1>4, MarkCall DEF Read!MarkTopicRead, Read!Free, MarksStand
  <2> DEFINE u == call[c].user
             t == call[c].topic
             stored == Read!GetTopicReadMarker(c)
             valid == \/ stored = 0 /\ call[c].selected = 0
                      \/ /\ stored > 0 /\ stored < call[c].next
                         /\ call[c].selected > 0 => stored >= call[c].selected
             x == [call[c] EXCEPT !.step = IF valid THEN "ok" ELSE "refused"]
  <2>2. /\ u \in Read!Accounts /\ t \in ReadTopics /\ call[c].selected \in Nat /\ call[c].next \in Nat
        /\ call[c].advanced \in BOOLEAN /\ marker[u][t] \in Nat
        /\ call[c].selected < call[c].next
        /\ call[c].advanced => call[c].selected > 0
        /\ ~call[c].advanced => call[c].selected <= marker[u][t]
    BY <2>1, MarkFields, HeldFits DEF MarkStands, Read!TypeOK
  <2>3. call' = [call EXCEPT ![c] = x] /\ UNCHANGED <<area, topic, entries>>
    BY <1>4, <2>1 DEF Read!MarkTopicRead, Read!TypeOK, Read!Calls
  <2>4. marker' = IF valid THEN [marker EXCEPT ![u][t] = stored] ELSE marker
    BY <1>4 DEF Read!MarkTopicRead
  <2>5. x \in Read!Calls
    BY <2>1 DEF Read!Calls
  <2>6. Requests(c, x)
    BY <2>3, <2>5 DEF Requests
  <2>7. CASE call[c].advanced
    <3>1. stored = call[c].selected /\ call[c].selected > 0
      BY <2>2, <2>7 DEF Read!GetTopicReadMarker
    <3>2. valid
      BY <2>2, <3>1
    <3> QED BY <2>1, <2>4, <2>6, <2>7, <3>1, <3>2 DEF Ends
  <2>8. CASE ~call[c].advanced /\ valid
    <3>1. stored = marker[u][t]
      BY <2>8 DEF Read!GetTopicReadMarker
    <3>2. [marker EXCEPT ![u][t] = marker[u][t]] = marker
      BY DEF Read!TypeOK
    <3> QED BY <2>1, <2>4, <2>6, <2>8, <3>1, <3>2 DEF Ends
  <2>9. CASE ~call[c].advanced /\ ~valid
    <3>1. stored = marker[u][t]
      BY <2>9 DEF Read!GetTopicReadMarker
    <3>2. call[c].next <= marker[u][t]
      BY <2>2, <2>9, <3>1
    <3> QED BY <2>1, <2>2, <2>4, <2>6, <2>9, <3>2 DEF Ends
  <2> QED BY <2>7, <2>8, <2>9
<1>5. ASSUME NEW c \in Slots, Read!Rollback(c) PROVE Leaves(c, Read!Free)
  BY <1>5 DEF Read!Rollback, Leaves, Requests
<1>6. ASSUME NEW u \in Read!Accounts, NEW p \in DOMAIN entries, Read!Reply(u, p) PROVE \E x : AddsPost(x)
  <2> DEFINE t == entries[p].topic
             n == Held(t) + 1
             x == [topic |-> t, number |-> n, thread_path |-> Append(entries[p].thread_path, n),
                   author |-> u, deleted |-> FALSE, redacted |-> FALSE]
  <2>1. entries[p] \in Read!PostRows
    BY NumbersFit
  <2>2. n \in 1..EntriesKept /\ Len(entries) < EntriesKept
    BY <1>6, HeldFits DEF Read!Reply
  <2>3. Append(entries[p].thread_path, n) \in Seq(1..EntriesKept)
    BY <2>1, <2>2, AppendProperties DEF Read!PostRows
  <2>4. x \in Read!PostRows
    BY <2>1, <2>2, <2>3 DEF Read!PostRows
  <2>5. entries' = Append(entries, x) /\ UNCHANGED <<area, topic, marker, call>>
    <3>1. Read!NextPostNumber(t) = n
      BY NextNumber, HeldFits
    <3> HIDE DEF n
    <3> QED BY <1>6, <3>1 DEF Read!Reply, Read!Path
  <2>6. AddsPost(x)
    BY <2>2, <2>4, <2>5 DEF AddsPost
  <2> QED BY <2>6
<1>7. ASSUME NEW p \in DOMAIN entries, Read!ChangePostVisibility(p) \/ Read!RedactPost(p)
      PROVE  \E x : ChangesPost(p, x)
  <2>1. entries[p] \in Read!PostRows
    BY NumbersFit
  <2>2. CASE Read!ChangePostVisibility(p)
    <3> DEFINE x == [entries[p] EXCEPT !.deleted = ~entries[p].deleted]
    <3>1. x \in Read!PostRows /\ ~x.redacted
      BY <2>1, <2>2 DEF Read!PostRows, Read!ChangePostVisibility
    <3>2. entries' = [entries EXCEPT ![p] = x]
      BY <2>1, <2>2 DEF Read!ChangePostVisibility, Read!PostRows
    <3>3. ChangesPost(p, x)
      BY <2>1, <2>2, <3>1, <3>2 DEF ChangesPost, Read!ChangePostVisibility, Read!PostRows
    <3> QED BY <3>3
  <2>3. CASE Read!RedactPost(p)
    <3> DEFINE x == [entries[p] EXCEPT !.deleted = TRUE, !.redacted = TRUE]
    <3>1. x \in Read!PostRows /\ x.deleted
      BY <2>1 DEF Read!PostRows
    <3>2. entries' = [entries EXCEPT ![p] = x]
      BY <2>1, <2>3 DEF Read!RedactPost, Read!PostRows
    <3>3. ChangesPost(p, x)
      BY <2>1, <2>3, <3>1, <3>2 DEF ChangesPost, Read!RedactPost, Read!PostRows
    <3> QED BY <3>3
  <2> QED BY <1>7, <2>2, <2>3
<1>8. ASSUME NEW t \in ReadTopics, NEW s \in {"open", "hidden", "deleted"}, Read!ChangeTopicState(t, s)
      PROVE  Closes
  BY <1>8 DEF Read!ChangeTopicState, Closes, Read!TypeOK
<1>9. ASSUME NEW a \in ReadAreas, NEW v \in Read!Visibilities, NEW m \in SUBSET Members, Read!ChangeArea(a, v, m)
      PROVE  Closes
  <2>1. [visibility |-> v, members |-> m] \in Read!AreaRows
    BY DEF Read!AreaRows
  <2> QED BY <1>9, <2>1 DEF Read!ChangeArea, Closes, Read!TypeOK
<1>10. CASE Read!Next
  BY <1>1, <1>2, <1>3, <1>4, <1>5, <1>6, <1>7, <1>8, <1>9, <1>10 DEF Read!Next, ReadShape
<1>11. CASE UNCHANGED Read!vars
  BY <1>11 DEF Read!vars, readVars, ReadShape
<1> QED BY <1>10, <1>11

-----------------------------------------------------------------------------
(* Reading: every step keeps the invariant. *)

\* A request's step changes its own record.
LEMMA RequestMoves ==
    ASSUME Read!TypeOK, NEW c, NEW x, Requests(c, x)
    PROVE  /\ c \in Slots /\ call'[c] = x /\ \A d \in Slots : d # c => call'[d] = call[d]
           /\ call' \in [Slots -> {Read!Free} \cup Read!Calls] /\ UNCHANGED <<area, topic, entries>>
<1>1. call \in [Slots -> {Read!Free} \cup Read!Calls]
  BY DEF Read!TypeOK
<1> HIDE DEF Read!TypeOK
<1> QED BY <1>1 DEF Requests

LEMMA AddedPost ==
    ASSUME Read!TypeOK, NEW x, AddsPost(x)
    PROVE  /\ entries' \in Seq(Read!PostRows) /\ Len(entries') = Len(entries) + 1
           /\ DOMAIN entries' = 1..(Len(entries) + 1) /\ DOMAIN entries = 1..Len(entries) /\ Len(entries) \in Nat
           /\ \A q \in DOMAIN entries : entries'[q] = entries[q]
           /\ entries'[Len(entries) + 1] = x
<1>1. entries \in Seq(Read!PostRows) /\ x \in Read!PostRows /\ entries' = Append(entries, x)
  BY DEF Read!TypeOK, AddsPost
<1>2. Len(entries) \in Nat /\ DOMAIN entries = 1..Len(entries)
  BY <1>1, LenProperties
<1>3. /\ entries' \in Seq(Read!PostRows) /\ Len(entries') = Len(entries) + 1
      /\ \A q \in 1..Len(entries) : entries'[q] = entries[q]
      /\ entries'[Len(entries) + 1] = x
  BY <1>1, AppendProperties
<1>4. DOMAIN entries' = 1..(Len(entries) + 1)
  BY <1>3, LenProperties
<1> QED BY <1>2, <1>3, <1>4

LEMMA ChangedPost ==
    ASSUME Read!TypeOK, NEW p, NEW x, ChangesPost(p, x)
    PROVE  /\ entries' \in Seq(Read!PostRows) /\ Len(entries') = Len(entries)
           /\ DOMAIN entries' = DOMAIN entries
           /\ \A q \in DOMAIN entries : entries'[q] = IF q = p THEN x ELSE entries[q]
<1>1. /\ entries \in Seq(Read!PostRows) /\ x \in Read!PostRows
      /\ p \in DOMAIN entries /\ entries' = [entries EXCEPT ![p] = x]
  BY DEF Read!TypeOK, ChangesPost
<1>2. DOMAIN entries = 1..Len(entries)
  BY <1>1, LenProperties
<1>3. /\ entries' \in Seq(Read!PostRows) /\ Len(entries') = Len(entries)
      /\ \A q \in 1..Len(entries) : entries'[q] = IF q = p THEN x ELSE entries[q]
  BY <1>1, <1>2, ExceptSeq
<1> QED BY <1>2, <1>3, LenProperties

\* The posts of a topic stay, and one may be added.
LEMMA HeldGrows ==
    ASSUME Read!TypeOK, ReadShape, NEW t
    PROVE  /\ Held(t) <= Held(t)' /\ Held(t)' \in Nat
           /\ \A p, x : ChangesPost(p, x) => Read!PostsOf(t)' = Read!PostsOf(t)
           /\ \A x : AddsPost(x) => Read!PostsOf(t)' = IF t = x.topic THEN Read!PostsOf(t) \cup {Len(entries) + 1}
                                                       ELSE Read!PostsOf(t)
<1>1. ASSUME NEW p, NEW x, ChangesPost(p, x) PROVE Read!PostsOf(t)' = Read!PostsOf(t)
  <2>1. /\ DOMAIN entries' = DOMAIN entries
        /\ \A q \in DOMAIN entries : entries'[q] = IF q = p THEN x ELSE entries[q]
    BY <1>1, ChangedPost
  <2>2. p \in DOMAIN entries /\ x.topic = entries[p].topic
    BY <1>1 DEF ChangesPost
  <2> QED BY <2>1, <2>2 DEF Read!PostsOf
<1>2. ASSUME NEW x, AddsPost(x)
      PROVE  Read!PostsOf(t)' = IF t = x.topic THEN Read!PostsOf(t) \cup {Len(entries) + 1} ELSE Read!PostsOf(t)
  BY <1>2, AddedPost DEF Read!PostsOf
<1>3. /\ IsFiniteSet(Read!PostsOf(t)) /\ Held(t) \in Nat /\ Len(entries) \in Nat
      /\ Read!PostsOf(t) \in SUBSET (1..Len(entries))
  BY HeldFits
<1>4. ASSUME entries' = entries PROVE Held(t) <= Held(t)' /\ Held(t)' \in Nat
  <2>1. Held(t)' = Held(t)
    BY <1>4 DEF Held, Read!PostsOf
  <2> QED BY <1>3, <2>1
<1>5. ASSUME NEW p, NEW x, ChangesPost(p, x) PROVE Held(t) <= Held(t)' /\ Held(t)' \in Nat
  <2>1. Held(t)' = Held(t)
    BY <1>1, <1>5 DEF Held
  <2> QED BY <1>3, <2>1
<1>6. ASSUME NEW x, AddsPost(x) PROVE Held(t) <= Held(t)' /\ Held(t)' \in Nat
  <2>1. CASE t = x.topic
    <3>1. Held(t)' = Cardinality(Read!PostsOf(t) \cup {Len(entries) + 1})
      BY <1>2, <1>6, <2>1 DEF Held
    <3>2. Held(t)' = Held(t) \/ Held(t)' = Held(t) + 1
      BY <1>3, <3>1, FS_AddElement DEF Held
    <3> QED BY <1>3, <3>2
  <2>2. CASE t # x.topic
    <3>1. Read!PostsOf(t)' = Read!PostsOf(t)
      BY <1>2, <1>6, <2>2
    <3>2. Held(t)' = Held(t)
      BY <3>1 DEF Held
    <3> QED BY <1>3, <3>2
  <2> QED BY <2>1, <2>2
<1>7. entries' = entries \/ (\E p, x : ChangesPost(p, x)) \/ \E x : AddsPost(x)
  BY DEF ReadShape, MarkBegins, Selects, Upserts, Ends, Leaves, Requests, Closes, readVars
<1> QED BY <1>1, <1>2, <1>4, <1>5, <1>6, <1>7

LEMMA ReadTypeStep ==
    ASSUME ReadInv, ReadShape
    PROVE  Read!TypeOK'
<1> USE DEF ReadInv
<1>1. CASE \E c, x : MarkBegins(c, x) \/ Selects(c, x) \/ Upserts(c, x) \/ Leaves(c, x)
  <2>1. PICK c, x : Requests(c, x) /\ UNCHANGED marker
    BY <1>1 DEF MarkBegins, Selects, Upserts, Leaves
  <2> QED BY <2>1, RequestMoves DEF Read!TypeOK
<1>2. CASE \E c, x : Ends(c, x)
  <2>1. PICK c, x : Ends(c, x)
    BY <1>2
  <2>2. /\ call[c].user \in Read!Accounts /\ call[c].topic \in ReadTopics /\ call[c].selected \in 0..EntriesKept
        /\ Requests(c, x)
    BY <2>1, MarkFields DEF Ends
  <2>3. marker' \in [Read!Accounts -> [ReadTopics -> 0..EntriesKept]]
    <3>1. marker \in [Read!Accounts -> [ReadTopics -> 0..EntriesKept]]
      BY DEF Read!TypeOK
    <3>2. \/ marker' = marker
          \/ marker' = [marker EXCEPT ![call[c].user][call[c].topic] = call[c].selected]
      BY <2>1 DEF Ends
    <3> DEFINE u == call[c].user
               t == call[c].topic
               s == call[c].selected
    <3>3. u \in Read!Accounts /\ t \in ReadTopics /\ s \in 0..EntriesKept
      BY <2>2
    <3>4. marker' = marker \/ marker' = [marker EXCEPT ![u][t] = s]
      BY <3>2
    <3> HIDE DEF u, t, s
    <3> QED BY <3>1, <3>3, <3>4
  <2> QED BY <2>2, <2>3, RequestMoves DEF Read!TypeOK
<1>3. CASE \E x : AddsPost(x)
  <2>1. PICK x : AddsPost(x)
    BY <1>3
  <2>2. entries' \in Seq(Read!PostRows) /\ Len(entries') = Len(entries) + 1
    BY <2>1, AddedPost
  <2>3. Len(entries') <= EntriesKept
    BY <2>1, <2>2, HeldFits DEF AddsPost
  <2> QED BY <2>1, <2>2, <2>3 DEF AddsPost, Read!TypeOK
<1>4. CASE \E p, x : ChangesPost(p, x)
  <2>1. PICK p, x : ChangesPost(p, x)
    BY <1>4
  <2>2. entries' \in Seq(Read!PostRows) /\ Len(entries') = Len(entries)
    BY <2>1, ChangedPost
  <2> QED BY <2>1, <2>2 DEF ChangesPost, Read!TypeOK
<1>5. CASE Closes
  BY <1>5 DEF Closes, Read!TypeOK
<1>6. CASE UNCHANGED readVars
  <2>1. area' = area /\ topic' = topic /\ entries' = entries /\ marker' = marker /\ call' = call
    BY <1>6 DEF readVars
  <2> QED BY <2>1 DEF Read!TypeOK
<1> QED BY <1>1, <1>2, <1>3, <1>4, <1>5, <1>6 DEF ReadShape

LEMMA NumbersStep ==
    ASSUME ReadInv, ReadShape
    PROVE  NumbersCount' /\ PathsGrow' /\ RedactedIsDeleted'
<1> USE DEF ReadInv
<1>1. CASE \E x : AddsPost(x)
  <2>1. PICK x : AddsPost(x)
    BY <1>1
  <2> DEFINE n == Len(entries)
  <2>2. /\ n \in Nat /\ DOMAIN entries' = 1..(n + 1) /\ DOMAIN entries = 1..n
        /\ \A q \in 1..n : entries'[q] = entries[q] /\ entries'[n + 1] = x
    BY <2>1, AddedPost
  <2> DEFINE After(t) == {q \in DOMAIN entries' : entries'[q].topic = t}
  <2>3. \A t : /\ After(t) = IF t = x.topic THEN Read!PostsOf(t) \cup {n + 1} ELSE Read!PostsOf(t)
               /\ Read!PostsOf(t) \in SUBSET (1..n) /\ IsFiniteSet(Read!PostsOf(t))
    BY <2>1, HeldGrows, HeldFits DEF Read!PostsOf
  <2> HIDE DEF n, After
  <2>4. ASSUME NEW p \in 1..n, NEW t
        PROVE  {q \in After(t) : q <= p} = {q \in Read!PostsOf(t) : q <= p}
    BY <2>2, <2>3
  <2>5. {q \in After(x.topic) : q <= n + 1} = Read!PostsOf(x.topic) \cup {n + 1}
    BY <2>2, <2>3
  <2>6. n + 1 \notin Read!PostsOf(x.topic)
    BY <2>2, <2>3
  <2>7. Cardinality({q \in After(x.topic) : q <= n + 1}) = Held(x.topic) + 1
    BY <2>3, <2>5, <2>6, FS_AddElement DEF Held
  <2>8. NumbersCount'
    <3>1. ASSUME NEW p \in DOMAIN entries'
          PROVE  entries'[p].number = Cardinality({q \in After(entries'[p].topic) : q <= p})
      <4>1. CASE p \in 1..n
        <5>1. entries'[p] = entries[p] /\ p \in DOMAIN entries
          BY <2>2, <4>1
        <5>2. {q \in After(entries[p].topic) : q <= p} = {q \in Read!PostsOf(entries[p].topic) : q <= p}
          BY <2>4, <4>1
        <5> QED BY <5>1, <5>2 DEF NumbersCount
      <4>2. CASE p = n + 1
        BY <2>1, <2>2, <2>7, <4>2 DEF AddsPost
      <4> QED BY <2>2, <4>1, <4>2
    <3> QED BY <3>1 DEF NumbersCount, Read!PostsOf, After
  <2>9. PathsGrow'
    <3>1. ASSUME NEW p \in DOMAIN entries'
          PROVE  \/ entries'[p].thread_path = <<entries'[p].number>>
                 \/ \E q \in DOMAIN entries' :
                      q < p /\ entries'[q].topic = entries'[p].topic
                      /\ entries'[p].thread_path = Append(entries'[q].thread_path, entries'[p].number)
      <4>1. CASE p \in 1..n
        <5>1. entries'[p] = entries[p] /\ p \in DOMAIN entries
          BY <2>2, <4>1
        <5>2. \A q \in DOMAIN entries : q \in DOMAIN entries' /\ entries'[q] = entries[q]
          BY <2>2
        <5> QED BY <5>1, <5>2 DEF PathsGrow
      <4>2. CASE p = n + 1
        <5>1. PICK q \in 1..n : entries[q].topic = x.topic /\ x.thread_path = Append(entries[q].thread_path, x.number)
          BY <2>1, <2>2 DEF AddsPost
        <5>2. q \in DOMAIN entries' /\ q < p /\ entries'[q] = entries[q] /\ entries'[p] = x
          BY <2>2, <4>2
        <5> QED BY <5>1, <5>2
      <4> QED BY <2>2, <4>1, <4>2
    <3> QED BY <3>1 DEF PathsGrow
  <2>10. RedactedIsDeleted'
    BY <2>1, <2>2 DEF RedactedIsDeleted, AddsPost
  <2> QED BY <2>8, <2>9, <2>10
<1>2. CASE \E p, x : ChangesPost(p, x)
  <2>1. PICK p, x : ChangesPost(p, x)
    BY <1>2
  <2>2. /\ DOMAIN entries' = DOMAIN entries
        /\ \A q \in DOMAIN entries : entries'[q] = IF q = p THEN x ELSE entries[q]
        /\ \A t : Read!PostsOf(t)' = Read!PostsOf(t)
    BY <2>1, ChangedPost, HeldGrows
  <2>3. \A q \in DOMAIN entries : /\ entries'[q].topic = entries[q].topic /\ entries'[q].number = entries[q].number
                                  /\ entries'[q].thread_path = entries[q].thread_path
                                  /\ entries'[q].redacted => entries'[q].deleted
    BY <2>1, <2>2 DEF ChangesPost, RedactedIsDeleted
  <2>4. NumbersCount' /\ PathsGrow' /\ RedactedIsDeleted'
    BY <2>2, <2>3 DEF NumbersCount, PathsGrow, RedactedIsDeleted
  <2> QED BY <2>4
<1>3. CASE entries' = entries
  BY <1>3 DEF NumbersCount, PathsGrow, RedactedIsDeleted, Read!PostsOf
<1> QED BY <1>1, <1>2, <1>3
        DEF ReadShape, MarkBegins, Selects, Upserts, Ends, Leaves, Requests, Closes, readVars

LEMMA MarkersStep ==
    ASSUME ReadInv, ReadShape
    PROVE  /\ MarkersFit' /\ MarksStand' /\ AdvancesAlone'
           /\ \A u \in Read!Accounts, t \in ReadTopics : marker[u][t] <= marker'[u][t]
<1> DEFINE Stored(x) == marker[x.user][x.topic]
<1>1. \A t : Held(t) <= Held(t)' /\ Held(t)' \in Nat /\ Held(t) \in Nat
  BY HeldGrows, HeldFits DEF ReadInv
<1>2. /\ marker \in [Read!Accounts -> [ReadTopics -> 0..EntriesKept]] /\ EntriesKept \in Nat
      /\ call \in [Slots -> {Read!Free} \cup Read!Calls]
  BY HeldFits DEF ReadInv, Read!TypeOK
<1>3. \A u \in Read!Accounts, t \in ReadTopics : marker[u][t] \in Nat
  BY <1>2
<1>4. \A x \in Read!Calls : /\ x.user \in Read!Accounts /\ x.topic \in ReadTopics /\ x.next \in Nat
                            /\ x.selected \in Nat /\ x.advanced \in BOOLEAN /\ x.seen \in SUBSET Nat
                            /\ Stored(x) \in Nat /\ x # Read!Free
  BY <1>2, <1>3, MarkFields
<1>5. CASE call' = call /\ marker' = marker
  <2>1. MarkersFit'
    BY <1>1, <1>3, <1>5 DEF ReadInv, MarkersFit
  <2>2. \A x \in Read!Calls : MarkStands(x) => MarkStands(x)'
    BY <1>1, <1>4, <1>5 DEF MarkStands
  <2>3. MarksStand'
    BY <1>2, <1>5, <2>2 DEF ReadInv, MarksStand
  <2>4. AdvancesAlone'
    BY <1>5 DEF ReadInv, AdvancesAlone, MarkAdvances
  <2> QED BY <1>3, <1>5, <2>1, <2>3, <2>4
<1>6. CASE entries' = entries /\ \E c, x : Requests(c, x)
  <2>1. \A t : Held(t)' = Held(t)
    BY <1>6 DEF Held, Read!PostsOf
  <2>2. ASSUME NEW c, NEW x, Requests(c, x), marker' = marker, x = Read!Free \/ (x \in Read!Calls /\ MarkStands(x)),
               x # Read!Free /\ x.step = "upserted" =>
                 /\ x.advanced => x.selected > Stored(x)
                 /\ x.selected > 0 => \A d \in Slots \ {c} : call[d].step = "upserted" /\ call[d].selected > 0
                                        => call[d].user # x.user \/ call[d].topic # x.topic
        PROVE  /\ MarkersFit' /\ MarksStand' /\ AdvancesAlone'
               /\ \A u \in Read!Accounts, t \in ReadTopics : marker[u][t] <= marker'[u][t]
    <3>1. /\ c \in Slots /\ call'[c] = x /\ \A d \in Slots : d # c => call'[d] = call[d]
      BY <2>2, RequestMoves DEF ReadInv
    <3>2. MarkersFit'
      BY <2>1, <2>2 DEF ReadInv, MarkersFit
    <3>3. \A y \in Read!Calls : MarkStands(y) => MarkStands(y)'
      BY <2>1, <2>2 DEF MarkStands
    <3>4. MarksStand'
      BY <1>2, <2>2, <3>1, <3>3 DEF ReadInv, MarksStand
    <3>5. AdvancesAlone'
      <4>1. ASSUME NEW d \in Slots, call'[d].step = "upserted", call'[d].advanced
            PROVE  /\ call'[d].selected > marker[call'[d].user][call'[d].topic]
                   /\ \A e \in Slots \ {d} : call'[e].step = "upserted" /\ call'[e].selected > 0
                                => call'[e].user # call'[d].user \/ call'[e].topic # call'[d].topic
        <5>1. Read!Free.step # "upserted"
          BY DEF Read!Free
        <5>2. \A y \in Read!Calls : y.advanced /\ MarkStands(y) => y.selected > 0
          BY DEF MarkStands
        <5>3. CASE d = c
          <6>1. x # Read!Free /\ x.advanced /\ x.step = "upserted" /\ x.selected > 0 /\ x.selected > Stored(x)
            BY <2>2, <3>1, <4>1, <5>1, <5>2, <5>3
          <6>2. \A e \in Slots \ {c} : call'[e] = call[e]
            BY <3>1
          <6> HIDE DEF Stored
          <6> QED BY <2>2, <3>1, <5>3, <6>1, <6>2 DEF Stored
        <5>4. CASE d # c
          <6>1. call'[d] = call[d] /\ MarkAdvances(d)
            BY <3>1, <4>1, <5>4 DEF MarkAdvances
          <6>2. /\ call[d].selected > marker[call[d].user][call[d].topic]
                /\ \A e \in Slots \ {d} : call[e].step = "upserted" /\ call[e].selected > 0
                                => call[e].user # call[d].user \/ call[e].topic # call[d].topic
            BY <6>1 DEF ReadInv, AdvancesAlone
          <6>3. call[d] # Read!Free /\ call[d] \in Read!Calls /\ MarkStands(call[d])
            BY <1>2, <4>1, <5>1, <6>1 DEF ReadInv, MarksStand
          <6>4. call[d].selected > 0
            BY <4>1, <5>2, <6>1, <6>3
          <6>5. ASSUME NEW e \in Slots \ {d}, call'[e].step = "upserted", call'[e].selected > 0
                PROVE  call'[e].user # call[d].user \/ call'[e].topic # call[d].topic
            <7>1. CASE e = c
              <8>1. x # Read!Free
                BY <3>1, <5>1, <6>5, <7>1
              <8>2. d \in Slots \ {c} /\ call[d].step = "upserted"
                BY <4>1, <5>4, <6>1
              <8> QED BY <2>2, <3>1, <6>4, <6>5, <7>1, <8>1, <8>2
            <7>2. CASE e # c
              BY <3>1, <6>2, <6>5, <7>2
            <7> QED BY <7>1, <7>2
          <6> QED BY <6>1, <6>2, <6>5
        <5> QED BY <5>3, <5>4
      <4> QED BY <2>2, <4>1 DEF AdvancesAlone, MarkAdvances
    <3> QED BY <1>3, <2>2, <3>2, <3>4, <3>5
  <2>3. \A t : Held(t) \in Nat
    BY <1>1
  <2>4. ASSUME NEW c, NEW x, MarkBegins(c, x)
        PROVE  Requests(c, x) /\ marker' = marker /\ x \in Read!Calls /\ MarkStands(x) /\ x.step # "upserted"
    <3>1. Requests(c, x) /\ marker' = marker /\ x \in Read!Calls /\ x.step = "begin"
          /\ x.next = 1 /\ x.selected = 0 /\ ~x.advanced /\ x.seen = {}
      BY <2>4 DEF MarkBegins
    <3>2. 1 <= Held(x.topic) + 1
      BY <2>3
    <3> QED BY <3>1, <3>2 DEF MarkStands
  <2>5. ASSUME NEW c, NEW x, Selects(c, x)
        PROVE  Requests(c, x) /\ marker' = marker /\ x \in Read!Calls /\ MarkStands(x) /\ x.step # "upserted"
    <3> DEFINE u == call[c].user
               t == call[c].topic
               h == Read!ReadHead(u, t)
               s == Read!Numbers(Read!Eligible(u, t))
               n == Held(t) + 1
    <3>1. Requests(c, x) /\ marker' = marker /\ call[c] \in Read!Calls /\ ~call[c].advanced
          /\ x = [call[c] EXCEPT !.step = "selected", !.next = n, !.selected = h, !.seen = s]
      BY <2>5 DEF Selects
    <3>2. h \in Nat /\ h <= Held(t) /\ \A k \in s : k <= h
      BY HeadFits DEF ReadInv
    <3>3. h < n /\ n <= Held(t) + 1
      BY <2>3, <3>2
    <3> HIDE DEF h, s, n, u
    <3>4. x.step = "selected" /\ x.next = n /\ x.selected = h /\ x.seen = s /\ ~x.advanced /\ x.topic = t
          /\ x.step # "free" /\ x # Read!Free
      BY <3>1 DEF Read!Calls, Read!Free
    <3>5. x \in Read!Calls
      BY <3>1, <3>4 DEF Requests
    <3>6. MarkStands(x)
      BY <3>2, <3>3, <3>4 DEF MarkStands
    <3> QED BY <3>1, <3>4, <3>5, <3>6
  <2>6. ASSUME NEW c, NEW x, Upserts(c, x)
        PROVE  /\ MarkersFit' /\ MarksStand' /\ AdvancesAlone'
               /\ \A u \in Read!Accounts, t \in ReadTopics : marker[u][t] <= marker'[u][t]
    <3> DEFINE more == call[c].selected > marker[call[c].user][call[c].topic]
    <3>1. Requests(c, x) /\ marker' = marker /\ call[c] \in Read!Calls /\ call[c].step = "selected"
          /\ (call[c].selected > 0 => ~Read!MarkerLocked(c))
          /\ x = [call[c] EXCEPT !.step = "upserted", !.advanced = more] /\ c \in Slots
      BY <2>6 DEF Upserts, Requests
    <3>2. MarkStands(call[c])
      BY <1>4, <3>1 DEF ReadInv, MarksStand
    <3>3. /\ x.user = call[c].user /\ x.topic = call[c].topic /\ x.selected = call[c].selected
          /\ x.next = call[c].next /\ x.seen = call[c].seen
          /\ x.step = "upserted" /\ x.advanced = more /\ x # Read!Free
      BY <3>1 DEF Read!Calls, Read!Free
    <3>4. x \in Read!Calls
      BY <3>1, <3>3 DEF Requests
    <3>5. Stored(x) \in Nat /\ x.selected \in Nat /\ Stored(x) = marker[call[c].user][call[c].topic]
      BY <1>4, <3>3, <3>4
    <3>6. (x.advanced => x.selected > Stored(x)) /\ (~x.advanced => x.selected <= Stored(x))
      <4>1. more <=> x.selected > Stored(x)
        BY <3>3, <3>5
      <4> HIDE DEF more, Stored
      <4>2. x.advanced <=> more
        BY <3>3
      <4> QED BY <3>5, <4>1, <4>2
    <3>7. MarkStands(x)
      BY <3>2, <3>3, <3>5, <3>6 DEF MarkStands
    <3>8. x.selected > 0 => \A d \in Slots \ {c} : call[d].step = "upserted" /\ call[d].selected > 0
                                        => call[d].user # x.user \/ call[d].topic # x.topic
      BY <3>1, <3>3 DEF Read!MarkerLocked
    <3> HIDE DEF more
    <3> QED BY <2>2, <3>1, <3>4, <3>6, <3>7, <3>8
  <2>7. ASSUME NEW c, NEW x, Ends(c, x), marker' = marker
        PROVE  Requests(c, x) /\ x \in Read!Calls /\ MarkStands(x) /\ x.step # "upserted"
    <3>1. Requests(c, x) /\ call[c] \in Read!Calls /\ call[c].step = "upserted" /\ c \in Slots
          /\ \/ x = [call[c] EXCEPT !.step = "ok"] /\ ~call[c].advanced
             \/ x = [call[c] EXCEPT !.step = "ok"] /\ call[c].advanced
                /\ marker' = [marker EXCEPT ![call[c].user][call[c].topic] = call[c].selected]
             \/ /\ x = [call[c] EXCEPT !.step = "refused"]
                /\ call[c].selected <= Stored(call[c]) /\ call[c].next <= Stored(call[c])
      BY <2>7 DEF Ends, Requests
    <3>2. MarkStands(call[c]) /\ call[c].user \in Read!Accounts /\ call[c].topic \in ReadTopics
      BY <1>4, <3>1 DEF ReadInv, MarksStand
    <3>3. ~call[c].advanced \/ call[c].selected <= Stored(call[c])
      <4>1. CASE marker' = [marker EXCEPT ![call[c].user][call[c].topic] = call[c].selected]
        <5>1. Stored(call[c]) = call[c].selected
          BY <1>2, <2>7, <3>2, <4>1
        <5> QED BY <1>4, <3>1, <5>1
      <4> QED BY <3>1, <4>1
    <3>4. call[c].selected <= Stored(call[c])
      BY <3>1, <3>2, <3>3 DEF MarkStands
    <3>5. /\ x.user = call[c].user /\ x.topic = call[c].topic /\ x.selected = call[c].selected
          /\ x.next = call[c].next /\ x.seen = call[c].seen /\ x.advanced = call[c].advanced
          /\ x.step \in {"ok", "refused"} /\ x # Read!Free
          /\ x.step = "refused" => call[c].next <= Stored(call[c])
      BY <3>1 DEF Read!Calls, Read!Free
    <3>6. MarkStands(x)
      BY <3>2, <3>4, <3>5 DEF MarkStands
    <3> QED BY <3>1, <3>5, <3>6 DEF Requests
  <2>8. ASSUME NEW c, NEW x, Ends(c, x), marker' # marker
        PROVE  /\ MarkersFit' /\ MarksStand' /\ AdvancesAlone'
               /\ \A u \in Read!Accounts, t \in ReadTopics : marker[u][t] <= marker'[u][t]
    <3> DEFINE u == call[c].user
               t == call[c].topic
               s == call[c].selected
    <3>1. Requests(c, x) /\ call[c] \in Read!Calls /\ call[c].step = "upserted" /\ c \in Slots
          /\ x = [call[c] EXCEPT !.step = "ok"] /\ call[c].advanced /\ MarkAdvances(c)
          /\ marker' = [marker EXCEPT ![u][t] = s]
      BY <2>8 DEF Ends, Requests, MarkAdvances
    <3>2. MarkStands(call[c]) /\ u \in Read!Accounts /\ t \in ReadTopics /\ s \in Nat
          /\ s > marker[u][t] /\ marker[u][t] \in Nat
          /\ \A d \in Slots \ {c} : call[d].step = "upserted" /\ call[d].selected > 0
                                => call[d].user # u \/ call[d].topic # t
      BY <1>4, <3>1 DEF ReadInv, MarksStand, AdvancesAlone
    <3>3. /\ x.user = u /\ x.topic = t /\ x.selected = s /\ x.next = call[c].next /\ x.seen = call[c].seen
          /\ x.advanced /\ x.step = "ok" /\ x # Read!Free
      BY <3>1 DEF Read!Calls, Read!Free
    <3>4. x \in Read!Calls
      BY <3>1, <3>3 DEF Requests
    <3>5. /\ c \in Slots /\ call'[c] = x /\ \A d \in Slots : d # c => call'[d] = call[d]
      BY <3>1, RequestMoves DEF ReadInv
    <3>6. s <= Held(t) /\ s < call[c].next
      BY <2>3, <3>1, <3>2, <1>4 DEF MarkStands
    <3> HIDE DEF u, t, s
    <3>7. /\ marker'[u][t] = s
          /\ \A v \in Read!Accounts, k \in ReadTopics : marker'[v][k] = IF v = u /\ k = t THEN s ELSE marker[v][k]
      BY <1>2, <3>1, <3>2
    <3>8. \A v \in Read!Accounts, k \in ReadTopics : marker[v][k] <= marker'[v][k] /\ marker'[v][k] \in Nat
      BY <1>3, <3>2, <3>7
    <3>9. MarkersFit'
      BY <2>1, <3>6, <3>7 DEF ReadInv, MarkersFit
    <3>10. ASSUME NEW y \in Read!Calls, MarkStands(y) PROVE MarkStands(y)'
      <4>1. /\ y.selected \in Nat /\ y.next \in Nat /\ Stored(y) \in Nat
            /\ Stored(y) <= marker'[y.user][y.topic] /\ marker'[y.user][y.topic] \in Nat
        BY <1>4, <3>8
      <4> QED BY <2>1, <3>10, <4>1 DEF MarkStands
    <3>11. MarkStands(x)'
      <4>1. /\ x.next <= Held(x.topic)' + 1 /\ x.selected < x.next
            /\ \A n \in x.seen : n <= x.selected
        BY <2>1, <3>2, <3>3 DEF MarkStands, t, s
      <4>2. s > 0 /\ s <= s /\ marker'[x.user][x.topic] = s
        BY <3>2, <3>3, <3>7
      <4> QED BY <3>3, <4>1, <4>2 DEF MarkStands
    <3>12. MarksStand'
      BY <1>2, <3>5, <3>10, <3>11 DEF ReadInv, MarksStand
    <3>13. ASSUME NEW d \in Slots, MarkAdvances(d)'
           PROVE  /\ (call[d].selected > marker[call[d].user][call[d].topic])'
                  /\ \A e \in Slots \ {d} : (call[e].step = "upserted")' /\ (call[e].selected > 0)'
                                => (call[e].user # call[d].user)' \/ (call[e].topic # call[d].topic)'
      <4>1. d # c /\ call'[d] = call[d] /\ MarkAdvances(d)
        BY <3>3, <3>5, <3>13 DEF MarkAdvances
      <4>2. /\ call[d].selected > marker[call[d].user][call[d].topic]
            /\ \A e \in Slots \ {d} : call[e].step = "upserted" /\ call[e].selected > 0
                                => call[e].user # call[d].user \/ call[e].topic # call[d].topic
        BY <4>1 DEF ReadInv, AdvancesAlone
      <4>3. call[d] # Read!Free /\ call[d] \in Read!Calls /\ MarkStands(call[d])
        BY <1>2, <4>1 DEF ReadInv, MarksStand, MarkAdvances, Read!Free
      <4>4. call[d].selected > 0 /\ call[d].step = "upserted"
        BY <4>1, <4>3 DEF MarkStands, MarkAdvances
      <4>5. call[d].user # u \/ call[d].topic # t
        BY <3>2, <4>1, <4>4
      <4>6. marker'[call[d].user][call[d].topic] = marker[call[d].user][call[d].topic]
        BY <1>4, <3>7, <4>3, <4>5
      <4>7. \A e \in Slots \ {d} : call'[e].step = "upserted" => call'[e] = call[e]
        BY <3>3, <3>5
      <4> QED BY <4>1, <4>2, <4>6, <4>7
    <3>14. AdvancesAlone'
      BY <3>13 DEF AdvancesAlone
    <3> QED BY <3>8, <3>9, <3>12, <3>14
  <2>9. ASSUME NEW c, NEW x, Leaves(c, x) PROVE Requests(c, x) /\ marker' = marker /\ x = Read!Free
    BY <2>9 DEF Leaves
  <2>10. ASSUME NEW c, NEW x, MarkBegins(c, x) \/ Selects(c, x) \/ Leaves(c, x) \/ (Ends(c, x) /\ marker' = marker)
         PROVE  /\ MarkersFit' /\ MarksStand' /\ AdvancesAlone'
                /\ \A u \in Read!Accounts, t \in ReadTopics : marker[u][t] <= marker'[u][t]
    BY <2>2, <2>4, <2>5, <2>7, <2>9, <2>10
  <2>11. CASE \E c, x : MarkBegins(c, x) \/ Selects(c, x) \/ Upserts(c, x) \/ Ends(c, x) \/ Leaves(c, x)
    BY <2>6, <2>8, <2>10, <2>11
  <2>12. CASE call' = call /\ marker' = marker
    BY <1>5, <2>12
  <2> QED BY <2>11, <2>12 DEF ReadShape, AddsPost, ChangesPost, Closes, readVars
<1> QED BY <1>5, <1>6
        DEF ReadShape, MarkBegins, Selects, Upserts, Ends, Leaves, AddsPost, ChangesPost, Closes, Requests, readVars

-----------------------------------------------------------------------------
(* Reading: the invariant, always. *)

LEMMA TopicsInLine ==
    LET f == Read!SetToSeq(ReadTopics) IN
    /\ f \in [1..Cardinality(ReadTopics) -> ReadTopics] /\ Cardinality(ReadTopics) \in Nat
    /\ \A i, j \in 1..Cardinality(ReadTopics) : f[i] = f[j] => i = j
<1> DEFINE n == Cardinality(ReadTopics)
           Lines == {f \in [1..n -> ReadTopics] : Read!IsInjective(f)}
<1>1. IsFiniteSet(ReadTopics)
  BY PartsAssumption, SameCounts DEF Read!ReadingAssumption
<1>2. n \in Nat /\ ExistsBijection(1..n, ReadTopics)
  BY <1>1, FS_CardinalityType
<1>3. PICK g : g \in [1..n -> ReadTopics] /\ \A a, b \in DOMAIN g : g[a] = g[b] => a = b
  BY <1>2 DEF ExistsBijection, Bijection, Injection, IsInjective
<1>4. g \in Lines
  BY <1>3 DEF Read!IsInjective
<1>5. Read!SetToSeq(ReadTopics) = CHOOSE f \in [1..n -> ReadTopics] : Read!IsInjective(f)
  BY SameCounts DEF Read!SetToSeq
<1>6. Read!SetToSeq(ReadTopics) \in [1..n -> ReadTopics] /\ Read!IsInjective(Read!SetToSeq(ReadTopics))
  BY <1>3, <1>4, <1>5
<1> HIDE DEF n
<1> QED BY <1>2, <1>6 DEF Read!IsInjective, n

LEMMA ReadInitially ==
    ASSUME Read!Init
    PROVE  ReadInv
<1> DEFINE n == Cardinality(ReadTopics)
           f == Read!SetToSeq(ReadTopics)
<1>1. /\ n \in Nat /\ f \in [1..n -> ReadTopics] /\ \A i, j \in 1..n : f[i] = f[j] => i = j
  BY TopicsInLine
<1>2. /\ n <= EntriesKept /\ EntriesKept \in Nat /\ ReadTopicAuthor \in [ReadTopics -> Members \cup ReadStaff]
  BY PartsAssumption, SameCounts DEF Read!ReadingAssumption
<1>3. /\ entries = [i \in 1..n |-> Read!FirstPost(f[i])]
      /\ area = [a \in ReadAreas |-> [visibility |-> "public", members |-> {}]]
      /\ topic = [t \in ReadTopics |-> "open"]
      /\ marker = [u \in Read!Accounts |-> [t \in ReadTopics |-> 0]]
      /\ call = [c \in Slots |-> Read!Free]
  BY SameCounts DEF Read!Init
<1> HIDE DEF n, f
<1>4. ASSUME NEW t \in ReadTopics PROVE n # 0
  <2>1. ReadTopics # {} /\ IsFiniteSet(ReadTopics)
    BY PartsAssumption, SameCounts DEF Read!ReadingAssumption
  <2> QED BY <2>1, FS_EmptySet DEF n
<1>5. ASSUME NEW t \in ReadTopics PROVE Read!FirstPost(t) \in Read!PostRows
  <2>1. 1 \in 1..EntriesKept
    BY <1>1, <1>2, <1>4
  <2>2. <<1>> \in Seq(1..EntriesKept)
    BY <2>1
  <2> QED BY <1>2, <2>1, <2>2 DEF Read!FirstPost, Read!PostRows, Read!Accounts
<1>6. entries \in [1..n -> Read!PostRows]
  BY <1>1, <1>3, <1>5
<1>7. entries \in Seq(Read!PostRows) /\ Len(entries) = n /\ DOMAIN entries = 1..n
  BY <1>1, <1>6
<1>8. Read!TypeOK
  <2>1. [visibility |-> "public", members |-> {}] \in Read!AreaRows
    BY DEF Read!AreaRows, Read!Visibilities
  <2>2. area \in [ReadAreas -> Read!AreaRows] /\ topic \in [ReadTopics -> {"open", "hidden", "deleted"}]
    BY <1>3, <2>1
  <2>3. marker \in [Read!Accounts -> [ReadTopics -> 0..EntriesKept]]
    BY <1>2, <1>3
  <2>4. call \in [Slots -> {Read!Free} \cup Read!Calls]
    BY <1>3
  <2> QED BY <1>2, <1>7, <2>2, <2>3, <2>4 DEF Read!TypeOK
<1>9. \A p \in DOMAIN entries : entries[p].topic = f[p] /\ entries[p].number = 1 /\ entries[p].thread_path = <<1>>
                                /\ ~entries[p].redacted
  BY <1>3, <1>7 DEF Read!FirstPost
<1>10. NumbersCount
  <2>1. ASSUME NEW p \in DOMAIN entries
        PROVE  {q \in Read!PostsOf(entries[p].topic) : q <= p} = {p}
    <3>1. p \in 1..n /\ p <= p
      BY <1>7
    <3>2. \A q \in Read!PostsOf(entries[p].topic) : q = p
      BY <1>1, <1>7, <1>9 DEF Read!PostsOf
    <3>3. p \in Read!PostsOf(entries[p].topic)
      BY DEF Read!PostsOf
    <3> QED BY <3>1, <3>2, <3>3
  <2> QED BY <1>9, <2>1, FS_Singleton DEF NumbersCount
<1>11. PathsGrow /\ RedactedIsDeleted
  BY <1>9 DEF PathsGrow, RedactedIsDeleted
<1>12. MarkersFit
  <2>1. \A t : Held(t) \in Nat
    BY <1>8, HeldFits
  <2>2. \A u \in Read!Accounts, t \in ReadTopics : marker[u][t] = 0
    BY <1>3
  <2> QED BY <2>1, <2>2 DEF MarkersFit
<1>13. MarksStand /\ AdvancesAlone
  BY <1>3 DEF MarksStand, AdvancesAlone, MarkAdvances, Read!Free
<1> QED BY <1>8, <1>10, <1>11, <1>12, <1>13 DEF ReadInv

LEMMA ReadStays ==
    ASSUME ReadInv, [Read!Next]_(Read!vars)
    PROVE  ReadInv' /\ \A u \in Read!Accounts, t \in ReadTopics : marker[u][t] <= marker'[u][t]
<1>1. ReadShape
  BY ReadSteps DEF ReadInv
<1> QED BY <1>1, ReadTypeStep, NumbersStep, MarkersStep DEF ReadInv

LEMMA ReadInvariantly == Read!Spec => []ReadInv
<1>1. Read!Init => ReadInv
  BY ReadInitially
<1>2. ReadInv /\ [Read!Next]_(Read!vars) => ReadInv'
  BY ReadStays
<1> QED BY <1>1, <1>2, PTL DEF Read!Spec

\* The marker of a reader never goes back: a request that advances it holds its
\* row from the comparison to the commit.
THEOREM MarkerOnlyRisesAlways == Read!Spec => Read!MarkerOnlyRises
<1>1. ReadInv /\ [Read!Next]_(Read!vars)
        => [\A u \in Read!Accounts, t \in ReadTopics : marker'[u][t] >= marker[u][t]]_(Read!vars)
  <2> SUFFICES ASSUME ReadInv, [Read!Next]_(Read!vars), NEW u \in Read!Accounts, NEW t \in ReadTopics
               PROVE  marker'[u][t] >= marker[u][t]
    OBVIOUS
  <2> QED BY ReadStays
<1> QED BY <1>1, ReadInvariantly, PTL DEF Read!Spec, Read!MarkerOnlyRises

\* A request that has ended left nothing behind that its reader had seen.
LEMMA MarksReach ==
    ASSUME ReadInv
    PROVE  Read!MarksReachWhatTheySaw
<1>1. ASSUME NEW c \in Slots, call[c].step \in {"ok", "refused"}
      PROVE  /\ \A n \in call[c].seen : n <= marker[call[c].user][call[c].topic]
             /\ call[c].step = "refused" => marker[call[c].user][call[c].topic] >= call[c].next
  <2>1. call[c] # Read!Free
    BY <1>1 DEF Read!Free
  <2>2. call[c] \in Read!Calls /\ MarkStands(call[c])
    BY <2>1, MarkCall DEF ReadInv, MarksStand
  <2> DEFINE s == marker[call[c].user][call[c].topic]
  <2>3. s \in Nat /\ call[c].selected \in Nat /\ call[c].next \in Nat /\ call[c].seen \in SUBSET Nat
    BY <2>2, MarkFields, HeldFits DEF ReadInv, Read!TypeOK
  <2>4. /\ \A n \in call[c].seen : n <= call[c].selected
        /\ call[c].selected <= s
        /\ call[c].step = "refused" => call[c].next <= s
    BY <1>1, <2>2 DEF MarkStands
  <2> HIDE DEF s
  <2>5. (\A n \in call[c].seen : n <= s) /\ (call[c].step = "refused" => s >= call[c].next)
    BY <2>3, <2>4
  <2> QED BY <2>5 DEF s
<1> QED BY <1>1 DEF Read!MarksReachWhatTheySaw

-----------------------------------------------------------------------------
(* Reading: the order of a thread. *)

LEMMA PrefixIs ==
    ASSUME NEW x \in Seq(Nat), NEW y \in Seq(Nat)
    PROVE  Read!IsPrefix(x, y) <=> Len(x) <= Len(y) /\ \A i \in 1..Len(x) : x[i] = y[i]
<1>1. Len(x) \in Nat /\ Len(y) \in Nat
  BY LenProperties
<1>2. SubSeq(x, 1, Len(x)) = x
  BY SubSeqFull
<1>3. CASE Len(x) <= Len(y)
  <2>1. \A i \in 1..Len(x) : y[i] \in Nat
    BY <1>1, <1>3, ElementOfSeq
  <2>2. /\ SubSeq(y, 1, Len(x)) \in Seq(Nat) /\ Len(SubSeq(y, 1, Len(x))) = Len(x)
        /\ \A i \in 1..Len(x) : SubSeq(y, 1, Len(x))[i] = y[i]
    BY <1>1, <2>1
  <2>3. SubSeq(y, 1, Len(x)) = x <=> \A i \in 1..Len(x) : x[i] = y[i]
    BY <2>2, SeqEqual
  <2> QED BY <1>2, <1>3, <2>3 DEF Read!IsPrefix
<1> QED BY <1>3 DEF Read!IsPrefix

\* Where two paths part: one ends, or they have different numbers.
Parts(x, y, i) == /\ i \in 1..Len(x) + 1 /\ i \in 1..Len(y) + 1 /\ \A j \in 1..(i - 1) : x[j] = y[j]
                  /\ \/ i = Len(x) + 1
                     \/ i \in 1..Len(x) /\ i \in 1..Len(y) /\ x[i] < y[i]

LEMMA PathParts ==
    ASSUME NEW x \in Seq(Nat), NEW y \in Seq(Nat)
    PROVE  Read!PathAtMost(x, y) <=> \E i : Parts(x, y, i)
<1>1. /\ Len(x) \in Nat /\ Len(y) \in Nat /\ DOMAIN x = 1..Len(x) /\ DOMAIN y = 1..Len(y)
      /\ \A i \in 1..Len(x) : x[i] \in Nat
      /\ \A i \in 1..Len(y) : y[i] \in Nat
  BY LenProperties, ElementOfSeq
<1>2. Read!IsPrefix(x, y) => Parts(x, y, Len(x) + 1)
  BY <1>1, PrefixIs DEF Parts
<1>3. Parts(x, y, Len(x) + 1) => Read!IsPrefix(x, y)
  BY <1>1, PrefixIs DEF Parts
<1>4. ASSUME NEW i, Parts(x, y, i), i # Len(x) + 1 PROVE Read!PathAtMost(x, y)
  BY <1>1, <1>4 DEF Parts, Read!PathAtMost
<1>5. ASSUME Read!PathAtMost(x, y), ~Read!IsPrefix(x, y) PROVE \E i : Parts(x, y, i)
  <2>1. PICK i \in DOMAIN x \cap DOMAIN y : x[i] < y[i] /\ \A j \in 1..(i - 1) : x[j] = y[j]
    BY <1>5 DEF Read!PathAtMost
  <2>2. Parts(x, y, i)
    BY <1>1, <2>1 DEF Parts
  <2> QED BY <2>2
<1> QED BY <1>2, <1>3, <1>4, <1>5 DEF Read!PathAtMost

LEMMA PathOrder ==
    ASSUME NEW x \in Seq(Nat), NEW y \in Seq(Nat)
    PROVE  /\ Read!PathAtMost(x, y) \/ Read!PathAtMost(y, x)
           /\ Read!PathAtMost(x, y) /\ Read!PathAtMost(y, x) => x = y
           /\ \A z \in Seq(Nat) : Read!PathAtMost(x, y) /\ Read!PathAtMost(y, z) => Read!PathAtMost(x, z)
<1>1. /\ Len(x) \in Nat /\ Len(y) \in Nat
      /\ \A i \in 1..Len(x) : x[i] \in Nat
      /\ \A i \in 1..Len(y) : y[i] \in Nat
  BY LenProperties, ElementOfSeq
<1>2. \E i : Parts(x, y, i) \/ Parts(y, x, i)
  <2> DEFINE D == {i \in 1..Len(x) : i \in 1..Len(y) /\ x[i] # y[i]}
  <2>1. CASE D = {}
    <3>1. CASE Len(x) <= Len(y)
      <4>1. \A i \in 1..Len(x) : i \in 1..Len(y) /\ x[i] = y[i]
        BY <1>1, <2>1, <3>1
      <4>2. Parts(x, y, Len(x) + 1)
        BY <1>1, <3>1, <4>1 DEF Parts
      <4> QED BY <4>2
    <3>2. CASE Len(y) <= Len(x)
      <4>1. \A i \in 1..Len(y) : i \in 1..Len(x) /\ y[i] = x[i]
        BY <1>1, <2>1, <3>2
      <4>2. Parts(y, x, Len(y) + 1)
        BY <1>1, <3>2, <4>1 DEF Parts
      <4> QED BY <4>2
    <3> QED BY <1>1, <3>1, <3>2
  <2>2. CASE D # {}
    <3>1. D \in SUBSET (1..Len(x)) /\ D \in SUBSET Int
      OBVIOUS
    <3>2. IsFiniteSet(D)
      BY <1>1, <3>1, UpTo, FS_Subset
    <3>3. PICK i \in D : \A j \in D : i <= j
      <4> HIDE DEF D
      <4> QED BY <2>2, <3>1, <3>2, Extremes
    <3>4. ASSUME NEW j \in 1..(i - 1) PROVE x[j] = y[j]
      <4>1. i \in Nat /\ i <= Len(x) /\ i <= Len(y)
        BY <1>1, <3>3
      <4>2. j \in 1..Len(x) /\ j \in 1..Len(y) /\ ~(i <= j)
        BY <1>1, <4>1
      <4> QED BY <3>3, <4>2
    <3>5. x[i] < y[i] \/ y[i] < x[i]
      BY <1>1, <3>3
    <3>6. Parts(x, y, i) \/ Parts(y, x, i)
      BY <1>1, <3>3, <3>4, <3>5 DEF Parts
    <3> QED BY <3>6
  <2> QED BY <2>1, <2>2
<1>3. ASSUME NEW i, NEW j, Parts(x, y, i), Parts(y, x, j) PROVE x = y
  <2>1. i \in Nat /\ j \in Nat
    BY <1>1, <1>3 DEF Parts
  <2>2. i = Len(x) + 1 /\ j = Len(y) + 1
    BY <1>1, <1>3, <2>1 DEF Parts
  <2>3. Len(x) = Len(y) /\ \A k \in 1..Len(x) : x[k] = y[k]
    BY <1>1, <1>3, <2>2 DEF Parts
  <2> QED BY <2>3, SeqEqual
<1>4. ASSUME NEW z \in Seq(Nat), NEW i, NEW j, Parts(x, y, i), Parts(y, z, j) PROVE \E k : Parts(x, z, k)
  <2>1. /\ Len(z) \in Nat /\ \A k \in 1..Len(z) : z[k] \in Nat
        /\ i \in Nat /\ j \in Nat
    BY <1>1, <1>4, LenProperties, ElementOfSeq DEF Parts
  <2>2. CASE i <= j
    <3>1. i \in 1..Len(x) + 1 /\ i \in 1..Len(z) + 1 /\ \A k \in 1..(i - 1) : x[k] = z[k]
      <4>1. i \in 1..Len(z) + 1 /\ i \in 1..Len(x) + 1
        BY <1>4, <2>1, <2>2 DEF Parts
      <4>2. \A k \in 1..(i - 1) : k \in 1..(j - 1)
        BY <2>1, <2>2
      <4> QED BY <1>4, <4>1, <4>2 DEF Parts
    <3>2. CASE i \in 1..Len(x) /\ i \in 1..Len(y) /\ x[i] < y[i] /\ i < j
      <4>1. i \in 1..(j - 1) /\ i \in 1..Len(z) /\ y[i] = z[i]
        BY <1>4, <2>1, <3>2 DEF Parts
      <4>2. Parts(x, z, i)
        BY <3>1, <3>2, <4>1 DEF Parts
      <4> QED BY <4>2
    <3>3. CASE i \in 1..Len(x) /\ i \in 1..Len(y) /\ x[i] < y[i] /\ i = j
      <4>1. i # Len(y) + 1
        BY <1>1, <3>3
      <4>2. i \in 1..Len(z) /\ y[i] < z[i]
        BY <1>4, <3>3, <4>1 DEF Parts
      <4>3. x[i] \in Nat /\ y[i] \in Nat /\ z[i] \in Nat
        BY <1>1, <2>1, <3>3, <4>2
      <4>4. x[i] < z[i]
        BY <3>3, <4>2, <4>3
      <4>5. Parts(x, z, i)
        BY <3>1, <3>3, <4>2, <4>4 DEF Parts
      <4> QED BY <4>5
    <3>4. CASE i = Len(x) + 1
      <4>1. Parts(x, z, i)
        BY <3>1, <3>4 DEF Parts
      <4> QED BY <4>1
    <3>5. i < j \/ i = j
      BY <2>1, <2>2
    <3> QED BY <1>4, <3>2, <3>3, <3>4, <3>5 DEF Parts
  <2>3. CASE j < i
    <3>1. j # Len(y) + 1 /\ j \in 1..(i - 1) /\ j \in 1..Len(x)
      BY <1>1, <1>4, <2>1, <2>3 DEF Parts
    <3>2. x[j] = y[j] /\ j \in 1..Len(z) /\ y[j] < z[j]
      BY <1>4, <3>1 DEF Parts
    <3>3. j \in 1..Len(x) + 1 /\ j \in 1..Len(z) + 1
      BY <1>1, <2>1, <3>1, <3>2
    <3>4. \A k \in 1..(j - 1) : x[k] = z[k]
      <4>1. \A k \in 1..(j - 1) : k \in 1..(i - 1)
        BY <2>1, <2>3
      <4> QED BY <1>4, <4>1 DEF Parts
    <3>5. Parts(x, z, j)
      BY <3>1, <3>2, <3>3, <3>4 DEF Parts
    <3> QED BY <3>5
  <2> QED BY <2>1, <2>2, <2>3
<1> QED BY <1>2, <1>3, <1>4, PathParts

-----------------------------------------------------------------------------
(* Reading: the nodes of a topic's pages. *)

\* The order of the posts of a topic.
InThread(t) == {r \in Read!PostsOf(t) \X Read!PostsOf(t) :
                  r[1] # r[2] /\ Read!PathAtMost(Read!Path(r[1]), Read!Path(r[2]))}

LEMMA PathsDiffer ==
    ASSUME ReadInv, NEW p \in DOMAIN entries
    PROVE  /\ Read!Path(p) \in Seq(Nat) /\ Len(Read!Path(p)) \in Nat \ {0}
           /\ Read!Path(p)[Len(Read!Path(p))] = entries[p].number
           /\ \A q \in DOMAIN entries : q # p /\ entries[q].topic = entries[p].topic => Read!Path(q) # Read!Path(p)
<1>1. \A q \in DOMAIN entries : /\ entries[q].thread_path \in Seq(1..EntriesKept) /\ entries[q].number \in Nat
                                /\ entries[q].thread_path \in Seq(Nat)
  <2>1. EntriesKept \in Nat
    BY HeldFits DEF ReadInv
  <2> QED BY <2>1, NumbersFit, SeqMonotonic DEF ReadInv, Read!PostRows
<1>2. ASSUME NEW q \in DOMAIN entries
      PROVE  Len(entries[q].thread_path) \in Nat \ {0}
             /\ entries[q].thread_path[Len(entries[q].thread_path)] = entries[q].number
  <2>1. CASE entries[q].thread_path = <<entries[q].number>>
    BY <1>1, <2>1
  <2>2. ASSUME NEW r \in DOMAIN entries, entries[q].thread_path = Append(entries[r].thread_path, entries[q].number)
        PROVE  Len(entries[q].thread_path) \in Nat \ {0}
               /\ entries[q].thread_path[Len(entries[q].thread_path)] = entries[q].number
    <3>1. Len(entries[r].thread_path) \in Nat
      BY <1>1, LenProperties
    <3>2. Len(entries[q].thread_path) = Len(entries[r].thread_path) + 1
          /\ entries[q].thread_path[Len(entries[r].thread_path) + 1] = entries[q].number
      BY <1>1, <2>2, AppendProperties
    <3> QED BY <3>1, <3>2
  <2> QED BY <2>1, <2>2 DEF ReadInv, PathsGrow
<1>3. \A q \in DOMAIN entries : q # p /\ entries[q].topic = entries[p].topic => entries[q].number # entries[p].number
  BY NumbersFit DEF ReadInv
<1> QED BY <1>1, <1>2, <1>3 DEF Read!Path

LEMMA ThreadIsOrdered ==
    ASSUME ReadInv, NEW t, NEW nodes \in SUBSET Read!PostsOf(t)
    PROVE  /\ IsFiniteSet(nodes) /\ Cardinality(nodes) \in Nat /\ Orders(InThread(t), nodes)
           /\ \A p \in nodes : /\ Read!NodeOrdinal(p, nodes) = Rank(InThread(t), nodes, p) + 1
                               /\ Rank(InThread(t), nodes, p) \in Nat
                               /\ Rank(InThread(t), nodes, p) < Cardinality(nodes)
<1>1. IsFiniteSet(nodes) /\ Cardinality(nodes) \in Nat
  BY HeldFits, FS_Subset, FS_CardinalityType DEF ReadInv
<1>2. \A p \in nodes : p \in DOMAIN entries /\ entries[p].topic = t /\ Read!Path(p) \in Seq(Nat)
  BY PathsDiffer DEF Read!PostsOf
<1>3. \A p, q \in nodes : p # q => Read!Path(p) # Read!Path(q)
  BY <1>2, PathsDiffer
<1>4. \A p, q \in nodes : <<p, q>> \in InThread(t) <=> p # q /\ Read!PathAtMost(Read!Path(p), Read!Path(q))
  BY DEF InThread
<1>5. Orders(InThread(t), nodes)
  <2>1. \A p, q \in nodes : /\ Read!PathAtMost(Read!Path(p), Read!Path(q)) \/ Read!PathAtMost(Read!Path(q), Read!Path(p))
                            /\ p # q => ~(Read!PathAtMost(Read!Path(p), Read!Path(q)) /\ Read!PathAtMost(Read!Path(q), Read!Path(p)))
    BY <1>2, <1>3, PathOrder
  <2>2. \A p, q, r \in nodes : Read!PathAtMost(Read!Path(p), Read!Path(q)) /\ Read!PathAtMost(Read!Path(q), Read!Path(r))
                                  => Read!PathAtMost(Read!Path(p), Read!Path(r))
    BY <1>2, PathOrder
  <2> QED BY <1>4, <2>1, <2>2 DEF Orders
<1>6. ASSUME NEW p \in nodes PROVE Read!NodeOrdinal(p, nodes) = Rank(InThread(t), nodes, p) + 1
  <2>1. Read!PathAtMost(Read!Path(p), Read!Path(p))
    BY <1>2, PathOrder
  <2>2. {q \in nodes : Read!PathAtMost(Read!Path(q), Read!Path(p))} = Preceding(InThread(t), nodes, p) \cup {p}
    BY <1>4, <2>1 DEF Preceding
  <2>3. Preceding(InThread(t), nodes, p) \in SUBSET nodes /\ p \notin Preceding(InThread(t), nodes, p)
    BY <1>4 DEF Preceding
  <2>4. IsFiniteSet(Preceding(InThread(t), nodes, p))
    BY <1>1, <2>3, FS_Subset
  <2>5. Cardinality(Preceding(InThread(t), nodes, p) \cup {p}) = Cardinality(Preceding(InThread(t), nodes, p)) + 1
    BY <2>3, <2>4, FS_AddElement
  <2>6. Read!NodeOrdinal(p, nodes) = Cardinality({q \in nodes : Read!PathAtMost(Read!Path(q), Read!Path(p))})
    BY SameCounts DEF Read!NodeOrdinal
  <2> QED BY <2>2, <2>5, <2>6 DEF Rank
<1>7. \A p \in nodes : Rank(InThread(t), nodes, p) \in Nat /\ Rank(InThread(t), nodes, p) < Cardinality(nodes)
  BY <1>1, <1>5, RankIsStrict
<1> QED BY <1>1, <1>5, <1>6, <1>7

LEMMA NodesAreOfTheTopic ==
    ASSUME NEW u, NEW t
    PROVE  Read!ThreadNodes(u, t) \in SUBSET Read!PostsOf(t) /\ Read!Rooted(t) \in SUBSET Read!PostsOf(t)
BY DEF Read!ThreadNodes, Read!Rooted

-----------------------------------------------------------------------------
(* Reading: pages. *)

\* The page of a row, and the rows of a page.
LEMMA PageIs ==
    ASSUME NEW o \in Nat, o > 0
    PROVE  /\ Read!PageOf(o) \in Nat /\ Read!PageOf(o) >= 1
           /\ \A k \in Nat : Read!PageOf(o) = k <=> (k - 1) * PostPageSize < o /\ o <= k * PostPageSize
<1>1. PostPageSize \in Nat /\ PostPageSize > 0
  BY PartsAssumption DEF Read!ReadingAssumption
<1> DEFINE d == (o - 1) \div PostPageSize
<1>2. d \in Nat /\ d * PostPageSize <= o - 1 /\ o - 1 < (d + 1) * PostPageSize
  BY <1>1
<1>3. Read!PageOf(o) = 1 + d
  BY DEF Read!PageOf
<1> HIDE DEF d
<1>4. ASSUME NEW k \in Nat, (k - 1) * PostPageSize < o, o <= k * PostPageSize PROVE k = d + 1
  <2>1. CASE k <= d
    <3>1. k * PostPageSize <= d * PostPageSize
      BY <1>1, <1>2, <2>1
    <3> QED BY <1>1, <1>2, <1>4, <3>1
  <2>2. CASE k >= d + 2
    <3>1. (d + 1) * PostPageSize <= (k - 1) * PostPageSize
      BY <1>1, <1>2, <2>2
    <3> QED BY <1>1, <1>2, <1>4, <3>1
  <2> QED BY <1>2, <2>1, <2>2
<1>5. (d + 1 - 1) * PostPageSize < o /\ o <= (d + 1) * PostPageSize
  BY <1>1, <1>2
<1> QED BY <1>2, <1>3, <1>4, <1>5

LEMMA PageOfNodes ==
    ASSUME ReadInv, NEW t, NEW nodes \in SUBSET Read!PostsOf(t), NEW page \in Nat, page >= 1
    PROVE  LET shown == {p \in nodes : Read!PageOf(Read!NodeOrdinal(p, nodes)) = page}
               left == Cardinality(nodes) - (page - 1) * PostPageSize
           IN /\ left > 0 => Cardinality(shown) = IF PostPageSize <= left THEN PostPageSize ELSE left
              /\ left <= 0 => shown = {}
<1> DEFINE shown == {p \in nodes : Read!PageOf(Read!NodeOrdinal(p, nodes)) = page}
           n == Cardinality(nodes)
           from == (page - 1) * PostPageSize
           left == n - from
           size == IF PostPageSize <= left THEN PostPageSize ELSE left
           R == InThread(t)
<1>1. PostPageSize \in Nat /\ PostPageSize > 0
  BY PartsAssumption DEF Read!ReadingAssumption
<1>2. /\ IsFiniteSet(nodes) /\ n \in Nat /\ Orders(R, nodes)
      /\ \A p \in nodes : Read!NodeOrdinal(p, nodes) = Rank(R, nodes, p) + 1 /\ Rank(R, nodes, p) \in Nat
                          /\ Rank(R, nodes, p) < n
  BY ThreadIsOrdered
<1>3. from \in Nat /\ page * PostPageSize = from + PostPageSize
  BY <1>1
<1>4. \A p \in nodes : Read!PageOf(Rank(R, nodes, p) + 1) = page
                        <=> from < Rank(R, nodes, p) + 1 /\ Rank(R, nodes, p) + 1 <= page * PostPageSize
  BY <1>2, PageIs
<1> HIDE DEF n, R, from
<1>5. \A p \in nodes : p \in shown <=> Rank(R, nodes, p) \in from..(from + size - 1)
  BY <1>1, <1>2, <1>3, <1>4
<1>6. ASSUME left > 0 PROVE Cardinality(shown) = size
  <2> DEFINE I == from..(from + size - 1)
  <2>1. I \in SUBSET Nat /\ \A i \in I : i < n
    BY <1>1, <1>2, <1>3
  <2>2. Cardinality(I) = size
    <3>1. size \in Nat /\ size > 0 /\ from \in Int /\ from + size - 1 \in Int
      BY <1>1, <1>2, <1>3, <1>6
    <3> HIDE DEF size
    <3>2. Cardinality(from..(from + size - 1)) = IF from > from + size - 1 THEN 0 ELSE (from + size - 1) - from + 1
      BY <3>1, FS_Interval
    <3> QED BY <1>3, <3>1, <3>2
  <2>3. shown = {p \in nodes : Rank(R, nodes, p) \in I}
    BY <1>5
  <2> HIDE DEF I, shown, size
  <2> QED BY <1>2, <2>1, <2>2, <2>3, RanksCount DEF n
<1>7. ASSUME left <= 0 PROVE shown = {}
  BY <1>1, <1>2, <1>3, <1>5, <1>7
<1> HIDE DEF shown
<1> QED BY <1>6, <1>7 DEF n, from, shown

LEMMA MinOfTwo ==
    ASSUME NEW a \in Int, NEW b \in Int
    PROVE  Read!Min({a, b}) = IF a <= b THEN a ELSE b
<1>1. {a, b} \in SUBSET Int /\ IsFiniteSet({a, b}) /\ {a, b} # {}
  <2>1. IsFiniteSet({a}) /\ {a} \cup {b} = {a, b}
    BY FS_Singleton
  <2> QED BY <2>1, FS_AddElement
<1>2. Read!Min({a, b}) \in {a, b} /\ \A m \in {a, b} : Read!Min({a, b}) <= m
  BY <1>1, ReadMin
<1> QED BY <1>2

\* A node's parent is a node, before it.
LEMMA ParentsAreNodes ==
    ASSUME ReadInv, NEW u, NEW t, NEW p \in Read!ThreadNodes(u, t)
    PROVE  Read!validVisibleThreadNode(p, Read!ThreadNodes(u, t))
<1> DEFINE nodes == Read!ThreadNodes(u, t)
<1>1. nodes \in SUBSET Read!PostsOf(t) /\ p \in DOMAIN entries /\ entries[p].topic = t
  BY NodesAreOfTheTopic DEF Read!PostsOf
<1>2. ASSUME Len(Read!Path(p)) > 1
      PROVE  \E q \in nodes : /\ Read!Path(q) = Read!Front(Read!Path(p))
                              /\ Read!NodeOrdinal(q, nodes) < Read!NodeOrdinal(p, nodes)
  <2>1. entries[p].thread_path # <<entries[p].number>>
    <3>1. Len(<<entries[p].number>>) = 1
      OBVIOUS
    <3>2. Len(entries[p].thread_path) > 1 /\ ~(1 > 1)
      BY <1>2 DEF Read!Path
    <3> QED BY <3>1, <3>2, Zenon
  <2>2. PICK q \in DOMAIN entries : entries[q].topic = t /\ Read!Path(p) = Append(Read!Path(q), entries[p].number)
    BY <1>1, <2>1 DEF ReadInv, PathsGrow, Read!Path
  <2>3. /\ Read!Path(q) \in Seq(Nat) /\ Read!Path(p) \in Seq(Nat) /\ Len(Read!Path(q)) \in Nat
        /\ entries[p].number \in Nat
    <3>1. entries[p].number \in 1..EntriesKept /\ EntriesKept \in Nat
      BY NumbersFit, HeldFits, <1>1 DEF ReadInv
    <3> QED BY <1>1, <3>1, PathsDiffer
  <2>4. /\ Len(Read!Path(p)) = Len(Read!Path(q)) + 1
        /\ \A i \in 1..Len(Read!Path(q)) : Read!Path(p)[i] = Read!Path(q)[i]
    BY <2>2, <2>3, AppendProperties
  <2>5. Read!Path(q) = Read!Front(Read!Path(p))
    <3>1. SubSeq(Read!Path(p), 1, Len(Read!Path(q))) = Read!Path(q)
      <4>1. \A i \in 1..Len(Read!Path(q)) : Read!Path(p)[i] \in Nat
        BY <2>3, <2>4, ElementOfSeq
      <4>2. /\ SubSeq(Read!Path(p), 1, Len(Read!Path(q))) \in Seq(Nat)
            /\ Len(SubSeq(Read!Path(p), 1, Len(Read!Path(q)))) = Len(Read!Path(q))
            /\ \A i \in 1..Len(Read!Path(q)) : SubSeq(Read!Path(p), 1, Len(Read!Path(q)))[i] = Read!Path(q)[i]
        BY <2>3, <2>4, <4>1
      <4> QED BY <2>3, <4>2, SeqEqual
    <3> QED BY <2>3, <2>4, <3>1 DEF Read!Front
  <2>6. Read!IsPrefix(Read!Path(q), Read!Path(p)) /\ q # p
    BY <2>3, <2>4, PrefixIs
  <2>7. Read!PostsOf(t) \in SUBSET DOMAIN entries /\ q \in Read!PostsOf(t) /\ p \in Read!PostsOf(t)
    BY <1>1, <2>2 DEF Read!PostsOf
  <2>8. ASSUME NEW d \in Read!PostsOf(t), Read!IsDescendant(d, p) PROVE Read!IsDescendant(d, q)
    <3>1. Read!IsPrefix(Read!Path(p), Read!Path(d)) /\ entries[d].topic = t /\ Read!Path(d) \in Seq(Nat)
      BY <2>7, <2>8, PathsDiffer DEF Read!IsDescendant, Read!PostsOf
    <3>2. Len(Read!Path(p)) <= Len(Read!Path(d)) /\ \A i \in 1..Len(Read!Path(p)) : Read!Path(p)[i] = Read!Path(d)[i]
          /\ Len(Read!Path(d)) \in Nat
      BY <2>3, <3>1, PrefixIs, LenProperties
    <3>3. Read!IsPrefix(Read!Path(q), Read!Path(d))
      <4>1. /\ Len(Read!Path(q)) <= Len(Read!Path(d))
            /\ \A i \in 1..Len(Read!Path(q)) : i \in 1..Len(Read!Path(p))
        BY <2>3, <2>4, <3>2
      <4>2. \A i \in 1..Len(Read!Path(q)) : Read!Path(q)[i] = Read!Path(d)[i]
        BY <2>4, <3>2, <4>1
      <4> QED BY <2>3, <3>1, <4>1, <4>2, PrefixIs
    <3>4. d # q
      BY <2>3, <2>4, <3>2
    <3> QED BY <2>2, <3>1, <3>3, <3>4 DEF Read!IsDescendant
  <2>9. Read!IsDescendant(p, q)
    BY <1>1, <2>2, <2>6 DEF Read!IsDescendant
  <2>10. q \in nodes
    <3>1. CASE u \in ReadStaff
      BY <2>7, <3>1 DEF Read!ThreadNodes
    <3>2. CASE u \notin ReadStaff
      <4>1. ~entries[p].deleted \/ \E d \in Read!PostsOf(t) : Read!IsDescendant(d, p) /\ ~entries[d].deleted
        BY <3>2 DEF Read!ThreadNodes, Read!Rooted
      <4>2. \E d \in Read!PostsOf(t) : Read!IsDescendant(d, q) /\ ~entries[d].deleted
        BY <2>7, <2>8, <2>9, <4>1
      <4> QED BY <2>7, <3>2, <4>2 DEF Read!ThreadNodes, Read!Rooted
    <3> QED BY <3>1, <3>2
  <2>11. <<q, p>> \in InThread(t)
    BY <2>6, <2>7 DEF InThread, Read!PathAtMost
  <2>12. /\ Rank(InThread(t), nodes, q) < Rank(InThread(t), nodes, p)
         /\ Read!NodeOrdinal(q, nodes) = Rank(InThread(t), nodes, q) + 1
         /\ Read!NodeOrdinal(p, nodes) = Rank(InThread(t), nodes, p) + 1
         /\ Rank(InThread(t), nodes, q) \in Nat /\ Rank(InThread(t), nodes, p) \in Nat
    <3>1. p \in nodes
      OBVIOUS
    <3> HIDE DEF nodes
    <3> QED BY <1>1, <2>10, <2>11, <3>1, ThreadIsOrdered, RankIsStrict
  <2> QED BY <2>5, <2>10, <2>12
<1>3. ~entries[p].deleted => ~entries[p].redacted
  BY <1>1 DEF ReadInv, RedactedIsDeleted
<1> QED BY <1>2, <1>3 DEF Read!validVisibleThreadNode

LEMMA StateIsValid ==
    ASSUME ReadInv, NEW u \in Read!Accounts, NEW t \in ReadTopics
    PROVE  /\ Read!validatedTopicReadState(u, t)
           /\ marker[u][t] \in Nat /\ Read!ReadHead(u, t) \in Nat
<1>1. Read!ReadHead(u, t) \in Nat /\ Read!ReadHead(u, t) <= Held(t) /\ Held(t) \in Nat
  BY HeadFits, HeldFits DEF ReadInv
<1>2. marker[u][t] \in Nat /\ marker[u][t] <= Held(t)
  BY HeldFits DEF ReadInv, Read!TypeOK, MarkersFit
<1>3. Read!ReadHead(u, t) < 1 + Held(t) /\ marker[u][t] < 1 + Held(t)
  BY <1>1, <1>2
<1> QED BY <1>1, <1>2, <1>3, NextNumber DEF Read!validatedTopicReadState

\* A page of a topic: no order of replies and moderation makes it malformed.
LEMMA PagesAreWellFormed ==
    ASSUME ReadInv, NEW u \in Read!Readers, NEW t \in ReadTopics, NEW page \in 1..MaximumPostPage
    PROVE  Read!topicPostList(u, t, page)
<1> DEFINE nodes == Read!ThreadNodes(u, t)
           all == {p \in nodes : Read!PageOf(Read!NodeOrdinal(p, nodes)) = page}
           left == Cardinality(nodes) - (page - 1) * PostPageSize
<1>1. /\ page \in Nat /\ page >= 1 /\ PostPageSize \in Nat /\ PostPageSize > 0
      /\ nodes \in SUBSET Read!PostsOf(t) /\ Cardinality(nodes) \in Nat
  <2>1. /\ page \in Nat /\ page >= 1 /\ PostPageSize \in Nat /\ PostPageSize > 0
    BY PartsAssumption DEF Read!ReadingAssumption
  <2>2. nodes \in SUBSET Read!PostsOf(t)
    BY NodesAreOfTheTopic
  <2> HIDE DEF nodes
  <2> QED BY <2>1, <2>2, ThreadIsOrdered
<1>2. /\ left > 0 => Cardinality(all) = IF PostPageSize <= left THEN PostPageSize ELSE left
      /\ left <= 0 => all = {}
  <2> HIDE DEF nodes
  <2> QED BY <1>1, PageOfNodes
<1>3. left \in Int /\ (page = 1 => left = Cardinality(nodes))
  <2> DEFINE n == Cardinality(nodes)
  <2>1. n \in Nat
    BY <1>1
  <2> HIDE DEF n
  <2>2. (page - 1) * PostPageSize \in Int /\ (page = 1 => (page - 1) * PostPageSize = 0)
    BY <1>1
  <2>3. n - (page - 1) * PostPageSize \in Int /\ (page = 1 => n - (page - 1) * PostPageSize = n)
    BY <2>1, <2>2
  <2> QED BY <2>3 DEF n
<1>4. Read!Min({PostPageSize, left}) = IF PostPageSize <= left THEN PostPageSize ELSE left
  <2> HIDE DEF left
  <2> QED BY <1>1, <1>3, MinOfTwo
<1>5. ASSUME ~(all = {} /\ page > 1) PROVE Cardinality(all) = Read!Min({PostPageSize, left})
  <2>1. CASE left > 0
    BY <1>2, <1>4, <2>1
  <2>2. CASE left <= 0
    <3>1. all = {} /\ page = 1
      BY <1>1, <1>2, <1>5, <2>2
    <3>2. Cardinality(all) = 0 /\ Cardinality(nodes) = 0 /\ left = 0
      <4>1. Cardinality(nodes) = left /\ Cardinality(nodes) \in Nat
        BY <1>1, <1>3, <3>1
      <4> HIDE DEF left, all
      <4> QED BY <2>2, <3>1, <4>1, FS_EmptySet
    <3> HIDE DEF left, all
    <3> QED BY <1>1, <1>4, <3>2
  <2> QED BY <1>3, <2>1, <2>2
<1>6. \A p \in all : Read!validVisibleThreadNode(p, nodes)
  BY ParentsAreNodes
<1>7. Read!VisibleTopicPostPage(u, t, page) # "malformed"
  <2>1. Read!TopicVisible(u, t) => Read!GetVisibleTopicPostPage(u, t, page) = all
    BY DEF Read!GetVisibleTopicPostPage
  <2>2. Read!Cardinality(all) = Cardinality(all) /\ Read!Cardinality(nodes) = Cardinality(nodes)
    BY SameCounts
  <2>3. Read!VisibleTopicPostPage(u, t, page)
          = IF ~Read!TopicVisible(u, t) \/ page > MaximumPostPage
                 \/ (Read!GetVisibleTopicPostPage(u, t, page) = {} /\ page > 1) THEN "no rows"
            ELSE IF Read!Cardinality(Read!GetVisibleTopicPostPage(u, t, page))
                      = Read!Min({PostPageSize, Read!Cardinality(nodes) - (page - 1) * PostPageSize})
                    /\ \A p \in Read!GetVisibleTopicPostPage(u, t, page) : Read!validVisibleThreadNode(p, nodes)
              THEN "page" ELSE "malformed"
    BY DEF Read!VisibleTopicPostPage
  <2>4. CASE ~Read!TopicVisible(u, t)
    BY <2>3, <2>4
  <2>5. CASE Read!TopicVisible(u, t)
    <3> HIDE DEF all, nodes
    <3> QED BY <1>5, <1>6, <2>1, <2>2, <2>3, <2>5
  <2> QED BY <2>4, <2>5
<1>8. u \in Read!Accounts => Read!validatedTopicReadState(u, t)
  BY StateIsValid
<1>9. u = visitor \/ u \in Read!Accounts
  BY DEF Read!Readers
<1> QED BY <1>7, <1>8, <1>9 DEF Read!topicPostList, Read!LoadVisibleTopicPostPage

-----------------------------------------------------------------------------
(* Reading: what is unread, and the lists. *)

\* The first unread post and the topic's state are taken from the same rows.
LEMMA TargetIs ==
    ASSUME ReadInv, NEW u \in Read!Accounts, NEW t \in ReadTopics
    PROVE  LET target == Read!GetFirstUnreadTarget(u, t) IN
           /\ Read!ReadHead(u, t) <= marker[u][t] =>
                target.post = Read!NoPost /\ target.ordinal = 0
           /\ ~(Read!ReadHead(u, t) <= marker[u][t]) =>
                /\ target.post # Read!NoPost /\ target.post \in Read!Eligible(u, t)
                /\ target.ordinal = Read!NodeOrdinal(target.post, Read!ThreadNodes(u, t))
                /\ entries[target.post].number <= Read!ReadHead(u, t)
<1> DEFINE above == {p \in Read!Eligible(u, t) : entries[p].number > marker[u][t]}
           head == Read!ReadHead(u, t)
           seen == marker[u][t]
<1>1. /\ head \in Nat /\ seen \in Nat
      /\ \A n \in Read!Numbers(Read!Eligible(u, t)) : n \in 1..EntriesKept /\ n <= head
      /\ head # 0 => head \in Read!Numbers(Read!Eligible(u, t))
  BY StateIsValid, HeadFits DEF ReadInv
<1>2. \A p \in Read!Eligible(u, t) : /\ p \in DOMAIN entries /\ p # 0 /\ entries[p].number \in Nat /\ entries[p].number <= head
  <2>1. DOMAIN entries = 1..Len(entries) /\ Len(entries) \in Nat
    BY HeldFits DEF ReadInv
  <2>2. \A p \in Read!Eligible(u, t) : p \in DOMAIN entries /\ entries[p].number \in Read!Numbers(Read!Eligible(u, t))
    BY DEF Read!Eligible, Read!PostsOf, Read!Numbers
  <2>3. EntriesKept \in Nat
    BY HeldFits DEF ReadInv
  <2> HIDE DEF head
  <2>4. \A n \in Read!Numbers(Read!Eligible(u, t)) : n \in Nat /\ n <= head
    BY <1>1, <2>3
  <2> QED BY <2>1, <2>2, <2>4
<1>3. above = {} <=> head <= seen
  <2>1. ASSUME head <= seen PROVE above = {}
    <3> HIDE DEF head, seen
    <3>1. \A p \in Read!Eligible(u, t) : ~(entries[p].number > seen)
      BY <1>1, <1>2, <2>1
    <3> QED BY <3>1 DEF seen
  <2>2. ASSUME ~(head <= seen) PROVE above # {}
    <3>1. head # 0 /\ head > seen
      <4> HIDE DEF head, seen
      <4> QED BY <1>1, <2>2
    <3>2. PICK p \in Read!Eligible(u, t) : entries[p].number = head
      BY <1>1, <3>1 DEF Read!Numbers
    <3> QED BY <3>1, <3>2
  <2> QED BY <2>1, <2>2
<1>4. ASSUME above # {}
      PROVE  \E q \in above : entries[q].number = Read!Min(Read!Numbers(above))
  <2>1. Read!Numbers(above) \in SUBSET Int /\ Read!Numbers(above) # {} /\ Read!Numbers(above) \in SUBSET Nat
        /\ \A n \in Read!Numbers(above) : n <= head
    BY <1>2, <1>4 DEF Read!Numbers
  <2>2. IsFiniteSet(Read!Numbers(above))
    BY <1>1, <2>1, FS_BoundedSetOfNaturals
  <2>3. Read!Min(Read!Numbers(above)) \in Read!Numbers(above)
    <3> HIDE DEF above
    <3> QED BY <2>1, <2>2, ReadMin
  <2> QED BY <2>3 DEF Read!Numbers
<1> DEFINE q == CHOOSE q \in above : entries[q].number = Read!Min(Read!Numbers(above))
<1>5. Read!GetFirstUnreadTarget(u, t)
        = IF above = {} THEN [post |-> Read!NoPost, ordinal |-> 0]
          ELSE [post |-> q, ordinal |-> Read!NodeOrdinal(q, Read!ThreadNodes(u, t))]
  BY DEF Read!GetFirstUnreadTarget
<1>6. above # {} => q \in above
  BY <1>4
<1>7. \A p \in above : p \in Read!Eligible(u, t) /\ p # Read!NoPost /\ entries[p].number <= head
  BY <1>2 DEF Read!NoPost
<1> HIDE DEF above, q, head, seen
<1>8. CASE above = {}
  BY <1>3, <1>5, <1>8 DEF head, seen
<1>9. CASE above # {}
  BY <1>3, <1>5, <1>6, <1>7, <1>9 DEF head, seen
<1> QED BY <1>8, <1>9

LEMMA UnreadIsFound ==
    ASSUME ReadInv, NEW u \in Read!Accounts, NEW t \in ReadTopics
    PROVE  /\ Read!FirstUnread(u, t).valid
           /\ Read!FirstUnread(u, t).post # Read!NoPost <=> Read!GetAuthorizedTopicReadState(u, t) \in {"new", "unread"}
           /\ Read!AuthorizedTopic(u, t) /\ Read!FirstUnread(u, t).page # 0 =>
                Read!FirstUnread(u, t).post \in Read!GetVisibleTopicPostPage(u, t, Read!FirstUnread(u, t).page)
<1> DEFINE target == Read!GetFirstUnreadTarget(u, t)
           head == Read!ReadHead(u, t)
           seen == marker[u][t]
           found == Read!FirstUnread(u, t)
<1>1. Read!validatedTopicReadState(u, t) /\ head \in Nat /\ seen \in Nat
  BY StateIsValid
<1>2. /\ head <= seen => target.post = Read!NoPost /\ target.ordinal = 0
      /\ ~(head <= seen) =>
                /\ target.post # Read!NoPost /\ target.post \in Read!Eligible(u, t)
                /\ target.ordinal = Read!NodeOrdinal(target.post, Read!ThreadNodes(u, t))
                /\ entries[target.post].number <= head
  BY TargetIs
<1>3. /\ found.post = target.post
      /\ found.page = IF target.post = Read!NoPost \/ target.ordinal > PostPageSize * MaximumPostPage
                        THEN 0 ELSE Read!PageOf(target.ordinal)
      /\ found.valid <=> /\ Read!validatedTopicReadState(u, t)
                         /\ IF target.post = Read!NoPost THEN head <= seen
                            ELSE entries[target.post].number <= head
  BY DEF Read!FirstUnread
<1>4. Read!GetAuthorizedTopicReadState(u, t) \in {"new", "unread"} <=> ~(head <= seen)
  <2>1. Read!GetAuthorizedTopicReadState(u, t)
          = IF head = 0 THEN "read" ELSE IF seen = 0 THEN "new" ELSE IF seen < head THEN "unread" ELSE "read"
    BY DEF Read!GetAuthorizedTopicReadState
  <2> HIDE DEF head, seen
  <2> QED BY <1>1, <2>1
<1>5. found.valid /\ (found.post # Read!NoPost <=> Read!GetAuthorizedTopicReadState(u, t) \in {"new", "unread"})
  <2> HIDE DEF head, seen, target, found
  <2> QED BY <1>1, <1>2, <1>3, <1>4
<1>6. ASSUME Read!AuthorizedTopic(u, t), found.page # 0
      PROVE  found.post \in Read!GetVisibleTopicPostPage(u, t, found.page)
  <2>1. Read!TopicVisible(u, t)
    <3>1. u # visitor
      BY PartsAssumption DEF Read!ReadingAssumption, Read!Accounts
    <3> QED BY <1>6, <3>1 DEF Read!AuthorizedTopic, Read!TopicVisible, Read!AuthenticatedSees, Read!MemberSees
  <2>2. target.post # Read!NoPost /\ found.page = Read!PageOf(target.ordinal)
    BY <1>3, <1>6
  <2>3. target.post \in Read!Eligible(u, t) /\ target.ordinal = Read!NodeOrdinal(target.post, Read!ThreadNodes(u, t))
    BY <1>2, <2>2
  <2>4. target.post \in Read!ThreadNodes(u, t)
    BY <2>3 DEF Read!Eligible, Read!ThreadNodes, Read!Rooted
  <2> HIDE DEF target, found
  <2> QED BY <1>3, <2>1, <2>2, <2>3, <2>4 DEF Read!GetVisibleTopicPostPage
<1> QED BY <1>5, <1>6

\* The topics that the index counts under an area.
Under(u, a) == {t \in ReadTopics : ReadTopicArea[t] = a /\ Read!TopicShown(u, t)}

\* The copies of the visibility rule agree with the policy.
LEMMA SeeingAgrees ==
    ASSUME Read!TypeOK, NEW u \in Read!Readers, NEW a \in ReadAreas
    PROVE  /\ Read!MemberSees(u, a) <=> Read!CanViewArea(u, a)
           /\ u # visitor => (Read!AuthenticatedSees(u, a) <=> Read!CanViewArea(u, a))
<1>1. area[a].visibility \in {"public", "authenticated", "groups"}
  BY DEF Read!TypeOK, Read!AreaRows, Read!Visibilities
<1>2. u = visitor => u \notin ReadStaff
  BY PartsAssumption DEF Read!ReadingAssumption
<1> QED BY <1>1, <1>2 DEF Read!MemberSees, Read!AuthenticatedSees, Read!InGroup, Read!CanViewArea

LEMMA SummariesAre ==
    ASSUME Read!TypeOK, NEW u \in Read!Readers
    PROVE  Read!AreaSummaries(u) = {Read!SummaryRow(u, a, Under(u, a)) : a \in {b \in ReadAreas : Read!CanViewArea(u, b)}}
<1>1. CASE u = visitor
  <2>1. {b \in ReadAreas : Read!MemberSees(visitor, b)} = {b \in ReadAreas : Read!CanViewArea(u, b)}
    BY <1>1, SeeingAgrees
  <2>2. Read!AreaSummaries(u) = Read!ListVisibleAreaSummaries
    BY <1>1 DEF Read!AreaSummaries
  <2> QED BY <1>1, <2>1, <2>2 DEF Read!ListVisibleAreaSummaries, Under
<1>2. CASE u # visitor
  <2>1. {b \in ReadAreas : Read!AuthenticatedSees(u, b)} = {b \in ReadAreas : Read!CanViewArea(u, b)}
    BY <1>2, SeeingAgrees
  <2>2. Read!AreaSummaries(u) = Read!ListAuthenticatedVisibleAreaSummaries(u)
    BY <1>2 DEF Read!AreaSummaries
  <2> QED BY <2>1, <2>2 DEF Read!ListAuthenticatedVisibleAreaSummaries, Under
<1> QED BY <1>1, <1>2

LEMMA ListedAre ==
    ASSUME Read!TypeOK, NEW u \in Read!Readers, NEW a \in ReadAreas, Read!CanViewArea(u, a)
    PROVE  Read!GetVisibleAreaTopicPage(u, a) = Under(u, a)
<1>1. Read!GetVisibleAreaBySlug(u, a) /\ Read!MemberSees(u, a)
  BY SeeingAgrees DEF Read!GetVisibleAreaBySlug
<1>2. CASE u = visitor
  BY <1>1, <1>2 DEF Read!GetVisibleAreaTopicPage, Read!ListVisibleTopicsByAreaSlug, Under
<1>3. CASE u # visitor
  <2>1. Read!AuthenticatedSees(u, a)
    BY <1>3, SeeingAgrees
  <2> QED BY <1>1, <1>3, <2>1 DEF Read!GetVisibleAreaTopicPage, Read!ListAuthenticatedVisibleTopicsByAreaSlug, Under
<1> QED BY <1>2, <1>3

LEMMA ReadersAndVisitors ==
    ASSUME NEW u \in Read!Readers PROVE u # visitor <=> u \in Read!Accounts
BY PartsAssumption DEF Read!ReadingAssumption, Read!Readers, Read!Accounts

\* An account's unread topics are those listed with something to read.
LEMMA UnreadAre ==
    ASSUME ReadInv, NEW u \in Read!Accounts, NEW a \in ReadAreas
    PROVE  /\ Read!UnreadTopicCount(u, a)
                = Cardinality({t \in Under(u, a) : Read!GetAuthorizedTopicReadState(u, t) # "read"})
           /\ IsFiniteSet(Under(u, a)) /\ Cardinality(Under(u, a)) \in Nat
           /\ Read!UnreadTopicCount(u, a) <= Cardinality(Under(u, a))
<1>1. Under(u, a) \in SUBSET ReadTopics /\ IsFiniteSet(ReadTopics)
  BY PartsAssumption, SameCounts DEF Under, Read!ReadingAssumption
<1>2. \A t \in Under(u, a) : Read!GetAuthorizedTopicReadState(u, t) # "read" <=> Read!ReadHead(u, t) > marker[u][t]
  <2> TAKE t \in Under(u, a)
  <2> DEFINE head == Read!ReadHead(u, t)
             seen == marker[u][t]
  <2>1. head \in Nat /\ seen \in Nat
    BY <1>1, StateIsValid
  <2>2. Read!GetAuthorizedTopicReadState(u, t)
          = IF head = 0 THEN "read" ELSE IF seen = 0 THEN "new" ELSE IF seen < head THEN "unread" ELSE "read"
    BY DEF Read!GetAuthorizedTopicReadState
  <2> HIDE DEF head, seen
  <2>3. Read!GetAuthorizedTopicReadState(u, t) # "read" <=> head > seen
    BY <2>1, <2>2
  <2> QED BY <2>3 DEF head, seen
<1> DEFINE unread == {t \in Under(u, a) : Read!GetAuthorizedTopicReadState(u, t) # "read"}
<1>3. {t \in ReadTopics : /\ ReadTopicArea[t] = a /\ Read!TopicShown(u, t)
                          /\ Read!ReadHead(u, t) > marker[u][t]} = unread
  BY <1>2 DEF Under
<1>4. Read!UnreadTopicCount(u, a) = Cardinality(unread)
  BY <1>3, SameCounts DEF Read!UnreadTopicCount
<1>5. unread \in SUBSET Under(u, a)
  OBVIOUS
<1>6. IsFiniteSet(Under(u, a)) /\ Cardinality(Under(u, a)) \in Nat
  BY <1>1, FS_Subset, FS_CardinalityType
<1>7. Cardinality(unread) <= Cardinality(Under(u, a))
  <2> HIDE DEF unread
  <2> QED BY <1>5, <1>6, FS_Subset
<1> QED BY <1>4, <1>6, <1>7

\* A row of the index names a post of a topic under its area, and its place.
LEMMA RowIs ==
    ASSUME ReadInv, NEW u \in Read!Readers, NEW a \in ReadAreas
    PROVE  LET row == Read!SummaryRow(u, a, Under(u, a)) IN
           /\ row.area = a /\ row.topic_count = Cardinality(Under(u, a))
           /\ Read!visibleAreaSummaryFromRow(row)
           /\ row.latest # Read!NoPost =>
                /\ row.latest \in DOMAIN entries /\ entries[row.latest].topic \in Under(u, a)
                /\ row.latest \in Read!Rooted(entries[row.latest].topic)
                /\ row.ordinal = Read!NodeOrdinal(row.latest, Read!Rooted(entries[row.latest].topic))
<1> DEFINE row == Read!SummaryRow(u, a, Under(u, a))
           shown == {p \in DOMAIN entries : entries[p].topic \in Under(u, a) /\ ~entries[p].deleted}
           latest == Read!LatestPost(shown)
           nodes == Read!Rooted(entries[latest].topic)
<1>1. /\ row.area = a /\ row.topic_count = Cardinality(Under(u, a)) /\ row.post_count = Cardinality(shown)
      /\ row.latest = latest
      /\ row.ordinal = IF latest = Read!NoPost THEN 0 ELSE Read!NodeOrdinal(latest, nodes)
  BY SameCounts DEF Read!SummaryRow
<1>2. Len(entries) \in Nat /\ DOMAIN entries = 1..Len(entries)
  BY HeldFits DEF ReadInv
<1>3. shown \in SUBSET Int /\ shown \in SUBSET (1..Len(entries)) /\ IsFiniteSet(shown) /\ Cardinality(shown) \in Nat
  <2>1. shown \in SUBSET Int /\ shown \in SUBSET (1..Len(entries))
    BY <1>2
  <2> HIDE DEF shown
  <2> QED BY <1>2, <2>1, UpTo, FS_Subset, FS_CardinalityType
<1>4. Under(u, a) \in SUBSET ReadTopics /\ IsFiniteSet(Under(u, a)) /\ Cardinality(Under(u, a)) \in Nat
  BY PartsAssumption, SameCounts, FS_Subset, FS_CardinalityType DEF Under, Read!ReadingAssumption
<1>5. CASE shown = {}
  <2>1. latest = Read!NoPost /\ Cardinality(shown) = 0
    BY <1>5, FS_EmptySet DEF Read!LatestPost
  <2> HIDE DEF shown, latest, row, nodes
  <2> QED BY <1>1, <2>1 DEF Read!visibleAreaSummaryFromRow, row
<1>6. CASE shown # {}
  <2>1. latest \in shown
    <3> HIDE DEF shown
    <3> QED BY <1>3, <1>6, ReadMax DEF Read!LatestPost
  <2>2. /\ latest \in DOMAIN entries /\ entries[latest].topic \in Under(u, a) /\ ~entries[latest].deleted
    <3> HIDE DEF latest
    <3> QED BY <2>1
  <2>3. latest # Read!NoPost
    BY <1>2, <2>2 DEF Read!NoPost
  <2>4. latest \in nodes
    BY <2>2 DEF Read!Rooted, Read!PostsOf
  <2>5. Read!NodeOrdinal(latest, nodes) > 0
    <3>1. nodes \in SUBSET Read!PostsOf(entries[latest].topic)
      BY NodesAreOfTheTopic
    <3> DEFINE t == entries[latest].topic
    <3>2. nodes \in SUBSET Read!PostsOf(t)
      BY <3>1
    <3> HIDE DEF nodes, latest, t
    <3>3. Read!NodeOrdinal(latest, nodes) = Rank(InThread(t), nodes, latest) + 1 /\ Rank(InThread(t), nodes, latest) \in Nat
      BY <2>4, <3>2, ThreadIsOrdered
    <3> QED BY <3>3
  <2>6. Cardinality(shown) # 0 /\ Cardinality(Under(u, a)) # 0
    <3>1. Under(u, a) # {}
      BY <2>2
    <3> HIDE DEF shown
    <3> QED BY <1>3, <1>4, <1>6, <3>1, FS_EmptySet
  <2>7. Read!visibleAreaSummaryFromRow(row)
    <3> HIDE DEF shown, latest, row, nodes
    <3> QED BY <1>1, <1>3, <1>4, <2>3, <2>5, <2>6 DEF Read!visibleAreaSummaryFromRow
  <2> HIDE DEF shown, latest, row
  <2> QED BY <1>1, <2>2, <2>3, <2>4, <2>7 DEF row
<1> QED BY <1>5, <1>6

LEMMA RowsAreWellFormed == ASSUME ReadInv PROVE Read!ReadRowsAreWellFormed
<1>1. ASSUME NEW u \in Read!Readers PROVE Read!areaIndex(u)
  <2> SUFFICES ASSUME NEW row \in Read!AreaSummaries(u)
               PROVE  /\ Read!visibleAreaSummaryFromRow(row)
                      /\ u # visitor => Read!UnreadTopicCount(u, row.area) <= row.topic_count
    BY DEF Read!areaIndex
  <2>1. PICK a \in ReadAreas : row = Read!SummaryRow(u, a, Under(u, a))
    BY SummariesAre DEF ReadInv
  <2>2. row.area = a /\ row.topic_count = Cardinality(Under(u, a)) /\ Read!visibleAreaSummaryFromRow(row)
    BY <2>1, RowIs
  <2> QED BY <2>2, UnreadAre, ReadersAndVisitors
<1>2. ASSUME NEW u \in Read!Readers, NEW a \in ReadAreas PROVE Read!areaTopicList(u, a)
  <2> SUFFICES ASSUME NEW t \in Read!GetVisibleAreaTopicPage(u, a), u # visitor
               PROVE  Read!validatedTopicReadState(u, t)
    BY DEF Read!areaTopicList, Read!authenticatedVisibleAreaTopicFromRow
  <2>1. t \in ReadTopics
    BY DEF Read!GetVisibleAreaTopicPage, Read!ListVisibleTopicsByAreaSlug, Read!ListAuthenticatedVisibleTopicsByAreaSlug
  <2> QED BY <2>1, StateIsValid, ReadersAndVisitors
<1>3. ASSUME NEW u \in Read!Accounts, NEW t \in ReadTopics PROVE Read!firstUnread(u, t)
  BY UnreadIsFound DEF Read!firstUnread
<1> QED BY <1>1, <1>2, <1>3, PagesAreWellFormed DEF Read!ReadRowsAreWellFormed

LEMMA UnreadIsOnItsPage == ASSUME ReadInv PROVE Read!FirstUnreadIsOnItsPage
BY UnreadIsFound DEF Read!FirstUnreadIsOnItsPage

LEMMA ListsAlwaysAgree == ASSUME ReadInv PROVE Read!ListsAgree
<1> SUFFICES ASSUME NEW u \in Read!Readers
             PROVE  /\ {row.area : row \in Read!AreaSummaries(u)} = {a \in ReadAreas : Read!CanViewArea(u, a)}
                    /\ Read!ListVisibleAreas(u) = {a \in ReadAreas : Read!CanViewArea(u, a)}
                    /\ \A row \in Read!AreaSummaries(u) :
                         LET listed == Read!GetVisibleAreaTopicPage(u, row.area) IN
                         /\ row.topic_count = Read!Cardinality(listed)
                         /\ \A t \in listed : Read!TopicVisible(u, t)
                         /\ u # visitor =>
                              Read!UnreadTopicCount(u, row.area) =
                                Read!Cardinality({t \in listed : Read!GetAuthorizedTopicReadState(u, t) # "read"})
  BY DEF Read!ListsAgree
<1> USE DEF ReadInv
<1>1. Read!ListVisibleAreas(u) = {a \in ReadAreas : Read!CanViewArea(u, a)}
  BY SeeingAgrees DEF Read!ListVisibleAreas
<1>2. \A a \in ReadAreas : Read!SummaryRow(u, a, Under(u, a)).area = a
  BY RowIs
<1>3. {row.area : row \in Read!AreaSummaries(u)} = {a \in ReadAreas : Read!CanViewArea(u, a)}
  <2> DEFINE Seen == {a \in ReadAreas : Read!CanViewArea(u, a)}
  <2>1. Read!AreaSummaries(u) = {Read!SummaryRow(u, a, Under(u, a)) : a \in Seen}
    BY SummariesAre
  <2>2. \A a \in Seen : Read!SummaryRow(u, a, Under(u, a)).area = a
    BY <1>2
  <2> HIDE DEF Seen
  <2>3. \A a \in Seen : a \in {row.area : row \in Read!AreaSummaries(u)}
    BY <2>1, <2>2
  <2>4. \A row \in Read!AreaSummaries(u) : row.area \in Seen
    BY <2>1, <2>2
  <2> QED BY <2>3, <2>4 DEF Seen
<1>4. ASSUME NEW row \in Read!AreaSummaries(u)
      PROVE  LET listed == Read!GetVisibleAreaTopicPage(u, row.area) IN
             /\ row.topic_count = Read!Cardinality(listed)
             /\ \A t \in listed : Read!TopicVisible(u, t)
             /\ u # visitor =>
                  Read!UnreadTopicCount(u, row.area) =
                    Read!Cardinality({t \in listed : Read!GetAuthorizedTopicReadState(u, t) # "read"})
  <2>1. PICK a \in ReadAreas : Read!CanViewArea(u, a) /\ row = Read!SummaryRow(u, a, Under(u, a))
    BY SummariesAre
  <2>2. row.area = a /\ row.topic_count = Cardinality(Under(u, a))
    BY <2>1, RowIs
  <2>3. Read!GetVisibleAreaTopicPage(u, a) = Under(u, a)
    BY <2>1, ListedAre
  <2>4. \A t \in Under(u, a) : Read!TopicVisible(u, t)
    BY <2>1, SeeingAgrees DEF Under, Read!TopicVisible
  <2>5. u # visitor => Read!UnreadTopicCount(u, a)
                         = Cardinality({t \in Under(u, a) : Read!GetAuthorizedTopicReadState(u, t) # "read"})
    BY UnreadAre, ReadersAndVisitors
  <2> QED BY <2>2, <2>3, <2>4, <2>5, SameCounts
<1> QED BY <1>1, <1>3, <1>4

LEMMA LatestIsOnItsPage == ASSUME ReadInv PROVE Read!LatestPostIsOnItsPage
<1> SUFFICES ASSUME NEW u \in Read!Readers \ ReadStaff, NEW row \in Read!AreaSummaries(u), row.latest # Read!NoPost
             PROVE  row.latest \in Read!GetVisibleTopicPostPage(u, entries[row.latest].topic, Read!PageOf(row.ordinal))
  BY DEF Read!LatestPostIsOnItsPage
<1>1. PICK a \in ReadAreas : Read!CanViewArea(u, a) /\ row = Read!SummaryRow(u, a, Under(u, a))
  BY SummariesAre DEF ReadInv
<1>2. /\ row.latest \in DOMAIN entries /\ entries[row.latest].topic \in Under(u, a)
      /\ row.latest \in Read!Rooted(entries[row.latest].topic)
      /\ row.ordinal = Read!NodeOrdinal(row.latest, Read!Rooted(entries[row.latest].topic))
  BY <1>1, RowIs
<1>3. Read!ThreadNodes(u, entries[row.latest].topic) = Read!Rooted(entries[row.latest].topic)
  BY DEF Read!ThreadNodes
<1>4. Read!TopicVisible(u, entries[row.latest].topic)
  BY <1>1, <1>2, SeeingAgrees DEF Under, Read!TopicVisible, ReadInv
<1> QED BY <1>2, <1>3, <1>4 DEF Read!GetVisibleTopicPostPage

-----------------------------------------------------------------------------
(* Discovery: what is left of the activity, newest first. *)

LEMMA DiscoverCounts ==
    /\ \A S : Discover!Cardinality(S) = Cardinality(S)
    /\ \A S : Discover!IsFiniteSet(S) <=> IsFiniteSet(S)
<1>1. ASSUME NEW S PROVE Discover!Cardinality(S) = Cardinality(S)
  BY DEF Discover!Cardinality, Cardinality
<1>2. ASSUME NEW S PROVE Discover!IsFiniteSet(S) <=> IsFiniteSet(S)
  BY DEF Discover!IsFiniteSet, IsFiniteSet
<1> QED BY <1>1, <1>2

LEMMA DiscoverEnds ==
    ASSUME NEW S \in SUBSET Int, IsFiniteSet(S), S # {}
    PROVE  /\ Discover!Max(S) \in S /\ \A m \in S : m <= Discover!Max(S)
           /\ Discover!Min(S) \in S /\ \A m \in S : Discover!Min(S) <= m
<1>1. PICK n \in S : \A m \in S : m <= n
  BY Extremes
<1>2. \A m \in S : n >= m
  BY <1>1
<1>3. Discover!Max(S) \in S /\ \A m \in S : Discover!Max(S) >= m
  BY <1>2 DEF Discover!Max
<1>4. PICK k \in S : \A m \in S : k <= m
  BY Extremes
<1>5. Discover!Min(S) \in S /\ \A m \in S : Discover!Min(S) <= m
  BY <1>4 DEF Discover!Min
<1> QED BY <1>3, <1>5

LEMMA DiscoverLesser ==
    ASSUME NEW a \in Int, NEW b \in Int
    PROVE  /\ Discover!Min({a, b}) = IF a <= b THEN a ELSE b
           /\ Discover!Max({a, b}) = IF a <= b THEN b ELSE a
<1>1. {a, b} \in SUBSET Int /\ IsFiniteSet({a, b}) /\ {a, b} # {}
  <2>1. IsFiniteSet({a}) /\ {a} \cup {b} = {a, b}
    BY FS_Singleton
  <2> QED BY <2>1, FS_AddElement
<1>2. /\ Discover!Min({a, b}) \in {a, b} /\ \A m \in {a, b} : Discover!Min({a, b}) <= m
      /\ Discover!Max({a, b}) \in {a, b} /\ \A m \in {a, b} : m <= Discover!Max({a, b})
  BY <1>1, DiscoverEnds
<1> QED BY <1>2

LEMMA RowsFit ==
    ASSUME Discover!TypeOK
    PROVE  /\ Len(articles) \in Nat /\ Len(articles) <= ArticlesKept /\ ArticlesKept \in Nat
           /\ DOMAIN articles = 1..Len(articles) /\ DOMAIN articles \in SUBSET Int
           /\ DOMAIN articles \in SUBSET (1..ArticlesKept)
           /\ IsFiniteSet(DOMAIN articles)
           /\ \A p \in DOMAIN articles :
                /\ articles[p] \in Discover!PostRows /\ p \in Nat /\ articles[p].at \in Nat
                /\ articles[p].updated_at \in Nat
<1>1. Len(articles) \in Nat /\ DOMAIN articles = 1..Len(articles) /\ Len(articles) <= ArticlesKept
  BY LenProperties DEF Discover!TypeOK
<1>2. ArticlesKept \in Nat /\ SearchTime \in Nat
  BY PartsAssumption DEF Discover!DiscoveryAssumption
<1>3. \A p \in DOMAIN articles : articles[p] \in Discover!PostRows
  BY <1>1, ElementOfSeq DEF Discover!TypeOK
<1>4. IsFiniteSet(DOMAIN articles)
  BY <1>1, UpTo
<1> QED BY <1>1, <1>2, <1>3, <1>4 DEF Discover!PostRows

\* Of two posts one is newer.
NewerPosts == {r \in (DOMAIN articles) \X (DOMAIN articles) : Discover!Before(r[2], r[1])}

LEMMA PostsAreOrdered ==
    ASSUME Discover!TypeOK, NEW left \in SUBSET DOMAIN articles
    PROVE  /\ IsFiniteSet(left) /\ Cardinality(left) \in Nat /\ Orders(NewerPosts, left)
           /\ \A p, q \in left : <<p, q>> \in NewerPosts <=> Discover!Before(q, p)
           /\ \A i : Discover!Newest(left, i) = CHOOSE p \in left : Rank(NewerPosts, left, p) = i - 1
<1>1. IsFiniteSet(left) /\ Cardinality(left) \in Nat
  BY RowsFit, FS_Subset, FS_CardinalityType
<1>2. ASSUME NEW p \in left, NEW q \in left PROVE <<p, q>> \in NewerPosts <=> Discover!Before(q, p)
  <2>1. <<p, q>> \in (DOMAIN articles) \X (DOMAIN articles)
    OBVIOUS
  <2>2. <<p, q>>[1] = p /\ <<p, q>>[2] = q
    OBVIOUS
  <2> QED BY <2>1, <2>2, Zenon DEF NewerPosts
<1>3. Orders(NewerPosts, left)
  <2>1. \A p \in left : p \in Nat /\ articles[p].at \in Nat
    BY RowsFit
  <2>2. \A p \in left : ~Discover!Before(p, p)
    BY <2>1 DEF Discover!Before
  <2>3. \A p, q \in left : p = q \/ Discover!Before(q, p) \/ Discover!Before(p, q)
    BY <2>1 DEF Discover!Before
  <2>4. \A p, q, r \in left : Discover!Before(q, p) /\ Discover!Before(r, q) => Discover!Before(r, p)
    BY <2>1 DEF Discover!Before
  <2> QED BY <1>2, <2>2, <2>3, <2>4 DEF Orders
<1>4. \A p \in left : Discover!Cardinality({q \in left : Discover!Before(p, q)}) = Rank(NewerPosts, left, p)
  <2> TAKE p \in left
  <2>1. {q \in left : Discover!Before(p, q)} = Preceding(NewerPosts, left, p)
    BY <1>2 DEF Preceding
  <2> QED BY <2>1, DiscoverCounts DEF Rank
<1>5. \A i : Discover!Newest(left, i) = CHOOSE p \in left : Rank(NewerPosts, left, p) = i - 1
  BY <1>4 DEF Discover!Newest
<1> QED BY <1>1, <1>2, <1>3, <1>5

Left(who, cursor) ==
    IF cursor = Discover!NoCursor THEN Discover!ListRecentActivityInitial(who)
    ELSE Discover!ListRecentActivityAfter(who, cursor)
Visible(who, cursor) ==
    LET page == Discover!QueryRows(who, cursor)
    IN SubSeq(page, 1, Discover!Min({Len(page), ActivityPageSize}))

\* A page has the newest of what is left, newest first.
LEMMA PageHas ==
    ASSUME Discover!TypeOK, NEW who, NEW cursor
    PROVE  LET left == Left(who, cursor)
               shown == Visible(who, cursor)
               next == Discover!NextCursor(Discover!QueryRows(who, cursor))
           IN /\ left \in SUBSET DOMAIN articles /\ shown \in Seq(left) /\ shown \in Seq(DOMAIN articles)
              /\ \A i, j \in 1..Len(shown) : i < j => Discover!Before(shown[j], shown[i])
              /\ \/ next = Discover!NoCursor /\ \A p \in left : \E i \in 1..Len(shown) : p = shown[i]
                 \/ /\ Len(shown) \in Nat \ {0} /\ next = Discover!EncodeCursor(shown[Len(shown)])
                    /\ \A p \in left : Discover!Before(p, shown[Len(shown)]) \/ \E i \in 1..Len(shown) : p = shown[i]
<1> DEFINE left == Left(who, cursor)
           page == Discover!QueryRows(who, cursor)
           n == Cardinality(left)
           size == IF n <= ActivityPageSize + 1 THEN n ELSE ActivityPageSize + 1
           short == IF n <= ActivityPageSize THEN n ELSE ActivityPageSize
           R == NewerPosts
<1>1. left \in SUBSET DOMAIN articles
  BY DEF Left, Discover!ListRecentActivityInitial, Discover!ListRecentActivityAfter, Discover!Listed
<1>2. /\ IsFiniteSet(left) /\ n \in Nat /\ Orders(R, left)
      /\ \A p, q \in left : <<p, q>> \in R <=> Discover!Before(q, p)
      /\ \A i : Discover!Newest(left, i) = CHOOSE p \in left : Rank(R, left, p) = i - 1
  <2> HIDE DEF left
  <2> QED BY <1>1, PostsAreOrdered
<1>3. ActivityPageSize \in Nat /\ ActivityPageSize > 0
  BY PartsAssumption DEF Discover!DiscoveryAssumption
<1>4. page = [i \in 1..size |-> Discover!Newest(left, i)]
  <2>1. page = [i \in 1..Discover!Min({Discover!Cardinality(left), ActivityPageSize + 1}) |-> Discover!Newest(left, i)]
    BY DEF Discover!QueryRows, Left
  <2>2. Discover!Min({n, ActivityPageSize + 1}) = size
    <3> HIDE DEF n
    <3> QED BY <1>2, <1>3, DiscoverLesser
  <2> QED BY <2>1, <2>2, DiscoverCounts
<1> HIDE DEF left, page, n, R
<1>5. ASSUME NEW i \in 1..size
      PROVE  Discover!Newest(left, i) \in left /\ Rank(R, left, Discover!Newest(left, i)) = i - 1
  <2>1. i - 1 \in Nat /\ i - 1 < Cardinality(left)
    BY <1>2, <1>3 DEF n
  <2>2. \E p \in left : Rank(R, left, p) = i - 1
    BY <1>2, <2>1, RankIsTaken
  <2> QED BY <1>2, <2>2
<1>6. size \in Nat /\ short \in Nat /\ short <= size /\ (n > ActivityPageSize => short = ActivityPageSize /\ size = short + 1)
      /\ (n <= ActivityPageSize => size = n /\ short = n)
  BY <1>2, <1>3
<1>7. page \in Seq(left) /\ Len(page) = size /\ \A i \in 1..size : page[i] \in left /\ Rank(R, left, page[i]) = i - 1
  <2>1. page \in [1..size -> left] /\ \A i \in 1..size : page[i] = Discover!Newest(left, i)
    BY <1>4, <1>5
  <2> HIDE DEF size
  <2> QED BY <1>5, <1>6, <2>1
<1> HIDE DEF size, short
<1> DEFINE shown == SubSeq(page, 1, short)
<1>8. /\ shown \in Seq(left) /\ Len(shown) = short
      /\ \A i \in 1..short : shown[i] = page[i] /\ shown[i] \in left /\ Rank(R, left, shown[i]) = i - 1
  <2>1. \A i \in 1..short : page[i] \in left
    BY <1>6, <1>7
  <2>2. shown \in Seq(left) /\ Len(shown) = short /\ \A i \in 1..short : shown[i] = page[i]
    BY <1>6, <2>1
  <2> QED BY <1>6, <1>7, <2>2
<1>9. Visible(who, cursor) = shown
  <2>1. Discover!Min({Len(page), ActivityPageSize}) = short
    BY <1>2, <1>3, <1>6, <1>7, DiscoverLesser DEF short
  <2> QED BY <2>1 DEF Visible, page
<1> HIDE DEF shown
<1>10. ASSUME NEW i \in 1..Len(shown), NEW j \in 1..Len(shown), i < j PROVE Discover!Before(shown[j], shown[i])
  <2>1. Rank(R, left, shown[i]) < Rank(R, left, shown[j]) /\ shown[i] \in left /\ shown[j] \in left
    BY <1>6, <1>8, <1>10
  <2>2. <<shown[i], shown[j]>> \in R
    BY <1>2, <2>1, RankIsStrict
  <2> QED BY <1>2, <2>1, <2>2
<1>11. ASSUME NEW p \in left, Rank(R, left, p) < short PROVE \E i \in 1..Len(shown) : p = shown[i]
  <2>1. Rank(R, left, p) \in Nat
    BY <1>2, RankIsStrict
  <2>2. Rank(R, left, p) + 1 \in 1..short /\ Rank(R, left, p) + 1 - 1 = Rank(R, left, p)
    BY <1>6, <1>11, <2>1
  <2>3. p = shown[Rank(R, left, p) + 1]
    <3> DEFINE k == Rank(R, left, p) + 1
    <3>1. k \in 1..short /\ k - 1 = Rank(R, left, p)
      BY <2>1, <2>2
    <3> HIDE DEF k
    <3>2. shown[k] \in left /\ Rank(R, left, shown[k]) = Rank(R, left, p)
      BY <1>8, <3>1
    <3>3. p = shown[k]
      BY <1>2, <3>2, RankIsStrict
    <3> QED BY <3>3 DEF k
  <2> QED BY <1>8, <2>2, <2>3
<1>12. CASE n <= ActivityPageSize
  <2>1. Discover!NextCursor(page) = Discover!NoCursor
    BY <1>2, <1>3, <1>6, <1>7, <1>12 DEF Discover!NextCursor
  <2>2. \A p \in left : Rank(R, left, p) < short
    <3>1. \A p \in left : Rank(R, left, p) < n
      BY <1>2, RankIsStrict DEF n
    <3> QED BY <1>6, <1>12, <3>1
  <2>3. \A p \in left : \E i \in 1..Len(shown) : p = shown[i]
    BY <1>11, <2>2
  <2>4. shown \in Seq(DOMAIN articles)
    BY <1>1, <1>8, SeqMonotonic DEF left
  <2> QED BY <1>1, <1>8, <1>9, <1>10, <2>1, <2>3, <2>4 DEF left, page
<1>13. CASE n > ActivityPageSize
  <2>1. /\ Len(shown) = ActivityPageSize /\ Len(shown) \in Nat \ {0} /\ Len(page) > ActivityPageSize
        /\ ActivityPageSize \in 1..short /\ short = ActivityPageSize
    BY <1>3, <1>6, <1>7, <1>8, <1>13
  <2>2. Discover!NextCursor(page) = Discover!EncodeCursor(shown[Len(shown)])
    BY <1>8, <2>1 DEF Discover!NextCursor
  <2>3. ASSUME NEW p \in left PROVE Discover!Before(p, shown[Len(shown)]) \/ \E i \in 1..Len(shown) : p = shown[i]
    <3>1. shown[ActivityPageSize] \in left /\ Rank(R, left, shown[ActivityPageSize]) = ActivityPageSize - 1
      BY <1>8, <2>1
    <3>2. Rank(R, left, p) \in Nat
      BY <1>2, RankIsStrict
    <3>3. CASE Rank(R, left, p) < short
      BY <1>11, <3>3
    <3>4. CASE ~(Rank(R, left, p) < short)
      <4>1. Rank(R, left, shown[ActivityPageSize]) < Rank(R, left, p)
        BY <1>3, <2>1, <3>1, <3>2, <3>4
      <4>2. <<shown[ActivityPageSize], p>> \in R
        BY <1>2, <3>1, <4>1, RankIsStrict
      <4> QED BY <1>2, <2>1, <3>1, <4>2
    <3> QED BY <3>3, <3>4
  <2>4. shown \in Seq(DOMAIN articles)
    BY <1>1, <1>8, SeqMonotonic DEF left
  <2> QED BY <1>1, <1>8, <1>9, <1>10, <2>1, <2>2, <2>3, <2>4 DEF left, page
<1> QED BY <1>2, <1>3, <1>12, <1>13

-----------------------------------------------------------------------------
(* Discovery: what is always true of posts, cursors and walks. *)

\* A topic's first post has the topic's time, and no post comes without a topic.
FirstIs(t, p) == /\ p \in DOMAIN articles /\ articles[p].topic = t /\ articles[p].at = subject[t].at
                 /\ \A q \in DOMAIN articles : q < p => articles[q].topic # t
TopicsBegin ==
    /\ \A p \in DOMAIN articles : /\ articles[p].updated_at >= articles[p].at
                                  /\ subject[articles[p].topic] # Discover!Absent
    /\ \A t \in Subjects : subject[t] # Discover!Absent => \E p : FirstIs(t, p)

Skew == IF behind THEN 0 ELSE FutureSkew
Retired(key) == clock > IssueNotAfter[key] + MaximumAge + Skew

\* A cursor was issued in its key's window, not long after now, and its key is
\* in the ring as long as the cursor is young.
CursorStands ==
    walk.cursor # Discover!NoCursor =>
      LET c == walk.cursor IN
      /\ c.issued >= NotBefore[c.key] /\ c.issued <= IssueNotAfter[c.key]
      /\ c.issued <= clock + FutureSkew - Skew
      /\ c.key \in {ring.active, ring.previous} \/ Retired(c.key)
Shown(p) == \E i \in 1..Len(walk.shown) : p = walk.shown[i]

\* A walk has shown posts newest first, up to its cursor, and of those that its
\* reader has always seen all of them.
Reads == walk.step \in {"page", "asked"} /\ walk.cursor # Discover!NoCursor
WalkStands ==
    /\ walk.shown \in Seq(DOMAIN articles) /\ stayed \in SUBSET DOMAIN articles
    /\ \A i, j \in 1..Len(walk.shown) : i < j => Discover!Before(walk.shown[j], walk.shown[i])
    /\ walk.step = "page" => walk.cursor # Discover!NoCursor
    /\ walk.step = "asked" /\ walk.cursor = Discover!NoCursor => walk.shown = <<>>
    /\ walk.step = "ended" => \A p \in stayed : Shown(p)
    /\ Reads => /\ Len(walk.shown) \in Nat \ {0} /\ walk.cursor.post = walk.shown[Len(walk.shown)]
                /\ \A p \in stayed : /\ Discover!PostSeen(walk.cursor.audience, p)
                                     /\ Discover!Before(p, walk.cursor.post) \/ Shown(p)

DiscoverInv == Discover!TypeOK /\ TopicsBegin /\ CursorStands /\ WalkStands

-----------------------------------------------------------------------------
(* Discovery: what a step can do. *)

AddsArticle(x) ==
    /\ x \in Discover!PostRows /\ x.updated_at >= x.at /\ Len(articles) < ArticlesKept
    /\ articles' = Append(articles, x) /\ visibility' = visibility
    /\ \/ subject' = subject /\ subject[x.topic] # Discover!Absent
       \/ /\ subject[x.topic] = Discover!Absent
          /\ \E row \in Discover!TopicRows : row.at = x.at /\ subject' = [subject EXCEPT ![x.topic] = row]
ChangesArticle(p, x) ==
    /\ p \in DOMAIN articles /\ x \in Discover!PostRows
    /\ x.topic = articles[p].topic /\ x.at = articles[p].at /\ x.updated_at >= x.at
    /\ articles' = [articles EXCEPT ![p] = x] /\ UNCHANGED <<subject, visibility>>
ClosesTopic ==
    /\ articles' = articles
    /\ visibility' \in [Subjects -> Discover!Visibilities]
    /\ subject' \in [Subjects -> {Discover!Absent} \cup Discover!TopicRows]
    /\ \A t \in Subjects : /\ subject'[t] # Discover!Absent <=> subject[t] # Discover!Absent
                           /\ subject[t] # Discover!Absent => subject'[t].at = subject[t].at
Writes == /\ UNCHANGED <<clock, behind, authority, ring, walk>>
          /\ (\E x : AddsArticle(x)) \/ (\E p, x : ChangesArticle(p, x)) \/ ClosesTopic

Asks(cursor) == /\ UNCHANGED <<clock, behind, visibility, subject, articles, authority, ring>>
                /\ Discover!AskPage(cursor)
                /\ \/ cursor = Discover!NoCursor /\ walk.step \in {"idle", "ended", "refused"}
                   \/ cursor = walk.cursor /\ walk.step = "page"
GoesBack == walk' = IF walk.step = "asked" THEN Discover!Retry ELSE walk
Turns == /\ GoesBack /\ UNCHANGED <<clock, behind, visibility, subject, articles, authority>>
         /\ \/ ring.previous = Discover!NoKey /\ ring.active + 1 \in Keys
               /\ ring' = [active |-> ring.active + 1, previous |-> ring.active]
            \/ ring.previous # Discover!NoKey /\ clock > IssueNotAfter[ring.previous] + MaximumAge + FutureSkew
               /\ ring' = [active |-> ring.active, previous |-> Discover!NoKey]
Fails == GoesBack /\ UNCHANGED <<clock, behind, visibility, subject, articles, authority, ring>>
Passes == /\ UNCHANGED <<visibility, subject, articles, ring, walk>>
          /\ \/ authority' \in Discover!Authorities /\ UNCHANGED <<clock, behind>>
             \/ clock < SearchTime /\ clock' = clock + 1 /\ UNCHANGED <<behind, authority>>
             \/ ~behind /\ clock >= FutureSkew /\ behind' = TRUE /\ clock' = clock - FutureSkew /\ UNCHANGED authority

DiscoverShape ==
    \/ Writes \/ (\E c : Asks(c)) \/ Discover!RecentActivity \/ Fails \/ Turns \/ Passes

LEMMA LatestFits ==
    ASSUME Discover!TypeOK, NEW t
    PROVE  Discover!Latest(t) \in 0..SearchTime /\ Discover!Latest(t) >= clock
<1> DEFINE S == {clock} \cup {articles[p].at : p \in {q \in DOMAIN articles : articles[q].topic = t}}
<1>1. SearchTime \in Nat /\ clock \in 0..SearchTime
  BY PartsAssumption DEF Discover!TypeOK, Discover!DiscoveryAssumption
<1>2. S \in SUBSET (0..SearchTime) /\ S # {} /\ S \in SUBSET Int
  BY <1>1, RowsFit DEF Discover!PostRows
<1>3. IsFiniteSet(S)
  <2>1. 0 \in Int /\ SearchTime \in Int
    BY <1>1
  <2>2. IsFiniteSet(0..SearchTime)
    BY <2>1, FS_Interval
  <2> HIDE DEF S
  <2> QED BY <1>2, <2>2, FS_Subset
<1>4. Discover!Max(S) \in S /\ \A m \in S : m <= Discover!Max(S)
  <2> HIDE DEF S
  <2> QED BY <1>2, <1>3, DiscoverEnds
<1>5. Discover!Latest(t) = Discover!Max(S)
  BY DEF Discover!Latest
<1>6. clock \in S
  OBVIOUS
<1> HIDE DEF S
<1> QED BY <1>1, <1>2, <1>4, <1>5, <1>6

LEMMA DiscoverSteps ==
    ASSUME DiscoverInv, Discover!Step
    PROVE  DiscoverShape
<1> USE DEF DiscoverInv
<1>1. /\ SearchTime \in Nat /\ clock \in 0..SearchTime /\ MaxWords \in Nat /\ ArticlesKept \in Nat
      /\ Discover!NoAuthor = 0
  BY PartsAssumption DEF Discover!TypeOK, Discover!DiscoveryAssumption, Discover!NoAuthor
<1>2. ASSUME Discover!AskFirst PROVE Asks(Discover!NoCursor)
  BY <1>2 DEF Discover!AskFirst, Discover!AskPage, Asks, Discover!rows
<1>3. ASSUME Discover!AskNext PROVE Asks(walk.cursor)
  BY <1>3 DEF Discover!AskNext, Discover!AskPage, Asks, Discover!rows
<1>4. ASSUME Discover!Fail PROVE Fails
  BY <1>4 DEF Discover!Fail, Fails, GoesBack, Discover!rows
<1>5. ASSUME NEW t \in Subjects, NEW a \in Writers, NEW body \in 0..MaxWords, Discover!Reply(t, a, body) PROVE Writes
  <2> DEFINE x == Discover!Row(t, a, body)
  <2>1. x \in Discover!PostRows /\ x.updated_at >= x.at /\ x.topic = t
    BY LatestFits DEF Discover!Row, Discover!PostRows
  <2>2. AddsArticle(x)
    BY <1>5, <2>1 DEF AddsArticle, Discover!Reply
  <2> QED BY <1>5, <2>2 DEF Writes, Discover!Reply, Discover!others
<1>6. ASSUME NEW t \in Subjects, NEW a \in Writers, NEW body \in 0..MaxWords, NEW title \in 0..MaxWords,
             Discover!PublishTopic(t, a, title, body) PROVE Writes
  <2> DEFINE x == Discover!Row(t, a, body)
             row == [state |-> "open", words |-> title, at |-> clock, author |-> a]
  <2>1. x \in Discover!PostRows /\ x.updated_at >= x.at /\ x.topic = t /\ x.at = Discover!Latest(t)
    BY LatestFits DEF Discover!Row, Discover!PostRows
  <2>2. Discover!Latest(t) = clock
    <3>1. {q \in DOMAIN articles : articles[q].topic = t} = {}
      BY <1>6 DEF TopicsBegin, Discover!PublishTopic
    <3>2. {articles[p].at : p \in {q \in DOMAIN articles : articles[q].topic = t}} = {}
      BY <3>1
    <3>3. {clock} \cup {articles[p].at : p \in {q \in DOMAIN articles : articles[q].topic = t}} = {clock, clock}
      BY <3>2
    <3>4. Discover!Max({clock, clock}) = clock
      <4>1. clock \in Int
        BY <1>1
      <4> QED BY <4>1, DiscoverLesser
    <3> QED BY <3>3, <3>4 DEF Discover!Latest
  <2>3. row \in Discover!TopicRows /\ row.at = clock
    BY <1>1 DEF Discover!TopicRows
  <2>4. subject' = [subject EXCEPT ![t] = row]
    BY <1>6 DEF Discover!PublishTopic
  <2> HIDE DEF row
  <2>5. AddsArticle(x)
    BY <1>6, <2>1, <2>2, <2>3, <2>4 DEF AddsArticle, Discover!PublishTopic
  <2> QED BY <1>6, <2>5 DEF Writes, Discover!PublishTopic, Discover!others
<1>7. ASSUME NEW p \in DOMAIN articles
      PROVE  Discover!ChangedAt(p) \in 0..SearchTime /\ Discover!ChangedAt(p) >= articles[p].at
  <2>1. /\ articles[p].updated_at \in 0..SearchTime /\ articles[p].at \in 0..SearchTime
        /\ articles[p].updated_at >= articles[p].at
    BY RowsFit DEF TopicsBegin, Discover!PostRows
  <2>2. Discover!Max({clock, articles[p].updated_at})
          = IF clock <= articles[p].updated_at THEN articles[p].updated_at ELSE clock
    <3>1. clock \in Int /\ articles[p].updated_at \in Int
      BY <1>1, <2>1
    <3> QED BY <3>1, DiscoverLesser
  <2> QED BY <1>1, <2>1, <2>2 DEF Discover!ChangedAt
<1>8. ASSUME NEW p \in DOMAIN articles, NEW body \in 0..MaxWords, Discover!EditPost(p, body) PROVE Writes
  <2> DEFINE x == [articles[p] EXCEPT !.words = body, !.updated_at = Discover!ChangedAt(p)]
  <2>1. articles' = [articles EXCEPT ![p] = x]
    BY <1>8, RowsFit DEF Discover!EditPost, Discover!PostRows
  <2>2. /\ x \in Discover!PostRows /\ x.topic = articles[p].topic /\ x.at = articles[p].at /\ x.updated_at >= x.at
    BY <1>7, RowsFit DEF Discover!PostRows
  <2>3. ChangesArticle(p, x)
    BY <1>8, <2>1, <2>2 DEF ChangesArticle, Discover!EditPost
  <2> QED BY <1>8, <2>3 DEF Writes, Discover!EditPost, Discover!others
<1>9. ASSUME NEW p \in DOMAIN articles, Discover!ChangePostVisibility(p) PROVE Writes
  <2> DEFINE s == IF articles[p].state = "shown" THEN "deleted" ELSE "shown"
             x == [articles[p] EXCEPT !.state = s, !.updated_at = Discover!ChangedAt(p)]
  <2>1. articles' = [articles EXCEPT ![p] = x]
    BY <1>9, RowsFit DEF Discover!ChangePostVisibility, Discover!PostRows
  <2>2. /\ x \in Discover!PostRows /\ x.topic = articles[p].topic /\ x.at = articles[p].at /\ x.updated_at >= x.at
    BY <1>7, RowsFit DEF Discover!PostRows
  <2>3. ChangesArticle(p, x)
    BY <1>9, <2>1, <2>2 DEF ChangesArticle, Discover!ChangePostVisibility
  <2> QED BY <1>9, <2>3 DEF Writes, Discover!ChangePostVisibility, Discover!others
<1>10. ASSUME NEW p \in DOMAIN articles, Discover!RedactPost(p) PROVE Writes
  <2> DEFINE x == [articles[p] EXCEPT !.state = "redacted", !.words = 0, !.updated_at = Discover!ChangedAt(p)]
  <2>1. articles' = [articles EXCEPT ![p] = x]
    BY <1>10, RowsFit DEF Discover!RedactPost, Discover!PostRows
  <2>2. /\ x \in Discover!PostRows /\ x.topic = articles[p].topic /\ x.at = articles[p].at /\ x.updated_at >= x.at
    <3> DEFINE late == Discover!ChangedAt(p)
    <3>1. articles[p] \in Discover!PostRows /\ 0 \in 0..MaxWords /\ late \in 0..SearchTime /\ late >= articles[p].at
      BY <1>1, <1>7, RowsFit
    <3> HIDE DEF late
    <3>2. LET y == [articles[p] EXCEPT !.state = "redacted", !.words = 0, !.updated_at = late] IN
          y \in Discover!PostRows /\ y.topic = articles[p].topic /\ y.at = articles[p].at /\ y.updated_at >= y.at
      BY <3>1 DEF Discover!PostRows
    <3> QED BY <3>2 DEF late
  <2>3. ChangesArticle(p, x)
    BY <1>10, <2>1, <2>2 DEF ChangesArticle, Discover!RedactPost
  <2> QED BY <1>10, <2>3 DEF Writes, Discover!RedactPost, Discover!others
<1>11. ASSUME NEW t \in Subjects, NEW s \in {"open", "hidden"}, Discover!ChangeTopicState(t, s) PROVE Writes
  <2>1. subject[t] \in Discover!TopicRows /\ subject' = [subject EXCEPT ![t] = [subject[t] EXCEPT !.state = s]]
    BY <1>11 DEF Discover!ChangeTopicState, Discover!TypeOK, Discover!TopicRows
  <2>2. [subject[t] EXCEPT !.state = s] \in Discover!TopicRows /\ [subject[t] EXCEPT !.state = s].at = subject[t].at
    BY <2>1 DEF Discover!TopicRows
  <2>3. \A row \in Discover!TopicRows : row # Discover!Absent
    BY DEF Discover!TopicRows, Discover!Absent
  <2> DEFINE row == [subject[t] EXCEPT !.state = s]
  <2>4. row \in Discover!TopicRows /\ row.at = subject[t].at /\ row # Discover!Absent
        /\ subject' = [subject EXCEPT ![t] = row]
    BY <2>1, <2>2, <2>3
  <2> HIDE DEF row
  <2>5. ClosesTopic
    BY <1>11, <2>4 DEF ClosesTopic, Discover!ChangeTopicState, Discover!TypeOK
  <2> QED BY <1>11, <2>5 DEF Writes, Discover!ChangeTopicState, Discover!others
<1>12. ASSUME NEW t \in Subjects, NEW v \in Discover!Visibilities, Discover!ChangeArea(t, v) PROVE Writes
  <2>1. ClosesTopic
    BY <1>12 DEF ClosesTopic, Discover!ChangeArea, Discover!TypeOK
  <2> QED BY <1>12, <2>1 DEF Writes, Discover!ChangeArea, Discover!others
<1>13. ASSUME NEW who \in Discover!Authorities, Discover!ChangeAuthority(who) PROVE Passes
  BY <1>13 DEF Passes, Discover!ChangeAuthority, Discover!rows
<1>14. ASSUME Discover!Tick PROVE Passes
  BY <1>14 DEF Passes, Discover!Tick, Discover!rows, Discover!others
<1>15. ASSUME Discover!StepBack PROVE Passes
  BY <1>15 DEF Passes, Discover!StepBack, Discover!rows, Discover!others
<1>16. ASSUME Discover!RotateKey PROVE Turns
  BY <1>16 DEF Turns, GoesBack, Discover!RotateKey, Discover!Restart, Discover!rows
<1>17. ASSUME Discover!RetireKey PROVE Turns
  BY <1>17 DEF Turns, GoesBack, Discover!RetireKey, Discover!Restart, Discover!rows
<1> HIDE DEF DiscoverInv
<1> QED BY <1>2, <1>3, <1>4, <1>5, <1>6, <1>8, <1>9, <1>10, <1>11, <1>12, <1>13, <1>14, <1>15, <1>16, <1>17
     DEF Discover!Step, DiscoverShape

-----------------------------------------------------------------------------
(* Discovery: what a step keeps. *)

LEMMA DiscoverNumbers ==
    /\ SearchTime \in Nat /\ ArticlesKept \in Nat /\ MaximumAge \in Nat /\ FutureSkew \in Nat /\ MaxWords \in Nat
    /\ \A k \in Keys : NotBefore[k] \in Nat /\ IssueNotAfter[k] \in Nat /\ k \in Nat /\ k # 0
    /\ Discover!NoKey = 0 /\ Discover!NoCursor = [post |-> 0]
    /\ \A c \in Discover!Cursors : c # Discover!NoCursor
BY PartsAssumption DEF Discover!DiscoveryAssumption, Discover!NoKey, Discover!NoCursor, Discover!Cursors

\* Posts and topics keep their times, and the rows stay in order.
LEMMA ArticlesKeep ==
    ASSUME DiscoverInv, DiscoverShape
    PROVE  /\ articles' \in Seq(Discover!PostRows) /\ Len(articles') <= ArticlesKept
           /\ DOMAIN articles \in SUBSET DOMAIN articles' /\ DOMAIN articles' \in SUBSET (1..ArticlesKept)
           /\ \A p \in DOMAIN articles : articles'[p].at = articles[p].at /\ articles'[p].topic = articles[p].topic
           /\ subject' \in [Subjects -> {Discover!Absent} \cup Discover!TopicRows]
           /\ visibility' \in [Subjects -> Discover!Visibilities]
           /\ TopicsBegin'
<1> USE DEF DiscoverInv
<1>1. /\ articles \in Seq(Discover!PostRows) /\ Len(articles) \in Nat /\ DOMAIN articles = 1..Len(articles)
      /\ Len(articles) <= ArticlesKept /\ ArticlesKept \in Nat /\ DOMAIN articles \in SUBSET (1..ArticlesKept)
      /\ subject \in [Subjects -> {Discover!Absent} \cup Discover!TopicRows]
      /\ visibility \in [Subjects -> Discover!Visibilities]
      /\ \A p \in DOMAIN articles : articles[p] \in Discover!PostRows /\ articles[p].topic \in Subjects
      /\ \A row \in Discover!TopicRows : row # Discover!Absent
  BY RowsFit DEF Discover!TypeOK, Discover!PostRows, Discover!TopicRows, Discover!Absent
<1>2. ASSUME NEW x, AddsArticle(x)
      PROVE  /\ articles' \in Seq(Discover!PostRows) /\ Len(articles') <= ArticlesKept
             /\ DOMAIN articles \in SUBSET DOMAIN articles' /\ DOMAIN articles' \in SUBSET (1..ArticlesKept)
             /\ \A p \in DOMAIN articles : articles'[p] = articles[p]
             /\ subject' \in [Subjects -> {Discover!Absent} \cup Discover!TopicRows]
             /\ visibility' \in [Subjects -> Discover!Visibilities]
             /\ TopicsBegin'
  <2>1. /\ x \in Discover!PostRows /\ x.topic \in Subjects /\ x.updated_at >= x.at /\ Len(articles) < ArticlesKept
        /\ articles' = Append(articles, x) /\ visibility' = visibility
    BY <1>2 DEF AddsArticle, Discover!PostRows
  <2>2. /\ articles' \in Seq(Discover!PostRows) /\ Len(articles') = Len(articles) + 1
        /\ articles'[Len(articles) + 1] = x /\ \A p \in 1..Len(articles) : articles'[p] = articles[p]
    BY <1>1, <2>1, AppendProperties
  <2>3. DOMAIN articles' = 1..Len(articles) + 1
    BY <2>2, LenProperties
  <2>4. /\ subject' \in [Subjects -> {Discover!Absent} \cup Discover!TopicRows]
        /\ subject'[x.topic] # Discover!Absent
        /\ \A t \in Subjects : subject[t] # Discover!Absent => subject'[t] = subject[t]
        /\ \A t \in Subjects : subject[t] = Discover!Absent /\ subject'[t] # Discover!Absent =>
             t = x.topic /\ subject'[t].at = x.at
    <3>1. CASE subject' = subject /\ subject[x.topic] # Discover!Absent
      BY <1>1, <3>1
    <3>2. ASSUME NEW row \in Discover!TopicRows, row.at = x.at, subject' = [subject EXCEPT ![x.topic] = row],
                 subject[x.topic] = Discover!Absent
          PROVE  /\ subject' \in [Subjects -> {Discover!Absent} \cup Discover!TopicRows]
                 /\ subject'[x.topic] # Discover!Absent
                 /\ \A t \in Subjects : subject[t] # Discover!Absent => subject'[t] = subject[t]
                 /\ \A t \in Subjects : subject[t] = Discover!Absent /\ subject'[t] # Discover!Absent =>
                      t = x.topic /\ subject'[t].at = x.at
      BY <1>1, <2>1, <3>2
    <3> QED BY <1>2, <3>1, <3>2 DEF AddsArticle
  <2>5. ASSUME NEW p \in DOMAIN articles'
        PROVE  articles'[p].updated_at >= articles'[p].at /\ subject'[articles'[p].topic] # Discover!Absent
    <3>1. CASE p \in DOMAIN articles
      BY <1>1, <2>2, <2>4, <3>1 DEF TopicsBegin
    <3>2. CASE p = Len(articles) + 1
      BY <2>1, <2>2, <2>4, <3>2
    <3> QED BY <1>1, <2>3, <3>1, <3>2
  <2>6. ASSUME NEW t \in Subjects, subject'[t] # Discover!Absent PROVE \E p : FirstIs(t, p)'
    <3>1. CASE subject[t] # Discover!Absent
      <4>1. PICK p : FirstIs(t, p)
        BY <3>1 DEF TopicsBegin
      <4>2. p \in DOMAIN articles' /\ articles'[p].topic = t /\ articles'[p].at = subject'[t].at
        BY <1>1, <2>2, <2>3, <2>4, <3>1, <4>1 DEF FirstIs
      <4>3. \A q \in DOMAIN articles' : q < p => articles'[q].topic # t
        BY <1>1, <2>2, <2>3, <4>1 DEF FirstIs
      <4> QED BY <4>2, <4>3 DEF FirstIs
    <3>2. CASE subject[t] = Discover!Absent
      <4>1. t = x.topic /\ subject'[t].at = x.at
        BY <2>4, <2>6, <3>2
      <4>2. \A q \in DOMAIN articles : articles[q].topic # t
        BY <3>2 DEF TopicsBegin
      <4>3. \A q \in DOMAIN articles' : q < Len(articles) + 1 => articles'[q].topic # t
        BY <1>1, <2>2, <2>3, <4>2
      <4>4. Len(articles) + 1 \in DOMAIN articles'
        BY <1>1, <2>3
      <4> QED BY <2>2, <4>1, <4>3, <4>4 DEF FirstIs
    <3> QED BY <3>1, <3>2
  <2> QED BY <1>1, <2>1, <2>2, <2>3, <2>4, <2>5, <2>6 DEF TopicsBegin
<1>3. ASSUME NEW p, NEW x, ChangesArticle(p, x)
      PROVE  /\ articles' \in Seq(Discover!PostRows) /\ Len(articles') <= ArticlesKept
             /\ DOMAIN articles' = DOMAIN articles
             /\ \A q \in DOMAIN articles : /\ articles'[q].at = articles[q].at /\ articles'[q].topic = articles[q].topic
                                           /\ articles'[q].updated_at >= articles'[q].at
             /\ UNCHANGED <<subject, visibility>>
  <2>1. /\ articles' = [articles EXCEPT ![p] = x] /\ x \in Discover!PostRows /\ p \in DOMAIN articles
        /\ UNCHANGED <<subject, visibility>>
    BY <1>3 DEF ChangesArticle
  <2>2. /\ articles' \in Seq(Discover!PostRows) /\ Len(articles') = Len(articles)
        /\ \A q \in DOMAIN articles : articles'[q] = IF q = p THEN x ELSE articles[q]
    BY <1>1, <2>1, ExceptSeq
  <2> QED BY <1>1, <1>3, <2>1, <2>2 DEF ChangesArticle, TopicsBegin
<1>4. ASSUME /\ articles' \in Seq(Discover!PostRows) /\ DOMAIN articles' = DOMAIN articles
             /\ \A q \in DOMAIN articles : /\ articles'[q].at = articles[q].at /\ articles'[q].topic = articles[q].topic
                                           /\ articles'[q].updated_at >= articles'[q].at
             /\ \A t \in Subjects : /\ subject'[t] # Discover!Absent <=> subject[t] # Discover!Absent
                                    /\ subject[t] # Discover!Absent => subject'[t].at = subject[t].at
      PROVE  TopicsBegin'
  <2>1. \A t, q : FirstIs(t, q) /\ t \in Subjects /\ subject[t] # Discover!Absent => FirstIs(t, q)'
    BY <1>4 DEF FirstIs
  <2> QED BY <1>1, <1>4, <2>1 DEF TopicsBegin
<1>5. CASE Writes
  <2>1. CASE \E x : AddsArticle(x)
    BY <1>2, <2>1
  <2>2. CASE \E p, x : ChangesArticle(p, x)
    <3>1. PICK p, x : ChangesArticle(p, x)
      BY <2>2
    <3>2. \A t \in Subjects : subject'[t] = subject[t]
      BY <1>3, <3>1
    <3> QED BY <1>1, <1>3, <1>4, <3>1, <3>2
  <2>3. CASE ClosesTopic
    <3>1. \A q \in DOMAIN articles : articles[q].updated_at >= articles[q].at
      BY DEF TopicsBegin
    <3> QED BY <1>1, <1>4, <2>3, <3>1 DEF ClosesTopic
  <2> QED BY <1>5, <2>1, <2>2, <2>3 DEF Writes
<1>6. CASE UNCHANGED <<visibility, subject, articles>>
  <2>1. \A q \in DOMAIN articles : articles[q].updated_at >= articles[q].at
    BY DEF TopicsBegin
  <2> QED BY <1>1, <1>4, <1>6, <2>1
<1>7. ASSUME Discover!RecentActivity PROVE UNCHANGED <<visibility, subject, articles>>
  BY <1>7 DEF Discover!RecentActivity, Discover!rows
<1> QED BY <1>5, <1>6, <1>7 DEF DiscoverShape, Asks, Fails, Turns, Passes

LEMMA BeforeKeeps ==
    ASSUME DiscoverInv, DiscoverShape, NEW p \in DOMAIN articles, NEW q \in DOMAIN articles
    PROVE  Discover!Before(p, q)' <=> Discover!Before(p, q)
<1>1. articles'[p].at = articles[p].at /\ articles'[q].at = articles[q].at
  BY ArticlesKeep
<1> QED BY <1>1 DEF Discover!Before

\* What a walk remembers.
LEMMA Remembered ==
    ASSUME Discover!Remember
    PROVE  \/ /\ walk.step = "asked" /\ walk.cursor = Discover!NoCursor /\ walk'.step \in {"page", "ended"}
              /\ stayed' = Discover!Listed(walk.actor)
           \/ /\ Reads /\ walk'.step # "refused"
              /\ \E who : who = walk.cursor.audience /\ stayed' = stayed \cap Discover!Listed(who)'
           \/ /\ ~(Reads /\ walk'.step # "refused") /\ stayed' = {}
              /\ ~(walk.step = "asked" /\ walk.cursor = Discover!NoCursor /\ walk'.step \in {"page", "ended"})
BY DEF Discover!Remember, Reads

\* A step that leaves the walk's place leaves what it has shown in order.
WalkKeeps ==
    /\ walk'.cursor = walk.cursor /\ walk'.shown = walk.shown
    /\ walk'.step = "page" => walk.cursor # Discover!NoCursor
    /\ walk'.step = "asked" => walk.step = "asked" \/ walk.cursor # Discover!NoCursor
    /\ walk'.step = "ended" => walk.step = "ended"
    /\ walk'.step \in {"page", "asked"} => walk.step \in {"page", "asked"}

LEMMA WalkStays ==
    ASSUME DiscoverInv, DiscoverShape, Discover!Remember, WalkKeeps
    PROVE  WalkStands'
<1> DEFINE D == DOMAIN articles
           shown == walk.shown
<1>1. /\ walk'.cursor = walk.cursor /\ walk'.shown = shown
      /\ D \in SUBSET DOMAIN articles' /\ shown \in Seq(D) /\ stayed \in SUBSET D
      /\ Len(shown) \in Nat /\ \A i \in 1..Len(shown) : shown[i] \in D
  BY ArticlesKeep, LenProperties, ElementOfSeq DEF WalkKeeps, DiscoverInv, WalkStands
<1>2. \A p, q \in D : Discover!Before(p, q)' <=> Discover!Before(p, q)
  BY BeforeKeeps
<1>3. shown \in Seq(DOMAIN articles') /\ stayed' \in SUBSET DOMAIN articles' /\ (~Reads' => walk'.step # "ended" \/ stayed' = {})
  <2>1. shown \in Seq(DOMAIN articles')
    BY <1>1, SeqMonotonic
  <2>2. ~(walk.step = "asked" /\ walk.cursor = Discover!NoCursor /\ walk'.step \in {"page", "ended"})
    BY DEF WalkKeeps
  <2>3. stayed' \in SUBSET stayed /\ (walk'.step = "ended" => stayed' = {})
    BY <2>2, Remembered DEF WalkKeeps, Reads
  <2> QED BY <1>1, <2>1, <2>3
<1>5. ASSUME Reads'
      PROVE  /\ Reads /\ stayed' \in SUBSET stayed
             /\ \A p \in stayed' : /\ Discover!PostSeen(walk.cursor.audience, p)'
                                   /\ Discover!Before(p, walk.cursor.post)' \/ Shown(p)'
  <2>1. Reads /\ walk'.step # "refused" /\ walk'.step \in {"page", "asked"}
    BY <1>1, <1>5 DEF Reads, WalkKeeps
  <2>2. PICK who : who = walk.cursor.audience /\ stayed' = stayed \cap Discover!Listed(who)'
    BY <2>1, Remembered DEF Reads
  <2>3. ASSUME NEW p \in stayed' PROVE Discover!PostSeen(walk.cursor.audience, p)'
    <3>1. Discover!PostSeen(who, p)' /\ who = walk'.cursor.audience
      BY <1>1, <2>2, <2>3 DEF Discover!Listed
    <3> QED BY <3>1 DEF Discover!PostSeen, Discover!TopicSeen, Discover!AreaSeen
  <2>4. ASSUME NEW p \in stayed' PROVE Discover!Before(p, walk.cursor.post)' \/ Shown(p)'
    <3>1. p \in stayed /\ p \in D /\ (Discover!Before(p, walk.cursor.post) \/ Shown(p))
      BY <1>1, <2>1, <2>2 DEF DiscoverInv, WalkStands
    <3>2. walk.cursor.post \in D
      BY <1>1, <2>1 DEF DiscoverInv, WalkStands
    <3>3. articles'[p].at = articles[p].at /\ articles'[walk.cursor.post].at = articles[walk.cursor.post].at
      BY <3>1, <3>2, ArticlesKeep
    <3>4. Discover!Before(p, walk.cursor.post) => Discover!Before(p, walk.cursor.post)'
      BY <1>1, <3>3 DEF Discover!Before
    <3>5. Shown(p) => Shown(p)'
      BY <1>1 DEF Shown
    <3> QED BY <3>1, <3>4, <3>5
  <2> QED BY <2>1, <2>2, <2>3, <2>4
<1>6. Reads' => Len(shown) \in Nat \ {0} /\ walk'.cursor.post = shown[Len(shown)]
  BY <1>1, <1>5 DEF DiscoverInv, WalkStands
<1>7. /\ walk'.step = "page" => walk'.cursor # Discover!NoCursor
      /\ walk'.step = "asked" /\ walk'.cursor = Discover!NoCursor => shown = <<>>
  BY <1>1 DEF WalkKeeps, DiscoverInv, WalkStands
<1>8. walk'.step = "ended" => stayed' = {}
  <2>1. walk'.step = "ended" => ~Reads'
    BY DEF Reads
  <2> QED BY <1>3, <2>1
<1>9. \A i, j \in 1..Len(walk'.shown) : i < j => Discover!Before(walk.shown[j], walk.shown[i])'
  <2> TAKE i, j \in 1..Len(walk'.shown)
  <2>1. walk'.shown[i] = shown[i] /\ walk'.shown[j] = shown[j] /\ i \in 1..Len(shown) /\ j \in 1..Len(shown)
    BY <1>1
  <2>2. i < j => Discover!Before(shown[j], shown[i])
    BY <2>1 DEF DiscoverInv, WalkStands
  <2>3. articles'[shown[i]].at = articles[shown[i]].at /\ articles'[shown[j]].at = articles[shown[j]].at
    BY <1>1, <2>1, ArticlesKeep
  <2> QED BY <2>1, <2>2, <2>3 DEF Discover!Before
<1>10. WalkStands' <=>
        /\ walk'.shown \in Seq(DOMAIN articles') /\ stayed' \in SUBSET DOMAIN articles'
        /\ \A i, j \in 1..Len(walk'.shown) : i < j => Discover!Before(walk.shown[j], walk.shown[i])'
        /\ walk'.step = "page" => walk'.cursor # Discover!NoCursor
        /\ walk'.step = "asked" /\ walk'.cursor = Discover!NoCursor => walk'.shown = <<>>
        /\ walk'.step = "ended" => \A p \in stayed' : Shown(p)'
        /\ Reads' => /\ Len(walk'.shown) \in Nat \ {0} /\ walk'.cursor.post = walk'.shown[Len(walk'.shown)]
                     /\ \A p \in stayed' : /\ Discover!PostSeen(walk.cursor.audience, p)'
                                           /\ Discover!Before(p, walk.cursor.post)' \/ Shown(p)'
  BY Zenon DEF WalkStands, Discover!NoCursor
<1> HIDE DEF D, shown
<1> QED BY <1>1, <1>3, <1>5, <1>6, <1>7, <1>8, <1>9, <1>10

\* Discovery: a step of the reader, and how the ring and the clock move.
StaysStill == UNCHANGED <<clock, behind, visibility, subject, articles, authority, ring>>

LEMMA WalkIs ==
    ASSUME Discover!TypeOK
    PROVE  /\ walk = [step |-> walk.step, cursor |-> walk.cursor, actor |-> walk.actor, shown |-> walk.shown]
           /\ walk.step \in {"idle", "asked", "page", "ended", "refused"}
           /\ walk.cursor # Discover!NoCursor => walk.cursor \in Discover!Cursors
           /\ walk.actor \in Discover!Authorities /\ walk.shown \in Seq(1..ArticlesKept)
BY DEF Discover!TypeOK, Discover!Walks

\* The answer to a page that was asked for.
Refuses == walk.step = "asked" /\ walk.cursor # Discover!NoCursor /\ walk' = [walk EXCEPT !.step = "refused"]
           /\ ~(Discover!ValidateTime(walk.cursor) /\ Discover!BindAudience(walk.cursor, walk.actor))
Answers ==
    LET next == Discover!NextCursor(Discover!QueryRows(walk.actor, walk.cursor)) IN
    /\ walk.step = "asked" /\ Discover!Issuing
    /\ walk.cursor # Discover!NoCursor => walk.actor = walk.cursor.audience
    /\ walk' = [walk EXCEPT !.step = IF next = Discover!NoCursor THEN "ended" ELSE "page", !.cursor = next,
                            !.shown = walk.shown \o Visible(walk.actor, walk.cursor)]

LEMMA ActivityIs ==
    ASSUME Discover!TypeOK, Discover!RecentActivity
    PROVE  StaysStill /\ (GoesBack \/ Refuses \/ Answers)
<1>1. StaysStill /\ walk.step = "asked"
  BY DEF Discover!RecentActivity, StaysStill, Discover!rows
<1>2. walk' = IF ~Discover!Issuing THEN Discover!Retry
              ELSE IF walk.cursor # Discover!NoCursor
                        /\ ~(Discover!ValidateTime(walk.cursor) /\ Discover!BindAudience(walk.cursor, walk.actor))
                THEN [walk EXCEPT !.step = "refused"]
              ELSE LET next == Discover!NextCursor(Discover!QueryRows(walk.actor, walk.cursor)) IN
                   [walk EXCEPT !.step = IF next = Discover!NoCursor THEN "ended" ELSE "page", !.cursor = next,
                                !.shown = walk.shown \o Visible(walk.actor, walk.cursor)]
  BY WalkIs DEF Discover!RecentActivity, Visible
<1> QED BY <1>1, <1>2 DEF GoesBack, Refuses, Answers, Discover!BindAudience

LEMMA GoingBack ==
    ASSUME DiscoverInv, GoesBack
    PROVE  WalkKeeps /\ (walk'.step = "refused" => walk.step = "refused") /\ walk' \in Discover!Walks
<1> USE DEF DiscoverInv
<1>1. CASE walk' = walk
  BY <1>1 DEF WalkKeeps, DiscoverInv, WalkStands, Discover!TypeOK
<1>2. CASE walk.step = "asked" /\ walk' = Discover!Retry
  <2>1. walk' = [walk EXCEPT !.step = IF walk.cursor = Discover!NoCursor THEN "idle" ELSE "page"]
    BY <1>2 DEF Discover!Retry
  <2> DEFINE s == IF walk.cursor = Discover!NoCursor THEN "idle" ELSE "page"
  <2>2. /\ walk'.step = s /\ walk'.cursor = walk.cursor /\ walk'.shown = walk.shown /\ walk' \in Discover!Walks
    BY <2>1 DEF Discover!TypeOK, Discover!Walks
  <2> QED BY <1>2, <2>2 DEF WalkKeeps
<1> QED BY <1>1, <1>2 DEF GoesBack

LEMMA Asking ==
    ASSUME DiscoverInv, NEW c, Asks(c)
    PROVE  \/ /\ c = Discover!NoCursor /\ walk.step \in {"idle", "ended", "refused"}
              /\ walk' = [walk EXCEPT !.step = "asked", !.actor = authority, !.cursor = c, !.shown = <<>>]
           \/ /\ c = walk.cursor /\ walk.step = "page" /\ c # Discover!NoCursor /\ Discover!VerifyCursor(c)
              /\ walk' = [walk EXCEPT !.step = "asked", !.actor = authority]
           \/ /\ c = walk.cursor /\ walk.step = "page" /\ c # Discover!NoCursor /\ ~Discover!VerifyCursor(c)
              /\ walk' = [walk EXCEPT !.step = "refused"]
<1> USE DEF DiscoverInv
<1>1. walk' = IF c # Discover!NoCursor /\ ~Discover!VerifyCursor(c) THEN [walk EXCEPT !.step = "refused"]
              ELSE [walk EXCEPT !.step = "asked", !.actor = authority, !.cursor = c,
                                !.shown = IF c = Discover!NoCursor THEN <<>> ELSE walk.shown]
  BY WalkIs DEF Asks, Discover!AskPage
<1>2. CASE c = Discover!NoCursor /\ walk.step \in {"idle", "ended", "refused"}
  BY <1>1, <1>2
<1>3. CASE c = walk.cursor /\ walk.step = "page"
  <2>1. c # Discover!NoCursor
    BY <1>3 DEF WalkStands
  <2>2. [walk EXCEPT !.step = "asked", !.actor = authority, !.cursor = walk.cursor, !.shown = walk.shown]
          = [walk EXCEPT !.step = "asked", !.actor = authority]
    BY WalkIs
  <2> QED BY <1>1, <1>3, <2>1, <2>2
<1> QED BY <1>2, <1>3 DEF Asks

LEMMA CursorIsMade ==
    ASSUME DiscoverInv, NEW p \in DOMAIN articles, Discover!Issuing
    PROVE  LET c == Discover!EncodeCursor(p) IN
           /\ c \in Discover!Cursors /\ c # Discover!NoCursor /\ c.post = p /\ c.audience = walk.actor
           /\ c.issued >= NotBefore[c.key] /\ c.issued <= IssueNotAfter[c.key]
           /\ c.issued <= clock + FutureSkew - Skew /\ c.key \in {ring.active, ring.previous}
<1>1. /\ p \in 1..ArticlesKept /\ ring.active \in Keys /\ clock \in 0..SearchTime /\ walk.actor \in Discover!Authorities
  BY RowsFit, WalkIs DEF DiscoverInv, Discover!TypeOK
<1>2. /\ clock >= NotBefore[ring.active] /\ clock <= IssueNotAfter[ring.active]
  BY DEF Discover!Issuing
<1>3. Discover!EncodeCursor(p) \in Discover!Cursors
  BY <1>1 DEF Discover!EncodeCursor, Discover!Cursors
<1>4. /\ Discover!EncodeCursor(p).post = p /\ Discover!EncodeCursor(p).audience = walk.actor
      /\ Discover!EncodeCursor(p).issued = clock /\ Discover!EncodeCursor(p).key = ring.active
  BY DEF Discover!EncodeCursor
<1>5. clock <= clock + FutureSkew - Skew
  BY <1>1, DiscoverNumbers DEF Skew
<1> QED BY <1>2, <1>3, <1>4, <1>5, DiscoverNumbers

\* The next page continues the walk where the last one ended.
LEMMA PageIsShown ==
    ASSUME DiscoverInv, StaysStill, Answers, Discover!Remember
    PROVE  WalkStands' /\ walk' \in Discover!Walks /\ CursorStands' /\ walk'.step # "refused"
<1> USE DEF DiscoverInv
<1> DEFINE D == DOMAIN articles
           old == walk.shown
           v == Visible(walk.actor, walk.cursor)
           next == Discover!NextCursor(Discover!QueryRows(walk.actor, walk.cursor))
           left == Left(walk.actor, walk.cursor)
           new == old \o v
           s == IF next = Discover!NoCursor THEN "ended" ELSE "page"
           n == Len(old)
           m == Len(v)
<1>1. /\ left \in SUBSET D /\ v \in Seq(left) /\ v \in Seq(D)
      /\ \A i, j \in 1..m : i < j => Discover!Before(v[j], v[i])
      /\ \/ next = Discover!NoCursor /\ \A p \in left : \E i \in 1..m : p = v[i]
         \/ /\ m \in Nat \ {0} /\ next = Discover!EncodeCursor(v[m])
            /\ \A p \in left : Discover!Before(p, v[m]) \/ \E i \in 1..m : p = v[i]
  BY PageHas
<1>2. walk' = [walk EXCEPT !.step = s, !.cursor = next, !.shown = new] /\ walk.step = "asked" /\ Discover!Issuing
  BY DEF Answers
<1>3. old \in Seq(D) /\ n \in Nat /\ m \in Nat /\ \A i \in 1..n : old[i] \in D
  BY <1>1, LenProperties, ElementOfSeq DEF WalkStands
<1>4. \A i \in 1..m : v[i] \in left /\ v[i] \in D
  BY <1>1, <1>3, ElementOfSeq
<1> HIDE DEF v, next, left
<1>5. /\ new \in Seq(D) /\ Len(new) = n + m
      /\ \A i \in 1..n : new[i] = old[i]
      /\ \A i \in 1..m : new[n + i] = v[i]
  BY <1>1, <1>3, ConcatProperties
<1> HIDE DEF new, n, m, old
<1>6. /\ walk'.step = s /\ walk'.cursor = next /\ walk'.shown = new /\ walk'.actor = walk.actor
  BY <1>2, WalkIs
<1>7. /\ D' = D /\ \A p, q : Discover!Before(p, q)' <=> Discover!Before(p, q)
      /\ \A who, p : Discover!PostSeen(who, p)' <=> Discover!PostSeen(who, p)
      /\ \A who : Discover!Listed(who)' = Discover!Listed(who)
  BY DEF StaysStill, Discover!Before, Discover!Listed, Discover!PostSeen, Discover!TopicSeen, Discover!AreaSeen
\* Everything that is left is older than what was shown.
<1>8. ASSUME walk.cursor # Discover!NoCursor
      PROVE  /\ n \in Nat \ {0} /\ walk.cursor.post = old[n] /\ walk.actor = walk.cursor.audience
             /\ \A p \in left : Discover!Before(p, old[n])
             /\ \A p \in stayed : p \in D /\ (p \in left \/ \E i \in 1..n : p = old[i])
  <2>1. /\ Len(walk.shown) \in Nat \ {0} /\ walk.cursor.post = walk.shown[Len(walk.shown)]
        /\ stayed \in SUBSET DOMAIN articles
        /\ \A p \in stayed : /\ Discover!PostSeen(walk.cursor.audience, p)
                             /\ Discover!Before(p, walk.cursor.post) \/ Shown(p)
    BY <1>2, <1>8 DEF WalkStands, Reads
  <2>2. walk.actor = walk.cursor.audience
    BY <1>8 DEF Answers
  <2>3. left = {p \in D : Discover!PostSeen(walk.actor, p) /\ Discover!Before(p, walk.cursor.post)}
    BY <1>8 DEF left, Left, Discover!ListRecentActivityAfter, Discover!Listed
  <2> QED BY <2>1, <2>2, <2>3 DEF Shown, old, n
<1>9. ASSUME walk.cursor = Discover!NoCursor
      PROVE  n = 0 /\ left = Discover!Listed(walk.actor)
  <2>1. old = <<>>
    BY <1>2, <1>9 DEF WalkStands, old
  <2> QED BY <1>9, <2>1 DEF left, Left, Discover!ListRecentActivityInitial, n
<1>10. ASSUME NEW i \in 1..(n + m), NEW j \in 1..(n + m), i < j PROVE Discover!Before(new[j], new[i])
  <2>1. CASE j <= n
    <3>1. i \in 1..n /\ j \in 1..n
      BY <1>3, <1>10, <2>1
    <3>2. Discover!Before(old[j], old[i])
      BY <1>10, <3>1 DEF WalkStands, old, n
    <3> QED BY <1>5, <3>1, <3>2
  <2>2. CASE i > n
    <3> DEFINE a == i - n
               b == j - n
    <3>1. a \in 1..m /\ b \in 1..m /\ a < b /\ i = n + a /\ j = n + b
      BY <1>3, <1>10, <2>2
    <3> HIDE DEF a, b
    <3> QED BY <1>1, <1>5, <3>1
  <2>3. CASE i <= n /\ j > n
    <3> DEFINE b == j - n
    <3>1. b \in 1..m /\ j = n + b /\ i \in 1..n /\ n # 0
      BY <1>3, <1>10, <2>3
    <3> HIDE DEF b
    <3>2. new[j] = v[b] /\ new[i] = old[i] /\ v[b] \in left /\ v[b] \in D /\ old[i] \in D /\ old[n] \in D
      BY <1>3, <1>4, <1>5, <3>1
    <3>3. walk.cursor # Discover!NoCursor
      BY <1>9, <3>1
    <3>4. Discover!Before(v[b], old[n])
      BY <1>8, <3>2, <3>3
    <3>5. i = n \/ Discover!Before(old[n], old[i])
      <4>1. i = n \/ (i < n /\ n \in 1..n)
        BY <1>3, <3>1
      <4> QED BY <3>1, <4>1 DEF WalkStands, old, n
    <3>6. \A p, q, r \in D : Discover!Before(p, q) /\ Discover!Before(q, r) => Discover!Before(p, r)
      <4>1. \A p \in D : p \in Nat /\ articles[p].at \in Nat
        BY RowsFit
      <4> QED BY <4>1 DEF Discover!Before
    <3> QED BY <3>2, <3>4, <3>5, <3>6
  <2> QED BY <1>3, <1>10, <2>1, <2>2, <2>3
\* What stays is left or shown.
<1>11. /\ stayed' \in SUBSET D
       /\ \A p \in stayed' : p \in left \/ \E i \in 1..n : p = old[i]
       /\ \A p \in stayed' : Discover!PostSeen(walk.actor, p)
  <2>1. CASE walk.cursor = Discover!NoCursor
    <3>1. stayed' = Discover!Listed(walk.actor)
      BY <1>2, <1>6, <2>1, Remembered DEF Reads
    <3> QED BY <1>9, <2>1, <3>1 DEF Discover!Listed
  <2>2. CASE walk.cursor # Discover!NoCursor
    <3>1. Reads /\ walk'.step # "refused"
      BY <1>2, <1>6, <2>2 DEF Reads
    <3>2. PICK who : who = walk.cursor.audience /\ stayed' = stayed \cap Discover!Listed(who)'
      BY <2>2, <3>1, Remembered
    <3>3. stayed' = stayed \cap Discover!Listed(walk.actor)
      BY <1>7, <1>8, <2>2, <3>2
    <3> QED BY <1>8, <2>2, <3>3 DEF Discover!Listed
  <2> QED BY <2>1, <2>2
<1>12. \A p : (\E i \in 1..n : p = old[i]) \/ (\E i \in 1..m : p = v[i]) => \E i \in 1..(n + m) : p = new[i]
  <2>1. \A i \in 1..n : i \in 1..(n + m) /\ old[i] = new[i]
    BY <1>3, <1>5
  <2>2. \A i \in 1..m : n + i \in 1..(n + m) /\ v[i] = new[n + i]
    BY <1>3, <1>5
  <2> QED BY <2>1, <2>2
<1>13. CASE next = Discover!NoCursor
  <2>1. \A p \in stayed' : \E i \in 1..(n + m) : p = new[i]
    <3>1. m \notin Nat \ {0} \/ Discover!EncodeCursor(v[m]) # Discover!NoCursor
      <4>1. m \in Nat \ {0} => v[m] \in D
        BY <1>4
      <4> QED BY <1>2, <4>1, CursorIsMade
    <3>2. \A p \in left : \E i \in 1..m : p = v[i]
      BY <1>1, <1>13, <3>1
    <3> QED BY <1>11, <1>12, <3>2
  <2>2. s = "ended" /\ ~Reads'
    BY <1>6, <1>13 DEF Reads
  <2>3. WalkStands'
    <3>1. \A p \in stayed' : Shown(p)'
      BY <1>5, <1>6, <2>1 DEF Shown
    <3>2. \A i, j \in 1..Len(walk'.shown) : i < j => Discover!Before(walk.shown[j], walk.shown[i])'
      <4>1. \A i, j \in 1..(n + m) : i < j => Discover!Before(new[j], new[i])
        BY <1>10
      <4> QED BY <1>5, <1>6, <4>1 DEF Discover!Before, StaysStill
    <3> QED BY <1>5, <1>6, <1>7, <1>11, <2>2, <3>1, <3>2 DEF WalkStands, Discover!NoCursor
  <2>4. CursorStands'
    BY <1>6, <1>13 DEF CursorStands, Discover!NoCursor
  <2>5. walk' \in Discover!Walks
    <3>1. new \in Seq(1..ArticlesKept)
      BY <1>5, RowsFit, SeqMonotonic
    <3>2. s \in {"idle", "asked", "page", "ended", "refused"} /\ next \in {Discover!NoCursor} \cup Discover!Cursors
      BY <1>13
    <3> HIDE DEF s
    <3> QED BY <1>2, <3>1, <3>2 DEF Discover!TypeOK, Discover!Walks
  <2> QED BY <1>6, <2>2, <2>3, <2>4, <2>5
<1>14. CASE next # Discover!NoCursor
  <2>1. /\ m \in Nat \ {0} /\ next = Discover!EncodeCursor(v[m])
        /\ \A p \in left : Discover!Before(p, v[m]) \/ \E i \in 1..m : p = v[i]
    BY <1>1, <1>14
  <2>2. v[m] \in D /\ new[n + m] = v[m] /\ n + m \in Nat \ {0}
    BY <1>3, <1>4, <1>5, <2>1
  <2>3. /\ next \in Discover!Cursors /\ next.post = v[m] /\ next.audience = walk.actor
        /\ next.issued >= NotBefore[next.key] /\ next.issued <= IssueNotAfter[next.key]
        /\ next.issued <= clock + FutureSkew - Skew /\ next.key \in {ring.active, ring.previous}
    BY <1>2, <2>1, <2>2, CursorIsMade
  <2>4. s = "page"
    BY <1>14
  <2>5. \A p \in stayed' : Discover!Before(p, next.post) \/ \E i \in 1..(n + m) : p = new[i]
    BY <1>11, <1>12, <2>1, <2>3
  <2>6. WalkStands'
    <3>1. \A p \in stayed' : Discover!Before(p, walk.cursor.post)' \/ Shown(p)'
      <4> TAKE p \in stayed'
      <4>1. CASE Discover!Before(p, next.post)
        BY <1>6, <4>1 DEF Discover!Before, StaysStill
      <4>2. CASE \E i \in 1..(n + m) : p = new[i]
        BY <1>5, <1>6, <4>2 DEF Shown
      <4> QED BY <2>5, <4>1, <4>2
    <3>2. \A i, j \in 1..Len(walk'.shown) : i < j => Discover!Before(walk.shown[j], walk.shown[i])'
      <4>1. \A i, j \in 1..(n + m) : i < j => Discover!Before(new[j], new[i])
        BY <1>10
      <4> QED BY <1>5, <1>6, <4>1 DEF Discover!Before, StaysStill
    <3>3. \A p \in stayed' : Discover!PostSeen(walk.cursor.audience, p)'
      <4> TAKE p \in stayed'
      <4>1. Discover!PostSeen(walk.actor, p) /\ walk'.cursor.audience = walk.actor
        BY <1>6, <1>11, <2>3
      <4> QED BY <4>1 DEF StaysStill, Discover!PostSeen, Discover!TopicSeen, Discover!AreaSeen
    <3>4. /\ walk'.shown \in Seq(D') /\ stayed' \in SUBSET D' /\ walk'.step = "page" /\ walk'.cursor # Discover!NoCursor
          /\ Len(walk'.shown) \in Nat \ {0} /\ walk'.cursor.post = walk'.shown[Len(walk'.shown)]
      BY <1>5, <1>6, <1>7, <1>11, <1>14, <2>2, <2>3, <2>4
    <3> QED BY <3>1, <3>2, <3>3, <3>4 DEF WalkStands, Discover!NoCursor, Reads
  <2>7. CursorStands'
    <3>1. clock' = clock /\ behind' = behind /\ ring' = ring
      BY DEF StaysStill
    <3> QED BY <1>6, <2>3, <3>1 DEF CursorStands, Skew, Retired
  <2>8. walk' \in Discover!Walks
    <3>1. new \in Seq(1..ArticlesKept)
      BY <1>5, RowsFit, SeqMonotonic
    <3>2. s \in {"idle", "asked", "page", "ended", "refused"} /\ next \in {Discover!NoCursor} \cup Discover!Cursors
      BY <2>3
    <3> HIDE DEF s
    <3> QED BY <1>2, <3>1, <3>2 DEF Discover!TypeOK, Discover!Walks
  <2> QED BY <1>6, <2>4, <2>6, <2>7, <2>8
<1> QED BY <1>13, <1>14

LEMMA AskedIs ==
    ASSUME DiscoverInv, NEW c, Asks(c), Discover!Remember
    PROVE  /\ WalkStands' /\ walk' \in Discover!Walks
           /\ walk'.cursor \in {walk.cursor, Discover!NoCursor}
           /\ walk'.step = "refused" => walk.step = "page" /\ walk.cursor # Discover!NoCursor /\ ~Discover!VerifyCursor(walk.cursor)
<1> USE DEF DiscoverInv
<1>1. DiscoverShape /\ UNCHANGED <<visibility, subject, articles>>
  BY DEF DiscoverShape, Asks
<1>2. authority \in Discover!Authorities
  BY DEF Discover!TypeOK
<1>3. CASE walk' = [walk EXCEPT !.step = "asked", !.actor = authority, !.cursor = Discover!NoCursor, !.shown = <<>>]
           /\ walk.step \in {"idle", "ended", "refused"}
  <2>1. /\ walk'.step = "asked" /\ walk'.cursor = Discover!NoCursor /\ walk'.shown = <<>>
    BY <1>3, WalkIs
  <2>2. stayed' = {}
    BY <1>3, Remembered DEF Reads
  <2>3. walk' \in Discover!Walks
    <3>1. <<>> \in Seq(1..ArticlesKept)
      BY EmptySeq
    <3> QED BY <1>2, <1>3, <3>1 DEF Discover!TypeOK, Discover!Walks
  <2>4. WalkStands'
    <3>1. Len(walk'.shown) = 0 /\ walk'.shown \in Seq(DOMAIN articles')
      BY <2>1, EmptySeq
    <3>2. ~Reads'
      BY <2>1 DEF Reads, Discover!NoCursor
    <3>3. stayed' \in SUBSET DOMAIN articles' /\ \A i, j \in 1..Len(walk'.shown) : FALSE
      BY <2>2, <3>1
    <3> QED BY <2>1, <3>1, <3>2, <3>3 DEF WalkStands, Discover!NoCursor
  <2> QED BY <2>1, <2>3, <2>4
<1>4. CASE walk.step = "page" /\ walk.cursor # Discover!NoCursor /\ walk' = [walk EXCEPT !.step = "asked", !.actor = authority]
  <2>1. walk'.step = "asked" /\ walk'.cursor = walk.cursor /\ walk'.shown = walk.shown /\ walk' \in Discover!Walks
    BY <1>2, <1>4 DEF Discover!TypeOK, Discover!Walks
  <2>2. WalkKeeps
    BY <1>4, <2>1 DEF WalkKeeps
  <2> QED BY <1>1, <2>1, <2>2, WalkStays
<1>5. CASE /\ walk.step = "page" /\ walk.cursor # Discover!NoCursor /\ ~Discover!VerifyCursor(walk.cursor)
           /\ walk' = [walk EXCEPT !.step = "refused"]
  <2>1. walk'.step = "refused" /\ walk'.cursor = walk.cursor /\ walk'.shown = walk.shown /\ walk' \in Discover!Walks
    BY <1>5 DEF Discover!TypeOK, Discover!Walks
  <2>2. WalkKeeps
    BY <1>5, <2>1 DEF WalkKeeps
  <2> QED BY <1>1, <1>5, <2>1, <2>2, WalkStays
<1> QED BY <1>3, <1>4, <1>5, Asking

\* The clock and the ring move, and a cursor is as good as before.
ClockAndRing ==
    \/ UNCHANGED <<clock, behind, ring>>
    \/ UNCHANGED ring /\ \/ clock < SearchTime /\ clock' = clock + 1 /\ UNCHANGED behind
                         \/ ~behind /\ clock >= FutureSkew /\ behind' = TRUE /\ clock' = clock - FutureSkew
    \/ /\ UNCHANGED <<clock, behind>>
       /\ \/ ring.previous = Discover!NoKey /\ ring.active + 1 \in Keys
             /\ ring' = [active |-> ring.active + 1, previous |-> ring.active]
          \/ ring.previous # Discover!NoKey /\ clock > IssueNotAfter[ring.previous] + MaximumAge + FutureSkew
             /\ ring' = [active |-> ring.active, previous |-> Discover!NoKey]

LEMMA CursorStays ==
    ASSUME DiscoverInv, ClockAndRing, walk'.cursor \in {walk.cursor, Discover!NoCursor}
    PROVE  /\ CursorStands' /\ clock' \in 0..SearchTime /\ behind' \in BOOLEAN
           /\ ring' \in [active : Keys, previous : Keys \cup {Discover!NoKey}]
<1> USE DEF DiscoverInv
<1>1. /\ clock \in 0..SearchTime /\ behind \in BOOLEAN /\ ring \in [active : Keys, previous : Keys \cup {Discover!NoKey}]
      /\ SearchTime \in Nat /\ FutureSkew \in Nat /\ MaximumAge \in Nat /\ Discover!NoKey = 0
      /\ \A k \in Keys : NotBefore[k] \in Nat /\ IssueNotAfter[k] \in Nat /\ k # 0
  BY DiscoverNumbers DEF Discover!TypeOK
<1>2. clock' \in 0..SearchTime /\ behind' \in BOOLEAN /\ ring' \in [active : Keys, previous : Keys \cup {Discover!NoKey}]
  <2>1. clock' \in 0..SearchTime /\ behind' \in BOOLEAN
    <3>1. ASSUME clock < SearchTime, clock' = clock + 1 PROVE clock' \in 0..SearchTime
      BY <1>1, <3>1
    <3>2. ASSUME clock >= FutureSkew, clock' = clock - FutureSkew PROVE clock' \in 0..SearchTime
      BY <1>1, <3>2
    <3> QED BY <1>1, <3>1, <3>2, Zenon DEF ClockAndRing
  <2>2. ring' \in [active : Keys, previous : Keys \cup {Discover!NoKey}]
    BY <1>1 DEF ClockAndRing
  <2> QED BY <2>1, <2>2
<1>3. CASE walk'.cursor = Discover!NoCursor
  BY <1>2, <1>3 DEF CursorStands, Discover!NoCursor
<1>4. CASE walk'.cursor = walk.cursor /\ walk.cursor # Discover!NoCursor
  <2> DEFINE c == walk.cursor
  <2>1. c.key \in Keys /\ c.issued \in Nat
    BY <1>1, <1>4, WalkIs DEF Discover!Cursors
  <2>2. /\ c.issued >= NotBefore[c.key] /\ c.issued <= IssueNotAfter[c.key]
        /\ c.issued <= clock + FutureSkew - Skew
        /\ c.key \in {ring.active, ring.previous} \/ clock > IssueNotAfter[c.key] + MaximumAge + Skew
    BY <1>4 DEF CursorStands, Retired
  <2> HIDE DEF c
  <2> DEFINE k == c.key
             late == IssueNotAfter[k]
  <2>3. late \in Nat /\ k \in Keys
    BY <1>1, <2>1
  <2>4. CASE UNCHANGED <<clock, behind, ring>>
    <3>1. Skew' = Skew
      BY <2>4 DEF Skew
    <3> QED BY <1>2, <1>4, <2>2, <2>4, <3>1 DEF CursorStands, Retired, c
  <2>5. CASE UNCHANGED ring /\ clock < SearchTime /\ clock' = clock + 1 /\ UNCHANGED behind
    <3>1. Skew' = Skew /\ Skew \in Nat
      BY <1>1, <2>5 DEF Skew
    <3>2. c.issued <= clock' + FutureSkew - Skew' /\ (clock > late + MaximumAge + Skew => clock' > late + MaximumAge + Skew')
      BY <1>1, <2>1, <2>2, <2>3, <2>5, <3>1
    <3> QED BY <1>2, <1>4, <2>2, <2>5, <3>2 DEF CursorStands, Retired, c
  <2>6. CASE UNCHANGED ring /\ ~behind /\ clock >= FutureSkew /\ behind' = TRUE /\ clock' = clock - FutureSkew
    <3>1. Skew' = 0 /\ Skew = FutureSkew
      BY <2>6 DEF Skew
    <3>2. c.issued <= clock' + FutureSkew - Skew' /\ (clock > late + MaximumAge + Skew => clock' > late + MaximumAge + Skew')
      BY <1>1, <2>1, <2>2, <2>3, <2>6, <3>1
    <3> QED BY <1>2, <1>4, <2>2, <2>6, <3>2 DEF CursorStands, Retired, c
  <2>7. CASE UNCHANGED <<clock, behind>> /\ ring.previous = Discover!NoKey
             /\ ring' = [active |-> ring.active + 1, previous |-> ring.active]
    <3>1. Skew' = Skew
      BY <2>7 DEF Skew
    <3>2. k \in {ring.active, ring.previous} => k \in {ring'.active, ring'.previous}
      BY <1>1, <2>3, <2>7
    <3> QED BY <1>2, <1>4, <2>2, <2>7, <3>1, <3>2 DEF CursorStands, Retired, c
  <2>8. CASE /\ UNCHANGED <<clock, behind>>
             /\ clock > IssueNotAfter[ring.previous] + MaximumAge + FutureSkew
             /\ ring.previous # Discover!NoKey /\ ring' = [active |-> ring.active, previous |-> Discover!NoKey]
    <3>1. Skew' = Skew /\ Skew \in Nat /\ Skew <= FutureSkew
      BY <1>1, <2>8 DEF Skew
    <3>2. k \in {ring.active, ring.previous} => k \in {ring'.active, ring'.previous} \/ clock > late + MaximumAge + Skew
      BY <1>1, <2>3, <2>8, <3>1
    <3> QED BY <1>2, <1>4, <2>2, <2>8, <3>1, <3>2 DEF CursorStands, Retired, c
  <2> QED BY <2>4, <2>5, <2>6, <2>7, <2>8 DEF ClockAndRing
<1> QED BY <1>2, <1>3, <1>4

LEMMA DiscoverInitially == ASSUME Discover!Init PROVE DiscoverInv
<1>1. /\ clock = 0 /\ behind = FALSE /\ visibility = [t \in Subjects |-> "public"]
      /\ subject = [t \in Subjects |-> Discover!Absent] /\ articles = <<>>
      /\ authority \in Discover!Authorities /\ ring = [active |-> Discover!Min(Keys), previous |-> Discover!NoKey]
      /\ walk = [step |-> "idle", cursor |-> Discover!NoCursor, actor |-> "visitor", shown |-> <<>>] /\ stayed = {}
  BY DEF Discover!Init, Discover!NoWalk
<1>2. Discover!Min(Keys) \in Keys
  <2>1. IsFiniteSet(Keys) /\ Keys # {} /\ Keys \in SUBSET Int
    BY PartsAssumption, DiscoverCounts DEF Discover!DiscoveryAssumption
  <2> QED BY <2>1, DiscoverEnds
<1>3. walk \in Discover!Walks
  <2>1. <<>> \in Seq(1..ArticlesKept)
    BY EmptySeq
  <2> QED BY <1>1, <2>1 DEF Discover!Walks, Discover!Authorities
<1>4. articles \in Seq(Discover!PostRows) /\ Len(articles) = 0 /\ DOMAIN articles = {}
  BY <1>1, EmptySeq
<1>5. Discover!TypeOK
  <2>1. clock \in 0..SearchTime /\ Len(articles) <= ArticlesKept
    BY <1>1, <1>4, DiscoverNumbers
  <2>2. /\ visibility \in [Subjects -> Discover!Visibilities]
        /\ subject \in [Subjects -> {Discover!Absent} \cup Discover!TopicRows]
        /\ ring \in [active : Keys, previous : Keys \cup {Discover!NoKey}]
    BY <1>1, <1>2 DEF Discover!Visibilities
  <2> QED BY <1>1, <1>3, <1>4, <2>1, <2>2 DEF Discover!TypeOK
<1>6. TopicsBegin
  BY <1>1, <1>4 DEF TopicsBegin
<1>7. CursorStands
  BY <1>1 DEF CursorStands
<1>8. WalkStands
  <2>1. walk.shown \in Seq(DOMAIN articles) /\ Len(walk.shown) = 0 /\ walk.step = "idle"
    BY <1>1, EmptySeq
  <2>2. \A i, j \in 1..Len(walk.shown) : FALSE
    BY <2>1
  <2> QED BY <1>1, <2>1, <2>2 DEF WalkStands, Reads
<1> QED BY <1>5, <1>6, <1>7, <1>8 DEF DiscoverInv

LEMMA DiscoverMoves ==
    ASSUME DiscoverInv, Discover!Next
    PROVE  /\ DiscoverInv'
           /\ walk'.step = "refused" /\ walk.step # "refused" =>
                \/ walk.step = "page" /\ walk.cursor # Discover!NoCursor /\ ~Discover!VerifyCursor(walk.cursor)
                \/ Refuses
<1> USE DEF DiscoverInv
<1>1. DiscoverShape /\ Discover!Remember
  BY DiscoverSteps DEF Discover!Next
<1>2. /\ articles' \in Seq(Discover!PostRows) /\ Len(articles') <= ArticlesKept /\ DOMAIN articles' \in SUBSET (1..ArticlesKept)
      /\ subject' \in [Subjects -> {Discover!Absent} \cup Discover!TopicRows]
      /\ visibility' \in [Subjects -> Discover!Visibilities] /\ TopicsBegin'
  BY <1>1, ArticlesKeep
<1>3. /\ WalkStands' /\ walk' \in Discover!Walks /\ CursorStands'
      /\ clock' \in 0..SearchTime /\ behind' \in BOOLEAN /\ authority' \in Discover!Authorities
      /\ ring' \in [active : Keys, previous : Keys \cup {Discover!NoKey}]
      /\ walk'.step = "refused" /\ walk.step # "refused" =>
           \/ walk.step = "page" /\ walk.cursor # Discover!NoCursor /\ ~Discover!VerifyCursor(walk.cursor)
           \/ Refuses
  <2>1. authority \in Discover!Authorities /\ walk \in Discover!Walks
    BY DEF Discover!TypeOK
  <2>2. ASSUME walk' = walk PROVE WalkKeeps
    BY <2>2 DEF WalkKeeps, WalkStands
  <2>3. CASE Writes \/ Passes
    <3>1. walk' = walk /\ ClockAndRing /\ authority' \in Discover!Authorities
      BY <2>1, <2>3 DEF Writes, Passes, ClockAndRing
    <3> QED BY <1>1, <2>1, <2>2, <3>1, WalkStays, CursorStays
  <2>4. ASSUME NEW c, Asks(c) PROVE <1>3!:
    <3>1. ClockAndRing /\ authority' = authority
      BY <2>4 DEF Asks, ClockAndRing
    <3> QED BY <1>1, <2>1, <2>4, <3>1, AskedIs, CursorStays
  <2>5. CASE Fails \/ Turns
    <3>1. GoesBack /\ ClockAndRing /\ authority' = authority
      BY <2>5 DEF Fails, Turns, ClockAndRing
    <3>2. WalkKeeps /\ walk'.cursor \in {walk.cursor, Discover!NoCursor}
      BY <3>1, GoingBack DEF WalkKeeps
    <3> QED BY <1>1, <2>1, <3>1, <3>2, GoingBack, WalkStays, CursorStays
  <2>6. ASSUME StaysStill, Refuses PROVE <1>3!:
    <3>1. ClockAndRing /\ authority' = authority
      BY <2>6 DEF StaysStill, ClockAndRing
    <3>2. walk' = [walk EXCEPT !.step = "refused"]
      BY <2>6 DEF Refuses
    <3>3. walk'.step = "refused" /\ walk'.cursor = walk.cursor /\ walk'.shown = walk.shown /\ walk' \in Discover!Walks
      BY <2>1, <3>2 DEF Discover!Walks
    <3>4. WalkKeeps
      BY <3>3 DEF WalkKeeps
    <3> QED BY <1>1, <2>1, <2>6, <3>1, <3>3, <3>4, WalkStays, CursorStays
  <2>7. ASSUME StaysStill, GoesBack PROVE <1>3!:
    <3>1. ClockAndRing /\ authority' = authority
      BY <2>7 DEF StaysStill, ClockAndRing
    <3>2. WalkKeeps /\ walk'.cursor \in {walk.cursor, Discover!NoCursor}
      BY <2>7, GoingBack DEF WalkKeeps
    <3> QED BY <1>1, <2>1, <2>7, <3>1, <3>2, GoingBack, WalkStays, CursorStays
  <2>8. ASSUME StaysStill, Answers PROVE <1>3!:
    <3>1. clock' = clock /\ behind' = behind /\ ring' = ring /\ authority' = authority
      BY <2>8 DEF StaysStill
    <3> QED BY <1>1, <2>1, <2>8, <3>1, PageIsShown DEF Discover!TypeOK
  <2> QED BY <1>1, <2>3, <2>4, <2>5, <2>6, <2>7, <2>8, ActivityIs DEF DiscoverShape
<1>4. stayed' \in SUBSET (1..ArticlesKept)
  BY <1>2, <1>3 DEF WalkStands
<1>5. Discover!TypeOK'
  BY <1>2, <1>3, <1>4 DEF Discover!TypeOK, Discover!NoKey
<1> QED BY <1>2, <1>3, <1>5

LEMMA DiscoverStays == ASSUME DiscoverInv, [Discover!Next]_(Discover!vars) PROVE DiscoverInv'
<1>1. CASE Discover!Next
  BY <1>1, DiscoverMoves
<1>2. CASE UNCHANGED Discover!vars
  <2>1. UNCHANGED discoverVars
    BY <1>2 DEF Discover!vars, discoverVars
  <2>2. (Discover!TypeOK <=> Discover!TypeOK') /\ (TopicsBegin <=> TopicsBegin')
    BY <2>1 DEF discoverVars, Discover!TypeOK, TopicsBegin, FirstIs
  <2>3. CursorStands <=> CursorStands'
    BY <2>1 DEF discoverVars, CursorStands, Retired, Skew
  <2>4. WalkStands <=> WalkStands'
    BY <2>1 DEF discoverVars, WalkStands, Reads, Shown, Discover!Before, Discover!PostSeen, Discover!TopicSeen, Discover!AreaSeen
  <2> QED BY <2>2, <2>3, <2>4 DEF DiscoverInv
<1> QED BY <1>1, <1>2

LEMMA DiscoverInvariantly == Discover!Spec => []DiscoverInv
<1>1. Discover!Init => DiscoverInv
  BY DiscoverInitially
<1>2. DiscoverInv /\ [Discover!Next]_(Discover!vars) => DiscoverInv'
  BY DiscoverStays
<1> QED BY <1>1, <1>2, PTL DEF Discover!Spec

LEMMA CursorStep ==
    ASSUME DiscoverInv, Discover!Next, walk'.step = "refused", walk.step # "refused"
    PROVE  \/ clock - walk.cursor.issued > MaximumAge
           \/ walk.step = "asked" /\ walk.actor # walk.cursor.audience
<1>1. /\ walk.cursor # Discover!NoCursor
      /\ \/ walk.step = "page" /\ ~Discover!VerifyCursor(walk.cursor)
         \/ /\ walk.step = "asked"
            /\ ~(Discover!ValidateTime(walk.cursor) /\ Discover!BindAudience(walk.cursor, walk.actor))
  BY DiscoverMoves DEF Refuses
<1> DEFINE c == walk.cursor
           late == IssueNotAfter[c.key]
<1>2. c \in Discover!Cursors /\ c.key \in Keys /\ c.issued \in Nat /\ clock \in Nat
  <2>1. c \in Discover!Cursors /\ clock \in 0..SearchTime
    BY <1>1, WalkIs DEF DiscoverInv, Discover!TypeOK
  <2> HIDE DEF c
  <2> QED BY <2>1, DiscoverNumbers DEF Discover!Cursors
<1>3. /\ c.issued >= NotBefore[c.key] /\ c.issued <= late
      /\ c.issued <= clock + FutureSkew - Skew
      /\ c.key \in {ring.active, ring.previous} \/ clock > late + MaximumAge + Skew
  BY <1>1 DEF DiscoverInv, CursorStands, Retired
<1>4. late \in Nat /\ FutureSkew \in Nat /\ MaximumAge \in Nat /\ Skew \in Nat
  BY <1>2, DiscoverNumbers DEF Skew
<1>5. ASSUME ~Discover!VerifyCursor(c) PROVE clock - c.issued > MaximumAge
  <2>1. c.key \notin {ring.active, ring.previous}
    BY <1>3, <1>5 DEF Discover!VerifyCursor
  <2> HIDE DEF c, late
  <2> QED BY <1>2, <1>3, <1>4, <2>1
<1>6. ASSUME ~Discover!ValidateTime(c) PROVE clock - c.issued > MaximumAge
  <2>1. c.issued <= clock + FutureSkew
    <3> HIDE DEF c, late
    <3> QED BY <1>2, <1>3, <1>4
  <2>2. CASE clock > late + MaximumAge + FutureSkew
    <3> HIDE DEF c, late
    <3> QED BY <1>2, <1>3, <1>4, <2>2
  <2>3. CASE ~(clock - c.issued <= MaximumAge)
    <3> HIDE DEF c, late
    <3> QED BY <1>2, <1>4, <2>3
  <2>4. ~(clock - c.issued <= MaximumAge) \/ ~(clock <= late + MaximumAge + FutureSkew)
    BY <1>6, <2>1 DEF Discover!ValidateTime
  <2> HIDE DEF c, late
  <2> QED BY <1>2, <1>4, <2>2, <2>3, <2>4
<1> QED BY <1>1, <1>5, <1>6 DEF Discover!BindAudience

\* A cursor that is refused is too old, or its reader's authority changed.
THEOREM CursorIsHonouredAlways == Discover!Spec => Discover!CursorIsHonoured
<1>1. DiscoverInv /\ [Discover!Next]_(Discover!vars) =>
        [walk'.step = "refused" /\ walk.step # "refused" =>
            \/ clock - walk.cursor.issued > MaximumAge
            \/ walk.step = "asked" /\ walk.actor # walk.cursor.audience]_(Discover!vars)
  BY CursorStep
<1> QED BY <1>1, DiscoverInvariantly, PTL DEF Discover!Spec, Discover!CursorIsHonoured

LEMMA LinksServe == ASSUME DiscoverInv PROVE Discover!LinksAreServed
<1>1. \A p \in DOMAIN articles : ~(articles[p].updated_at < articles[p].at)
  BY RowsFit DEF DiscoverInv, TopicsBegin
<1> QED BY <1>1 DEF Discover!LinksAreServed, Discover!GetDirectPost, Discover!Listed

LEMMA WalksShow == ASSUME DiscoverInv PROVE Discover!WalkShowsEverything
<1> DEFINE shown == walk.shown
<1>1. Len(shown) \in Nat /\ DOMAIN shown = 1..Len(shown)
  BY LenProperties DEF DiscoverInv, WalkStands
<1>2. \A p : Shown(p) => p \in Discover!ToSet(shown)
  BY <1>1 DEF Shown, Discover!ToSet
<1>3. \A i \in 2..Len(shown) : Discover!Before(shown[i], shown[i - 1])
  <2>1. \A i \in 2..Len(shown) : i \in 1..Len(shown) /\ i - 1 \in 1..Len(shown) /\ i - 1 < i
    BY <1>1
  <2> QED BY <2>1 DEF DiscoverInv, WalkStands
<1>4. walk.step = "page" => {p \in stayed : ~Discover!Before(p, walk.cursor.post)} \subseteq Discover!ToSet(shown)
  BY <1>2 DEF DiscoverInv, WalkStands, Reads
<1>5. walk.step = "ended" => stayed \subseteq Discover!ToSet(shown)
  BY <1>2 DEF DiscoverInv, WalkStands
<1> QED BY <1>3, <1>4, <1>5 DEF Discover!WalkShowsEverything

-----------------------------------------------------------------------------
(* Discovery: what a search finds. *)

LEMMA SearchSizes ==
    /\ SearchPageSize \in Nat \ {0} /\ SearchWindow = 2 * SearchPageSize /\ SearchWindow \in Nat
    /\ SearchPageSize < SearchWindow /\ IsFiniteSet(Subjects) /\ Subjects \in SUBSET Nat
BY PartsAssumption, DiscoverCounts DEF Discover!DiscoveryAssumption

\* The first so many rows of an order are those of the least ranks.
FirstRows(R, S, n) == {x \in S : Rank(R, S, x) < n}

LEMMA FirstRowsCount ==
    ASSUME NEW S, IsFiniteSet(S), NEW R, Orders(R, S), NEW n \in Nat
    PROVE  /\ FirstRows(R, S, n) \in SUBSET S /\ IsFiniteSet(FirstRows(R, S, n))
           /\ Cardinality(FirstRows(R, S, n)) = IF n <= Cardinality(S) THEN n ELSE Cardinality(S)
           /\ \A x \in FirstRows(R, S, n), y \in S \ FirstRows(R, S, n) : <<x, y>> \in R
<1> DEFINE c == Cardinality(S)
           k == IF n <= c THEN n ELSE c
<1>1. /\ c \in Nat /\ \A x \in S : Rank(R, S, x) \in Nat /\ Rank(R, S, x) < c
      /\ \A x, y \in S : <<x, y>> \in R <=> Rank(R, S, x) < Rank(R, S, y)
  BY RankIsStrict
<1>2. FirstRows(R, S, n) \in SUBSET S
  BY DEF FirstRows
<1> DEFINE I == 0..(k - 1)
<1> HIDE DEF c
<1>3. k \in Nat /\ k <= c /\ I \in SUBSET Nat /\ \A i \in I : i < Cardinality(S)
  BY <1>1 DEF c
<1>4. FirstRows(R, S, n) = {x \in S : Rank(R, S, x) \in I}
  BY <1>1 DEF FirstRows
<1>5. Cardinality(I) = k
  <2>1. 0 \in Int /\ k - 1 \in Int
    BY <1>3
  <2> HIDE DEF k
  <2>2. Cardinality(0..(k - 1)) = IF 0 > k - 1 THEN 0 ELSE (k - 1) - 0 + 1
    BY <2>1, FS_Interval
  <2> QED BY <1>3, <2>2
<1> HIDE DEF I, k
<1>6. Cardinality(FirstRows(R, S, n)) = k /\ IsFiniteSet(FirstRows(R, S, n))
  BY <1>3, <1>4, <1>5, RanksCount
<1>7. ASSUME NEW x \in FirstRows(R, S, n), NEW y \in S \ FirstRows(R, S, n) PROVE <<x, y>> \in R
  <2>1. x \in S /\ y \in S /\ Rank(R, S, x) < n /\ ~(Rank(R, S, y) < n)
    BY DEF FirstRows
  <2>2. Rank(R, S, x) < Rank(R, S, y)
    BY <1>1, <2>1
  <2> QED BY <1>1, <2>1, <2>2
<1> QED BY <1>2, <1>6, <1>7 DEF k, c

\* As many values as places are finite.
LEMMA ImageIsFinite ==
    ASSUME NEW S, IsFiniteSet(S), NEW f, DOMAIN f = S, f = [x \in S |-> f[x]]
    PROVE  IsFiniteSet({f[x] : x \in S})
<1>1. f \in Surjection(S, {f[x] : x \in S})
  BY DEF Surjection
<1> QED BY <1>1, FS_Surjection

\* Rows of a search are of different kinds or ids, and have numbers to compare.
Found(who, q) == Discover!TopicHits(who, q) \cup Discover!PostHits(who, q)

LEMMA HitsAre ==
    ASSUME Discover!TypeOK, NEW who, NEW q
    PROVE  /\ IsFiniteSet(Found(who, q))
           /\ \A x \in Found(who, q) :
                /\ x.id \in Nat /\ x.at \in Nat /\ x.words \in Nat /\ x.kind \in {"topic", "post"}
                /\ x.kind = "topic" => /\ x.id \in Subjects /\ x = Discover!Hit("topic", x.id, subject[x.id])
                                       /\ Discover!TopicSeen(who, x.id) /\ Discover!Matches(subject[x.id], q)
                                       /\ x.at = subject[x.id].at
                /\ x.kind = "post" => /\ x.id \in DOMAIN articles /\ x = Discover!Hit("post", x.id, articles[x.id])
                                      /\ Discover!PostSeen(who, x.id) /\ Discover!Matches(articles[x.id], q)
                                      /\ ~Discover!BehindItsTopic(x.id, q) /\ x.at = articles[x.id].at
           /\ \A x, y \in Found(who, q) : x.kind = y.kind /\ x.id = y.id => x = y
<1>1. \A t \in Subjects : /\ t \in Nat
                          /\ subject[t] # Discover!Absent => subject[t] \in Discover!TopicRows
  BY SearchSizes DEF Discover!TypeOK
<1>2. \A x \in Discover!TopicHits(who, q) : \E t \in Subjects :
        /\ x = Discover!Hit("topic", t, subject[t]) /\ Discover!TopicSeen(who, t) /\ Discover!Matches(subject[t], q)
  BY DEF Discover!TopicHits
<1>3. \A x \in Discover!PostHits(who, q) : \E p \in DOMAIN articles :
        /\ x = Discover!Hit("post", p, articles[p]) /\ Discover!PostSeen(who, p) /\ Discover!Matches(articles[p], q)
        /\ ~Discover!BehindItsTopic(p, q)
  BY DEF Discover!PostHits
<1>4. \A kind, id, row : /\ Discover!Hit(kind, id, row).kind = kind /\ Discover!Hit(kind, id, row).id = id
                         /\ Discover!Hit(kind, id, row).at = row.at /\ Discover!Hit(kind, id, row).words = row.words
  BY DEF Discover!Hit
<1>5. /\ \A row \in Discover!TopicRows : row.at \in Nat /\ row.words \in Nat
      /\ \A row \in Discover!PostRows : row.at \in Nat /\ row.words \in Nat
  BY DiscoverNumbers DEF Discover!TopicRows, Discover!PostRows
<1>6. ASSUME NEW x \in Discover!TopicHits(who, q)
      PROVE  /\ x.id \in Nat /\ x.at \in Nat /\ x.words \in Nat /\ x.kind = "topic"
             /\ x.id \in Subjects /\ x = Discover!Hit("topic", x.id, subject[x.id])
             /\ Discover!TopicSeen(who, x.id) /\ Discover!Matches(subject[x.id], q)
             /\ x.at = subject[x.id].at
  <2>1. PICK t \in Subjects : /\ x = Discover!Hit("topic", t, subject[t]) /\ Discover!TopicSeen(who, t)
                              /\ Discover!Matches(subject[t], q)
    BY <1>2
  <2>2. subject[t] \in Discover!TopicRows
    BY <1>1, <2>1 DEF Discover!TopicSeen
  <2> QED BY <1>1, <1>4, <1>5, <2>1, <2>2
<1>7. ASSUME NEW x \in Discover!PostHits(who, q)
      PROVE  /\ x.id \in Nat /\ x.at \in Nat /\ x.words \in Nat /\ x.kind = "post"
             /\ x.id \in DOMAIN articles /\ x = Discover!Hit("post", x.id, articles[x.id])
             /\ Discover!PostSeen(who, x.id) /\ Discover!Matches(articles[x.id], q)
             /\ ~Discover!BehindItsTopic(x.id, q) /\ x.at = articles[x.id].at
  <2>1. PICK p \in DOMAIN articles : /\ x = Discover!Hit("post", p, articles[p]) /\ Discover!PostSeen(who, p)
                                     /\ Discover!Matches(articles[p], q) /\ ~Discover!BehindItsTopic(p, q)
    BY <1>3
  <2>2. articles[p] \in Discover!PostRows /\ p \in Nat
    BY RowsFit
  <2> QED BY <1>4, <1>5, <2>1, <2>2
<1>8. IsFiniteSet(Found(who, q))
  <2> DEFINE T == {s \in Subjects : Discover!TopicSeen(who, s) /\ Discover!Matches(subject[s], q)}
             P == {s \in DOMAIN articles : /\ Discover!PostSeen(who, s) /\ Discover!Matches(articles[s], q)
                                           /\ ~Discover!BehindItsTopic(s, q)}
  <2>1. IsFiniteSet(T)
    BY SearchSizes, FS_Subset
  <2>2. IsFiniteSet(P)
    BY RowsFit, FS_Subset
  <2>3. Discover!TopicHits(who, q) = {Discover!Hit("topic", t, subject[t]) : t \in T}
    BY DEF Discover!TopicHits
  <2>4. Discover!PostHits(who, q) = {Discover!Hit("post", p, articles[p]) : p \in P}
    BY DEF Discover!PostHits
  <2> HIDE DEF T, P
  <2>5. IsFiniteSet({Discover!Hit("topic", t, subject[t]) : t \in T})
    <3> DEFINE f == [t \in T |-> Discover!Hit("topic", t, subject[t])]
    <3>1. DOMAIN f = T /\ f = [t \in T |-> f[t]] /\ {Discover!Hit("topic", t, subject[t]) : t \in T} = {f[t] : t \in T}
      OBVIOUS
    <3> HIDE DEF f
    <3> QED BY <2>1, <3>1, ImageIsFinite
  <2>6. IsFiniteSet({Discover!Hit("post", p, articles[p]) : p \in P})
    <3> DEFINE f == [p \in P |-> Discover!Hit("post", p, articles[p])]
    <3>1. DOMAIN f = P /\ f = [p \in P |-> f[p]] /\ {Discover!Hit("post", p, articles[p]) : p \in P} = {f[p] : p \in P}
      OBVIOUS
    <3> HIDE DEF f
    <3> QED BY <2>2, <3>1, ImageIsFinite
  <2> QED BY <2>3, <2>4, <2>5, <2>6, FS_Union DEF Found
<1>9. ASSUME NEW x \in Found(who, q), NEW y \in Found(who, q), x.kind = y.kind, x.id = y.id PROVE x = y
  BY <1>6, <1>7, <1>9 DEF Found
<1> QED BY <1>6, <1>7, <1>8, <1>9 DEF Found

\* The orders of the window and of its pages.
ByTime(who, q) == {r \in Found(who, q) \X Found(who, q) : Discover!Newer(r[1], r[2])}
ByRank(who, q) == {r \in Found(who, q) \X Found(who, q) : Discover!Better(r[1], r[2], q)}

LEMMA RowsOrder ==
    ASSUME Discover!TypeOK, NEW who, NEW q, NEW S \in SUBSET Found(who, q)
    PROVE  /\ IsFiniteSet(S) /\ Cardinality(S) \in Nat
           /\ Orders(ByTime(who, q), S) /\ Orders(ByRank(who, q), S)
           /\ \A x, y \in S : <<x, y>> \in ByTime(who, q) <=> Discover!Newer(x, y)
           /\ \A x, y \in S : <<x, y>> \in ByRank(who, q) <=> Discover!Better(x, y, q)
<1> DEFINE T == ByTime(who, q)
           B == ByRank(who, q)
<1>1. IsFiniteSet(S) /\ Cardinality(S) \in Nat
  BY HitsAre, FS_Subset, FS_CardinalityType
<1>2. ASSUME NEW x \in S, NEW y \in S
      PROVE  /\ <<x, y>> \in T <=> Discover!Newer(x, y)
             /\ <<x, y>> \in B <=> Discover!Better(x, y, q)
  <2>1. <<x, y>> \in Found(who, q) \X Found(who, q) /\ <<x, y>>[1] = x /\ <<x, y>>[2] = y
    OBVIOUS
  <2> QED BY <2>1, Zenon DEF ByTime, ByRank
<1>3. \A x \in S : x.id \in Nat /\ x.at \in Nat /\ x.words \in Nat /\ x.kind \in {"topic", "post"}
  BY HitsAre
<1>4. \A x, y \in S : x.kind = y.kind /\ x.id = y.id => x = y
  BY HitsAre
<1>5. /\ \A x \in S : ~Discover!Newer(x, x)
      /\ \A x, y \in S : x = y \/ Discover!Newer(x, y) \/ Discover!Newer(y, x)
      /\ \A x, y, z \in S : Discover!Newer(x, y) /\ Discover!Newer(y, z) => Discover!Newer(x, z)
  <2>1. \A x \in S : ~Discover!Newer(x, x)
    BY <1>3 DEF Discover!Newer
  <2>2. \A x, y \in S : x = y \/ Discover!Newer(x, y) \/ Discover!Newer(y, x)
    BY <1>3, <1>4 DEF Discover!Newer
  <2>3. \A x, y, z \in S : Discover!Newer(x, y) /\ Discover!Newer(y, z) => Discover!Newer(x, z)
    BY <1>3 DEF Discover!Newer
  <2> QED BY <2>1, <2>2, <2>3
<1>6. /\ \A x \in S : ~Discover!Better(x, x, q)
      /\ \A x, y \in S : x = y \/ Discover!Better(x, y, q) \/ Discover!Better(y, x, q)
      /\ \A x, y, z \in S : Discover!Better(x, y, q) /\ Discover!Better(y, z, q) => Discover!Better(x, z, q)
  BY <1>3, <1>5 DEF Discover!Better
<1>7. Orders(T, S)
  BY <1>2, <1>5 DEF Orders
<1>8. Orders(B, S)
  BY <1>2, <1>6 DEF Orders
<1> QED BY <1>1, <1>2, <1>7, <1>8 DEF T, B

Candidates(who, q) == FirstRows(ByTime(who, q), Found(who, q), SearchWindow + 1)
Window(who, q) == FirstRows(ByTime(who, q), Candidates(who, q), SearchWindow)
FirstPage(who, q) == FirstRows(ByRank(who, q), Window(who, q), SearchPageSize)

\* An answer is the window of the newest rows, its first page by rank.
LEMMA AnswerIs ==
    ASSUME Discover!TypeOK, NEW who, NEW q
    PROVE  Discover!Search(who, q) =
             [pages |-> <<FirstPage(who, q), Window(who, q) \ FirstPage(who, q)>>,
              has_next |-> Cardinality(Candidates(who, q)) > SearchPageSize,
              beyond_window |-> Cardinality(Candidates(who, q)) > SearchWindow]
<1>1. Candidates(who, q) \in SUBSET Found(who, q) /\ Window(who, q) \in SUBSET Found(who, q)
  BY DEF Candidates, Window, FirstRows
<1>2. Discover!FirstOf(Discover!TopicHits(who, q) \cup Discover!PostHits(who, q), SearchWindow + 1, Discover!Newer)
        = Candidates(who, q)
  <2> DEFINE S == Found(who, q)
  <2>1. S \in SUBSET Found(who, q)
    OBVIOUS
  <2> HIDE DEF S
  <2>2. ASSUME NEW x \in S PROVE Discover!Cardinality({y \in S : Discover!Newer(y, x)}) = Rank(ByTime(who, q), S, x)
    <3>1. {y \in S : Discover!Newer(y, x)} = Preceding(ByTime(who, q), S, x)
      BY <2>1, RowsOrder DEF Preceding
    <3> QED BY <3>1, DiscoverCounts DEF Rank
  <2>3. {x \in S : Discover!Cardinality({y \in S : Discover!Newer(y, x)}) < SearchWindow + 1} = FirstRows(ByTime(who, q), S, SearchWindow + 1)
    BY <2>2 DEF FirstRows
  <2> QED BY <2>3 DEF S, Found, Candidates, Discover!FirstOf
<1>3. Discover!Rankable(Candidates(who, q), q) = Window(who, q)
  <2> DEFINE S == Candidates(who, q)
  <2>1. S \in SUBSET Found(who, q)
    BY <1>1
  <2> HIDE DEF S
  <2>2. ASSUME NEW x \in S PROVE Discover!Cardinality({y \in S : Discover!Newer(y, x)}) = Rank(ByTime(who, q), S, x)
    <3>1. {y \in S : Discover!Newer(y, x)} = Preceding(ByTime(who, q), S, x)
      BY <2>1, RowsOrder DEF Preceding
    <3> QED BY <3>1, DiscoverCounts DEF Rank
  <2>3. {x \in S : Discover!Cardinality({y \in S : Discover!Newer(y, x)}) < SearchWindow} = FirstRows(ByTime(who, q), S, SearchWindow)
    BY <2>2 DEF FirstRows
  <2> QED BY <2>3 DEF S, Window, Discover!Rankable, Discover!FirstOf
<1>4. Discover!FirstOf(Window(who, q), SearchPageSize, LAMBDA x, y : Discover!Better(x, y, q)) = FirstPage(who, q)
  <2> DEFINE S == Window(who, q)
  <2>1. S \in SUBSET Found(who, q)
    BY <1>1
  <2> HIDE DEF S
  <2>2. ASSUME NEW x \in S PROVE Discover!Cardinality({y \in S : Discover!Better(y, x, q)}) = Rank(ByRank(who, q), S, x)
    <3>1. {y \in S : Discover!Better(y, x, q)} = Preceding(ByRank(who, q), S, x)
      BY <2>1, RowsOrder DEF Preceding
    <3> QED BY <3>1, DiscoverCounts DEF Rank
  <2>3. {x \in S : Discover!Cardinality({y \in S : Discover!Better(y, x, q)}) < SearchPageSize} = FirstRows(ByRank(who, q), S, SearchPageSize)
    BY <2>2 DEF FirstRows
  <2> QED BY <2>3 DEF S, FirstPage, Discover!FirstOf
<1> QED BY <1>2, <1>3, <1>4, DiscoverCounts DEF Discover!Search

LEMMA WindowIs ==
    ASSUME Discover!TypeOK, NEW who, NEW q
    PROVE  LET all == Cardinality(Found(who, q))
               c == Cardinality(Candidates(who, q))
           IN /\ all \in Nat /\ c = IF SearchWindow + 1 <= all THEN SearchWindow + 1 ELSE all
              /\ Cardinality(Window(who, q)) = IF SearchWindow <= c THEN SearchWindow ELSE c
              /\ Window(who, q) \in SUBSET Found(who, q)
              /\ FirstPage(who, q) \in SUBSET Window(who, q)
              /\ (Window(who, q) \ FirstPage(who, q) # {} <=> c > SearchPageSize)
              /\ \A h \in Found(who, q) : h \in Window(who, q) \/ (c > SearchWindow /\ \A x \in Window(who, q) : x.at >= h.at)
<1> DEFINE H == Found(who, q)
           C == Candidates(who, q)
           W == Window(who, q)
           F == FirstPage(who, q)
           T == ByTime(who, q)
           B == ByRank(who, q)
<1>1. /\ SearchPageSize \in Nat /\ SearchPageSize > 0 /\ SearchWindow \in Nat /\ SearchWindow + 1 \in Nat
      /\ SearchPageSize < SearchWindow
  BY SearchSizes
<1>2. /\ IsFiniteSet(H) /\ Cardinality(H) \in Nat /\ Orders(T, H)
  BY RowsOrder
<1>3. /\ C \in SUBSET H /\ Cardinality(C) = IF SearchWindow + 1 <= Cardinality(H) THEN SearchWindow + 1 ELSE Cardinality(H)
      /\ \A x \in C, y \in H \ C : <<x, y>> \in T
  BY <1>1, <1>2, FirstRowsCount DEF Candidates
<1>4. IsFiniteSet(C) /\ Cardinality(C) \in Nat /\ Orders(T, C)
  BY <1>3, RowsOrder
<1>5. /\ W \in SUBSET C /\ Cardinality(W) = IF SearchWindow <= Cardinality(C) THEN SearchWindow ELSE Cardinality(C)
      /\ \A x \in W, y \in C \ W : <<x, y>> \in T
  BY <1>1, <1>4, FirstRowsCount DEF Window
<1>6. IsFiniteSet(W) /\ Cardinality(W) \in Nat /\ Orders(B, W) /\ W \in SUBSET H
  BY <1>3, <1>5, RowsOrder
<1>7. /\ F \in SUBSET W /\ IsFiniteSet(F) /\ Cardinality(F) = IF SearchPageSize <= Cardinality(W) THEN SearchPageSize ELSE Cardinality(W)
  BY <1>1, <1>6, FirstRowsCount DEF FirstPage
<1>8. W \ F # {} <=> Cardinality(C) > SearchPageSize
  <2>1. CASE Cardinality(C) > SearchPageSize
    <3>1. Cardinality(F) # Cardinality(W)
      BY <1>1, <1>4, <1>5, <1>7, <2>1
    <3> QED BY <1>7, <2>1, <3>1
  <2>2. CASE ~(Cardinality(C) > SearchPageSize)
    <3>1. Cardinality(F) = Cardinality(W)
      BY <1>1, <1>4, <1>5, <1>6, <1>7, <2>2
    <3>2. F = W
      BY <1>6, <1>7, <3>1, FS_Subset
    <3> QED BY <2>2, <3>2
  <2> QED BY <2>1, <2>2
<1>9. ASSUME NEW h \in H, h \notin W PROVE Cardinality(C) > SearchWindow /\ \A x \in W : x.at >= h.at
  <2>1. \A x \in W : <<x, h>> \in T
    BY <1>3, <1>5, <1>9
  <2>2. \A x \in W : x.at >= h.at
    <3> TAKE x \in W
    <3>1. Discover!Newer(x, h)
      BY <1>6, <1>9, <2>1, RowsOrder
    <3>2. x.at \in Nat /\ h.at \in Nat
      BY <1>6, <1>9, HitsAre
    <3> QED BY <3>1, <3>2 DEF Discover!Newer
  <2>3. Cardinality(C) > SearchWindow
    <3>1. CASE h \in C
      <4>1. Cardinality(W) # Cardinality(C)
        <5>1. W # C
          BY <1>9, <3>1
        <5> QED BY <1>4, <1>5, <5>1, FS_Subset
      <4> QED BY <1>1, <1>4, <1>5, <4>1
    <3>2. CASE h \notin C
      <4>1. C # H
        BY <3>2
      <4>2. Cardinality(C) # Cardinality(H)
        BY <1>2, <1>3, <4>1, FS_Subset
      <4> QED BY <1>1, <1>2, <1>3, <4>2
    <3> QED BY <3>1, <3>2
  <2> QED BY <2>2, <2>3
<1> QED BY <1>2, <1>3, <1>5, <1>6, <1>7, <1>8, <1>9

\* The first post of a topic.
LEMMA FirstPostIs ==
    ASSUME DiscoverInv, NEW t \in Subjects, subject[t] # Discover!Absent
    PROVE  FirstIs(t, Discover!FirstPost(t))
<1> DEFINE P == {p \in DOMAIN articles : articles[p].topic = t}
<1>1. PICK p : FirstIs(t, p)
  BY DEF DiscoverInv, TopicsBegin
<1>2. P \in SUBSET Int /\ p \in P /\ IsFiniteSet(P)
  <2>1. P \in SUBSET DOMAIN articles /\ p \in P
    BY <1>1 DEF FirstIs
  <2> HIDE DEF P
  <2> QED BY <2>1, RowsFit, FS_Subset DEF DiscoverInv
<1>3. Discover!Min(P) \in P /\ Discover!Min(P) <= p
  <2> HIDE DEF P
  <2> QED BY <1>2, DiscoverEnds
<1>4. Discover!Min(P) = p
  <2>1. ~(Discover!Min(P) < p)
    BY <1>1, <1>3 DEF FirstIs
  <2> HIDE DEF P
  <2>2. Discover!Min(P) \in Int /\ p \in Int
    BY <1>2, <1>3
  <2> QED BY <1>3, <2>1, <2>2
<1> QED BY <1>1, <1>4 DEF Discover!FirstPost

LEMMA SearchIs == ASSUME DiscoverInv PROVE Discover!SearchIsExact
<1> SUFFICES ASSUME NEW who \in Discover!Authorities, NEW q \in Discover!Requests
             PROVE  LET answer == Discover!Search(who, q)
                        found == answer.pages[1] \cup answer.pages[2]
                        hits == {p \in DOMAIN articles : Discover!PostSeen(who, p) /\ Discover!Matches(articles[p], q)}
                    IN /\ \A n \in 1..2 : Discover!SearchPage(who, q, answer.pages[n]) # "unavailable"
                       /\ (answer.pages[2] # {}) <=> answer.has_next
                       /\ \A p \in hits :
                            LET t == articles[p].topic IN
                            \/ Discover!FoundAs("post", p, found)
                            \/ p = Discover!FirstPost(t) /\ Discover!FoundAs("topic", t, found)
                            \/ answer.beyond_window /\ \A x \in found : x.at >= articles[p].at
                       /\ q.word => \A t \in Subjects : Discover!FoundAs("topic", t, found)
                                                          => ~Discover!FoundAs("post", Discover!FirstPost(t), found)
                       /\ answer.beyond_window => Discover!Cardinality(found) = SearchWindow
  BY DEF Discover!SearchIsExact
<1> USE DEF DiscoverInv
<1> DEFINE answer == Discover!Search(who, q)
           H == Found(who, q)
           W == Window(who, q)
           F == FirstPage(who, q)
           c == Cardinality(Candidates(who, q))
           found == answer.pages[1] \cup answer.pages[2]
<1>1. /\ answer.pages[1] = F /\ answer.pages[2] = W \ F
      /\ answer.has_next <=> c > SearchPageSize
      /\ answer.beyond_window <=> c > SearchWindow
  <2> DEFINE more == c > SearchPageSize
             beyond == c > SearchWindow
  <2>1. answer = [pages |-> <<F, W \ F>>, has_next |-> more, beyond_window |-> beyond]
    BY AnswerIs
  <2>2. more \in BOOLEAN /\ beyond \in BOOLEAN
    OBVIOUS
  <2> HIDE DEF answer, F, W, more, beyond
  <2>3. answer.pages = <<F, W \ F>> /\ (answer.has_next <=> more) /\ (answer.beyond_window <=> beyond)
    BY <2>1, <2>2
  <2> QED BY <2>3 DEF more, beyond
<1>2. /\ Cardinality(H) \in Nat /\ c \in Nat
      /\ Cardinality(W) = IF SearchWindow <= c THEN SearchWindow ELSE c
      /\ W \in SUBSET H /\ F \in SUBSET W
      /\ (W \ F # {} <=> c > SearchPageSize)
      /\ \A h \in H : h \in W \/ (c > SearchWindow /\ \A x \in W : x.at >= h.at)
  BY WindowIs, SearchSizes
<1>3. found = W
  BY <1>1, <1>2
<1> HIDE DEF answer, H, W, F, c, found
<1>4. ASSUME NEW x \in H PROVE Discover!Selected(who, x, q)
  <2>1. CASE x.kind = "topic"
    <3>1. Discover!TopicSeen(who, x.id) /\ Discover!Matches(subject[x.id], q)
      BY <2>1, HitsAre DEF H
    <3> QED BY <2>1, <3>1 DEF Discover!Selected, Discover!Matches
  <2>2. CASE x.kind = "post"
    <3>1. Discover!PostSeen(who, x.id) /\ Discover!Matches(articles[x.id], q)
      BY <2>2, HitsAre DEF H
    <3> QED BY <2>2, <3>1 DEF Discover!Selected, Discover!Matches
  <2>3. x.kind \in {"topic", "post"}
    BY HitsAre DEF H
  <2> QED BY <2>1, <2>2, <2>3
<1>5. ASSUME NEW n \in 1..2 PROVE Discover!SearchPage(who, q, answer.pages[n]) # "unavailable"
  <2>1. answer.pages[n] \in SUBSET H
    BY <1>1, <1>2
  <2>2. \A x \in answer.pages[n] : Discover!Selected(who, x, q)
    BY <1>4, <2>1
  <2> QED BY <2>2 DEF Discover!SearchPage
<1>6. ASSUME NEW p \in DOMAIN articles, Discover!PostSeen(who, p), Discover!Matches(articles[p], q)
      PROVE  LET t == articles[p].topic IN
             \/ Discover!FoundAs("post", p, found)
             \/ p = Discover!FirstPost(t) /\ Discover!FoundAs("topic", t, found)
             \/ answer.beyond_window /\ \A x \in found : x.at >= articles[p].at
  <2> DEFINE t == articles[p].topic
  <2>1. CASE ~Discover!BehindItsTopic(p, q)
    <3> DEFINE h == Discover!Hit("post", p, articles[p])
    <3>1. h \in H /\ h.kind = "post" /\ h.id = p /\ h.at = articles[p].at
      BY <1>6, <2>1 DEF H, Found, Discover!PostHits, Discover!Hit
    <3> HIDE DEF h
    <3> QED BY <1>1, <1>2, <1>3, <3>1 DEF Discover!FoundAs
  <2>2. CASE Discover!BehindItsTopic(p, q)
    <3> DEFINE h == Discover!Hit("topic", t, subject[t])
    <3>1. /\ p = Discover!FirstPost(t) /\ Discover!Matches(subject[t], q) /\ Discover!TopicSeen(who, t)
          /\ t \in Subjects /\ subject[t] # Discover!Absent
      BY <1>6, <2>2, RowsFit DEF Discover!BehindItsTopic, Discover!PostSeen, Discover!TopicSeen, Discover!PostRows
    <3>2. articles[p].at = subject[t].at
      BY <3>1, FirstPostIs DEF FirstIs
    <3>3. h \in H /\ h.kind = "topic" /\ h.id = t /\ h.at = articles[p].at
      BY <3>1, <3>2 DEF H, Found, Discover!TopicHits, Discover!Hit
    <3> HIDE DEF h
    <3> QED BY <1>1, <1>2, <1>3, <3>1, <3>3 DEF Discover!FoundAs
  <2> QED BY <2>1, <2>2
<1>7. ASSUME q.word, NEW t \in Subjects, Discover!FoundAs("topic", t, found),
             Discover!FoundAs("post", Discover!FirstPost(t), found)
      PROVE  FALSE
  <2>1. PICK x \in H : x.kind = "topic" /\ x.id = t
    BY <1>2, <1>3, <1>7 DEF Discover!FoundAs
  <2>2. PICK y \in H : y.kind = "post" /\ y.id = Discover!FirstPost(t)
    BY <1>2, <1>3, <1>7 DEF Discover!FoundAs
  <2>3. Discover!Matches(subject[t], q) /\ subject[t] # Discover!Absent
    BY <2>1, HitsAre DEF H, Discover!TopicSeen
  <2>4. ~Discover!BehindItsTopic(Discover!FirstPost(t), q)
    BY <2>2, HitsAre DEF H
  <2>5. articles[Discover!FirstPost(t)].topic = t
    BY <2>3, FirstPostIs DEF FirstIs
  <2> QED BY <1>7, <2>3, <2>4, <2>5 DEF Discover!BehindItsTopic
<1>8. answer.beyond_window => Discover!Cardinality(found) = SearchWindow
  <2>1. c > SearchWindow => Cardinality(W) = SearchWindow
    BY <1>2, SearchSizes
  <2> QED BY <1>1, <1>3, <2>1, DiscoverCounts
<1>9. answer.pages[2] # {} <=> answer.has_next
  BY <1>1, <1>2
<1> QED BY <1>5, <1>6, <1>7, <1>8, <1>9 DEF answer, found

-----------------------------------------------------------------------------
(* The four services together. *)

\* The services, the parts of their behaviour and what is always true of them.
LEMMA PartsStay == PartSpec => [](IInv /\ ReportInv /\ ReadInv /\ DiscoverInv)
<1> QED BY PartsRun, Invariantly, ReportInvariantly, ReadInvariantly, DiscoverInvariantly, PTL

LEMMA PartIsKnown == PartSpec => [](part \in {"discuss", "report", "read", "discover"})
<1>1. PartInit => part \in {"discuss", "report", "read", "discover"}
  BY DEF PartInit
<1>2. part \in {"discuss", "report", "read", "discover"} /\ [PartNext]_partVars
        => (part \in {"discuss", "report", "read", "discover"})'
  BY DEF PartNext, partVars
<1> QED BY <1>1, <1>2, PTL DEF PartSpec

\* Rows, calls, cursors and walks keep their types: counts, revisions, markers
\* and page numbers stay what their columns hold.
THEOREM PartTypeOKAlways == PartSpec => []PartTypeOK
<1>1. ASSUME IInv, ReportInv, ReadInv, DiscoverInv
      PROVE  /\ part = "discuss" => PartTypeOK
             /\ part = "report" => PartTypeOK
             /\ part = "read" => PartTypeOK
             /\ part = "discover" => PartTypeOK
  <2>1. TypeOK /\ Report!TypeOK /\ Read!TypeOK /\ Discover!TypeOK
    BY <1>1 DEF IInv, ReportInv, ReadInv, DiscoverInv
  <2>2. part = "discuss" => PartTypeOK
    BY <2>1 DEF PartTypeOK
  <2>3. part = "report" => PartTypeOK
    BY <2>1 DEF PartTypeOK
  <2>4. part = "read" => PartTypeOK
    BY <2>1 DEF PartTypeOK
  <2>5. part = "discover" => PartTypeOK
    BY <2>1 DEF PartTypeOK
  <2> QED BY <2>2, <2>3, <2>4, <2>5
<1>2. /\ part \in {"discuss", "report", "read", "discover"}
      /\ IInv /\ ReportInv /\ ReadInv /\ DiscoverInv
      => PartTypeOK
  BY <1>1
<1> QED BY <1>2, PartIsKnown, PartsStay, PTL

\* Every page serves the rows that calls can leave, and pages agree with each
\* other: reports, the index, the lists, a topic, its latest and first unread
\* post, a search, a link from the activity and a walk through it.
THEOREM ReadersAgreeAlways == PartSpec => []ReadersAgree
<1>1. ReportInv => Report!ReportPagesAreServed
  BY PagesServed
<1>2. ReadInv => /\ Read!MarksReachWhatTheySaw /\ Read!ReadRowsAreWellFormed
                 /\ Read!FirstUnreadIsOnItsPage /\ Read!ListsAgree /\ Read!LatestPostIsOnItsPage
  BY MarksReach, RowsAreWellFormed, UnreadIsOnItsPage, ListsAlwaysAgree, LatestIsOnItsPage
<1>3. DiscoverInv => /\ Discover!SearchIsExact /\ Discover!LinksAreServed
                     /\ Discover!WalkShowsEverything
  BY SearchIs, LinksServe, WalksShow
<1>4. ReportInv /\ ReadInv /\ DiscoverInv => ReadersAgree
  BY <1>1, <1>2, <1>3 DEF ReadersAgree
<1> QED BY <1>4, PartsStay, PTL

\* No late call takes back what others did: an edit, a redaction, a report's
\* progress, a mute in force, a marker of what was read, or a cursor given.
THEOREM NothingGoesBackAlways == PartSpec => NothingGoesBack
<1> QED BY PartsRun, NoLostEditAlways, RedactionIsFinalAlways, ReportMovesForwardAlways, MutesOnlyGrowAlways,
           MarkerOnlyRisesAlways, CursorIsHonouredAlways, PTL DEF NothingGoesBack
=============================================================================
