---------------------------- MODULE RequestLimiter ----------------------------
(***************************************************************************)
(* The admission of requests: fixed windows per client address in the      *)
(* memory of the process, bounded in number.  A request reads the clock    *)
(* and then waits for the mutex, so that a later holder of the mutex may   *)
(* carry the earlier time.  Full, the limiter remembers the earliest       *)
(* expiry it knows of and does not look for expired windows before it.     *)
(***************************************************************************)
EXTENDS Integers, FiniteSets, FiniteSetsExt, Sequences

CONSTANTS
    Addresses,     \* canonical client addresses
    Proxy,         \* the loopback address of the reverse proxy
    trustedProxy,  \* whether requests come through it
    Requests,      \* slots for the requests under way
    capacity, limit, window,
    MaxTime        \* bound

LimiterAssumption ==
    /\ IsFiniteSet(Addresses) /\ Proxy \in Addresses /\ trustedProxy \in BOOLEAN
    /\ capacity \in Nat \ {0} /\ limit \in Nat \ {0} /\ window \in Nat \ {0} /\ MaxTime \in Nat

VARIABLES
    now,            \* the clock of the process
    entries,        \* the windows, by address
    earliest,       \* the expiry that is remembered,
    earliestValid,  \* if there is one
    call            \* what each request is doing

vars == <<now, entries, earliest, earliestValid, call>>

Windows == [started : 0..MaxTime, count : 1..limit]
Decisions == {"allowed", "rate limited", "capacity limited", "bad request"}
Free == [step |-> "free"]

TypeOK ==
    /\ now \in 0..MaxTime
    /\ DOMAIN entries \subseteq Addresses /\ \A a \in DOMAIN entries : entries[a] \in Windows
    /\ earliest \in 0..MaxTime + window
    /\ earliestValid \in BOOLEAN
    /\ call \in [Requests -> {Free} \cup [step : {"admit"}, address : Addresses, now : 0..MaxTime]
                              \cup [step : Decisions]]

Init ==
    /\ now = 0
    /\ entries = [a \in {} |-> [started |-> 0, count |-> 1]]
    /\ earliest = 0 /\ earliestValid = FALSE
    /\ call = [r \in Requests |-> Free]

Expiry(a) == entries[a].started + window
Live(a, time) == time < Expiry(a)

-----------------------------------------------------------------------------
(* The handler. *)

Refused == "refused"

\* Who is charged: the peer, or the one address the proxy vouches for.
admittedClientAddress(request) ==
    IF request.alternative \/ (~trustedProxy /\ request.forwarded # <<>>) THEN Refused
    ELSE IF ~trustedProxy THEN request.peer
    ELSE IF request.peer = Proxy /\ Len(request.forwarded) = 1 THEN request.forwarded[1]
    ELSE Refused

HttpRequests ==
    [peer : Addresses, alternative : BOOLEAN,
     forwarded : {<<>>, <<Proxy, Proxy>>} \cup {<<a>> : a \in Addresses}]

\* Health and static routes are not charged and change nothing.
NewRequestAdmissionHandler(r, request) ==
    /\ call[r].step \notin {"admit"}
    /\ LET address == admittedClientAddress(request) IN
       call' = [call EXCEPT ![r] =
                  IF address = Refused THEN [step |-> "bad request"]
                  ELSE [step |-> "admit", address |-> address, now |-> now]]
    /\ UNCHANGED <<now, entries, earliest, earliestValid>>

-----------------------------------------------------------------------------
(* Admit, under the mutex.  table is what one step makes of the state. *)

Decide(r, decision, table) ==
    /\ call' = [call EXCEPT ![r] = [step |-> decision]]
    /\ entries' = table.entries
    /\ earliest' = table.earliest /\ earliestValid' = table.valid
    /\ UNCHANGED now

Table == [entries |-> entries, earliest |-> earliest, valid |-> earliestValid]

\* An address that has a window.
Charge(r) ==
    /\ call[r].step = "admit" /\ call[r].address \in DOMAIN entries
    /\ LET a == call[r].address  time == call[r].now IN
       \/ /\ ~Live(a, time)
          /\ Decide(r, "allowed", [entries |-> [entries EXCEPT ![a] = [started |-> time, count |-> 1]],
                                   earliest |-> earliest, valid |-> FALSE])
       \/ /\ Live(a, time) /\ entries[a].count >= limit
          /\ Decide(r, "rate limited", Table)
       \/ /\ Live(a, time) /\ entries[a].count < limit
          /\ Decide(r, "allowed", [Table EXCEPT !.entries[a].count = @ + 1])

\* Mutation of reclaim: the oldest window goes, whether it has expired or not.
EvictOldest(time) ==
    LET oldest == CHOOSE a \in DOMAIN entries : \A b \in DOMAIN entries : Expiry(a) <= Expiry(b)
        kept == DOMAIN entries \ {oldest}
    IN [entries |-> [a \in kept |-> entries[a]], earliest |-> 0, valid |-> FALSE]

\* Mutation of reclaim: nothing is looked for.
ReclaimNothing(time) == Table

reclaim(time) ==
    LET kept == {a \in DOMAIN entries : Live(a, time)} IN
    [entries |-> [a \in kept |-> entries[a]],
     earliest |-> IF kept = {} THEN 0 ELSE Min({Expiry(a) : a \in kept}),
     valid |-> kept # {}]

Full(table) == Cardinality(DOMAIN table.entries) >= capacity

\* Mutation of the insertion: the capacity is not looked at again after reclaim.
InsertAnyway(r, table) ==
    LET time == call[r].now  expires == time + window
        sooner == ~table.valid \/ expires < table.earliest
    IN Decide(r, "allowed",
         [entries |-> [a \in DOMAIN table.entries \cup {call[r].address} |->
                         IF a = call[r].address THEN [started |-> time, count |-> 1]
                         ELSE table.entries[a]],
          earliest |-> IF sooner THEN expires ELSE table.earliest, valid |-> TRUE])

Insert(r, table) == ~Full(table) /\ InsertAnyway(r, table)

\* An address that has none.
Admit(r) ==
    /\ call[r].step = "admit" /\ call[r].address \notin DOMAIN entries
    /\ IF ~Full(Table) THEN Insert(r, Table)
       ELSE IF earliestValid /\ call[r].now < earliest THEN Decide(r, "capacity limited", Table)
       ELSE LET reclaimed == reclaim(call[r].now) IN
            \/ Insert(r, reclaimed)
            \/ Full(reclaimed) /\ Decide(r, "capacity limited", reclaimed)

Tick == now < MaxTime /\ now' = now + 1 /\ UNCHANGED <<entries, earliest, earliestValid, call>>

Next ==
    \/ \E r \in Requests :
         \/ \E request \in HttpRequests : NewRequestAdmissionHandler(r, request)
         \/ Charge(r) \/ Admit(r)
    \/ Tick

Spec == Init /\ [][Next]_vars

-----------------------------------------------------------------------------
(* Properties. *)

\* However many addresses come, no more windows than the capacity are kept.
CapacityHolds == Cardinality(DOMAIN entries) <= capacity

\* A window that is still enforced at the reading of the request that changes
\* the table is neither evicted nor given back a charge.
NoEnforcedWindowIsLost ==
    [][\A r \in Requests : call[r].step = "admit" /\ call'[r] # call[r] =>
         \A a \in DOMAIN entries : Live(a, call[r].now) =>
             /\ a \in DOMAIN entries' /\ entries'[a].started = entries[a].started
             /\ entries'[a].count >= entries[a].count]_vars

\* Nobody is refused for capacity once every window has expired: the memory of
\* an expiry never outlives the windows.
CapacityRefusalsEnd ==
    [][\A r \in Requests : call[r].step = "admit" /\ call'[r].step = "capacity limited" =>
         \E a \in DOMAIN entries : Live(a, call[r].now)]_vars

\* What the documents say of a full table: an unseen client is refused if no
\* expired window exists.
RefusedOnlyWithoutExpired ==
    [][\A r \in Requests : call[r].step = "admit" /\ call'[r].step = "capacity limited" =>
         \A a \in DOMAIN entries : Live(a, call[r].now)]_vars

=============================================================================
