----------------------------- MODULE MCOperations -----------------------------
(***************************************************************************)
(* The parts around the forum, each on a small instance: a release with    *)
(* its conversions, the migrator of the schema, the settings of the        *)
(* running board and the limiter of requests.  They share no state, so     *)
(* that in one behaviour only one of them moves: part says which.          *)
(***************************************************************************)
EXTENDS ControlPlane, Sequences, TLC

CONSTANTS
    s1, s2, Slots,         \* commands, runs, calls and requests alike
    Commands, None, Posts, Topics, BatchSize, maximumAttempts, MaxFaults,  \* ReleaseCommand
    Releases,              \* SchemaMigration
    f1, f2, f3, g2,        \* files of a release
    a1, t1, t2,
    Addresses, trustedProxy, capacity, limit, window, MaxClock,  \* RequestLimiter
    proxy, x1, x2

VARIABLES
    part,
    \* ReleaseCommand
    posts, ledger, renderer, rendered, command, faults, vectored, projection, serving,
    \* SchemaMigration
    table, fileLedger, schema, lock, run, ready, schemaFaults,
    \* RequestLimiter
    clock, entries, earliest, earliestValid, admission

Release == INSTANCE ReleaseCommand
Schema == INSTANCE SchemaMigration
    WITH Runners <- Slots, Nobody <- None,
         ledger <- fileLedger, serving <- ready, faults <- schemaFaults
Limiter == INSTANCE RequestLimiter
    WITH Proxy <- proxy, Requests <- Slots, MaxTime <- MaxClock, now <- clock, call <- admission

\* Two releases, the second with one file more, and one that drifted.
ThreeReleases == {<<f1, f2>>, <<f1, f2, f3>>, <<f1, g2>>}

\* What the modules ask of their constants: releases are sequences of files, a
\* run is not nobody, and bounds are numbers.
PartsAssumption ==
    /\ Releases # {} /\ \A release \in Releases : release \in Seq(Schema!Files)
    /\ Release!ReleaseAssumption
    /\ None \notin Slots
    /\ MaxRevision \in Nat \ {0} /\ MaxTime \in Nat /\ MaxTests \in Nat /\ MaxInterrupts \in Nat
    /\ Period \in Nat
    /\ Limiter!LimiterAssumption
ASSUME PartsAssumption

releaseVars == <<posts, ledger, renderer, rendered, command, faults, vectored, projection, serving>>
schemaVars == <<table, fileLedger, schema, lock, run, ready, schemaFaults>>
limiterVars == <<clock, entries, earliest, earliestValid, admission>>
partVars == <<part, vars, releaseVars, schemaVars, limiterVars>>

FirstShell == CHOOSE s \in Shells : TRUE

\* The part that does not move keeps one initial state.
PartInit ==
    /\ part \in {"release", "schema", "control", "limiter"}
    /\ Init /\ Release!Init /\ Schema!Init /\ Limiter!Init
    /\ part # "release" => \A p \in Posts : posts[p] = Release!Written(TRUE)
    /\ part # "schema" => table = "absent" /\ \A r \in Slots : run[r].release = CHOOSE release \in Releases : TRUE
    /\ site.shell = FirstShell   \* the shells stand for each other

PartNext ==
    \/ part = "release" /\ Release!Next /\ UNCHANGED <<part, schemaVars, vars, limiterVars>>
    \/ part = "schema" /\ Schema!Next /\ UNCHANGED <<part, releaseVars, vars, limiterVars>>
    \/ part = "control" /\ Next /\ UNCHANGED <<part, releaseVars, schemaVars, limiterVars>>
    \/ part = "limiter" /\ Limiter!Next /\ UNCHANGED <<part, releaseVars, schemaVars, vars>>

\* The fairness of the modules, each for the part that moves.
PartFairness ==
    /\ \A c \in Commands :
         /\ WF_releaseVars(part = "release" /\ Release!CommandStep(c))
         /\ WF_releaseVars(part = "release" /\ ledger > 0 /\ ~Release!Check /\ Release!StartCommand(c))
    /\ \A r \in Slots :
         /\ WF_schemaVars(part = "schema" /\ Schema!RunStep(r))
         /\ WF_schemaVars(part = "schema" /\ Schema!Start(r))
         /\ SF_schemaVars(part = "schema" /\ Schema!withMigrationLock(r))
    /\ \A c \in Slots : WF_vars(part = "control" /\ CallStep(c))

PartSpec == PartInit /\ [][PartNext]_partVars /\ PartFairness

\* Instance of the settings: one call out of the ordinary, and two calls at
\* once only of one row's forms or without a form that the other decides; a
\* changed shell matters to the forms of the settings alone.
Busy == {c \in Slots : call[c] # Free}
Forms == {c \in Busy : call[c].kind \in {"control", "site"}}
Extraordinary ==
    interrupts + now + Cardinality({a1} \ authorized)
      + Cardinality({c \in Busy : call[c].kind = "test" /\ ~call[c].connected})
FewSettings ==
    /\ ~site.maintenance /\ \A c \in Forms : call[c].kind = "control" => ~call[c].wish.maintenance
    /\ site.shell # FirstShell => Busy = Forms /\ Extraordinary = 0
    /\ Extraordinary <= 1
    /\ Cardinality(Busy) > 1 =>
         /\ (\E c \in Busy : call[c].kind = "site") => Busy = Forms /\ smtp.revision = 1
         /\ Forms = Busy => Extraordinary = 0

\* Instance of the release: of the three posts at most two, and one while two
\* commands run, are too large or redacted.
Running == {c \in Commands : command[c].step # "idle"}
FewUnlikePosts ==
    Cardinality({p \in Posts : ~posts[p].fits \/ posts[p].redacted}) <= (IF Cardinality(Running) > 1 THEN 1 ELSE 2)

Few ==
    /\ part = "control" => FewSettings
    /\ part = "release" => FewUnlikePosts

-----------------------------------------------------------------------------
(* The properties of the other modules, gathered by what they are about;   *)
(* ControlPlane has its own.                                               *)

PartTypeOK == TypeOK /\ Release!TypeOK /\ Schema!TypeOK /\ Limiter!TypeOK

\* ReleaseCommand: a board that serves is converted as far as its rows say, and
\* a preflight that passed has seen what the conversion needs.
ReleaseIsConverted ==
    /\ Release!ServedReleaseIsConverted
    /\ Release!ProgressIsTrue
    /\ Release!PreflightSuffices

\* SchemaMigration: each file took effect once, in order, as the ledger says;
\* nobody else applies a file while a run does, and success is reported for the
\* release of the ledger only.
SchemaIsItsLedger == Schema!SchemaIsItsLedger

\* ReleaseCommand: both conversions implement the abstract one.
ConversionsRefine ==
    /\ Release!RerenderIsAConversion
    /\ Release!ProjectionIsAConversion

\* Commands and migrators that are repeated get done, a browser that goes away
\* leaves no test requested, and refusals for capacity end with the windows.
OperationsEnd ==
    /\ Release!AppliedIsCompleted
    /\ part = "schema" => Schema!NewestIsReached
    /\ ReservedTestEnds
    /\ Limiter!CapacityRefusalsEnd

\* RequestLimiter: the windows are bounded in number, and one that is still
\* enforced is neither evicted nor eased.
LimiterHolds ==
    /\ []Limiter!CapacityHolds
    /\ Limiter!NoEnforcedWindowIsLost

\* What the documents say of a full limiter: an unseen client is refused if no
\* expired window exists.
RefusedOnlyWithoutExpired == Limiter!RefusedOnlyWithoutExpired
=============================================================================
