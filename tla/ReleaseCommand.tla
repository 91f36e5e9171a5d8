----------------------------- MODULE ReleaseCommand -----------------------------
(***************************************************************************)
(* A release: the operator stops the board, runs the migration command,    *)
(* again where it failed, and starts the new board once its readiness      *)
(* check passes.  While the board is stopped nobody writes; the command's  *)
(* preflights, its migrations and its conversions rely on that, because    *)
(* none of them covers the others with one transaction.                    *)
(***************************************************************************)
EXTENDS SearchProjection

ReleaseAssumption ==
    /\ IsFiniteSet(Posts) /\ Posts \subseteq Nat \ {0}
    /\ IsFiniteSet(Topics) /\ Topics \subseteq Nat \ {0}
    /\ BatchSize \in Nat \ {0} /\ maximumAttempts \in Nat \ {0} /\ MaxFaults \in Nat
    /\ None \notin Commands

VARIABLE serving     \* the board: the old release, the new one, or stopped

releaseVars == <<posts, ledger, renderer, rendered, command, faults, vectored, projection, serving>>
stateVars == <<posts, renderer, rendered, vectored, projection>>

TypeOK ==
    /\ RendererTypeOK /\ ProjectionTypeOK
    /\ serving \in {"old", "stopped", "new"}

Init == RendererInit /\ ProjectionInit /\ serving = "old"

Resting == \A c \in Commands : command[c].step = "idle"

-----------------------------------------------------------------------------
(* The operator. *)

Stop ==
    /\ serving # "stopped" /\ serving' = "stopped"
    /\ UNCHANGED <<stateVars, ledger, command, faults>>

\* The old board comes back only before the schema has changed.
StartOld ==
    /\ serving = "stopped" /\ Resting /\ ledger = 0
    /\ serving' = "old"
    /\ UNCHANGED <<stateVars, ledger, command, faults>>

\* Mutation of the readiness check: the ledger is enough.
CheckLedger == ledger = 2

\* The state is complete and its constraint validated.
governanceInvariant == renderer.completed /\ renderer.validated

Check == ledger = 2 /\ governanceInvariant /\ readyState

StartNew ==
    /\ serving = "stopped" /\ Resting /\ Check
    /\ serving' = "new"
    /\ UNCHANGED <<stateVars, ledger, command, faults>>

StartCommand(c) ==
    /\ serving = "stopped" /\ command[c].step = "idle"
    /\ Begins(c, "inspect")
    /\ UNCHANGED <<stateVars, ledger, faults, serving>>

\* The migrations, one at a time under the lock of the migrator.
ApplyMigrations(c) ==
    /\ command[c].step = "apply"
    /\ \/ ledger < 2 /\ ledger' = ledger + 1 /\ UNCHANGED <<command, faults>>
       \/ ledger < 2 /\ ledger' \in {ledger, ledger + 1} /\ Fault /\ Ends(c, "failed")
       \/ ledger = 2 /\ Proceeds(c, "apply") /\ UNCHANGED <<ledger, faults>>
    /\ UNCHANGED <<stateVars, serving>>

\* The process of a command ends; its transaction is undone and its locks go.
Crash(c) ==
    /\ command[c].step # "idle" /\ Fault
    /\ Ends(c, "failed")
    /\ renderer' = IF renderer.lock = c THEN [renderer EXCEPT !.lock = None] ELSE renderer
    /\ projection' = IF projection.lock = c THEN [projection EXCEPT !.lock = None] ELSE projection
    /\ UNCHANGED <<posts, ledger, rendered, vectored, serving>>

-----------------------------------------------------------------------------
(* What the boards write. *)

\* The old board renders as it always did and knows no vectors.
OldWrites(p) ==
    /\ serving = "old"
    /\ \E fits \in BOOLEAN : posts' = [posts EXCEPT ![p] = Written(fits)]
    /\ ~posts[p].redacted
    /\ UNCHANGED <<ledger, renderer, rendered, vectored, projection, command, faults, serving>>

\* Mutation of the new board: an edit stores the HTML and forgets the vector.
NewWritesBare(p) ==
    /\ serving = "new" /\ ~posts[p].redacted
    /\ posts' = [posts EXCEPT ![p] = [Written(TRUE) EXCEPT !.html = "p2", !.version = "p2"]]
    /\ UNCHANGED <<ledger, renderer, rendered, vectored, projection, command, faults, serving>>

\* The new one makes the HTML and its vector together, a redaction too.
NewWrites(p) ==
    /\ serving = "new" /\ ~posts[p].redacted
    /\ posts' = [posts EXCEPT ![p] =
         IF posts[p].version = "p2" THEN [Redaction(posts[p]) EXCEPT !.vector = "redaction"]
         ELSE [Written(TRUE) EXCEPT !.html = "p2", !.version = "p2", !.vector = "p2"]]
    /\ UNCHANGED <<ledger, renderer, rendered, vectored, projection, command, faults, serving>>

-----------------------------------------------------------------------------

CommandStep(c) ==
    \/ /\ \/ inspectPreflightState(c) \/ preflightBatch(c)
          \/ SelectBatch(c) \/ WriteBatch(c) \/ CompleteRenderer(c)
       /\ UNCHANGED <<vectored, projection, serving>>
    \/ /\ \/ inspectServer(c) \/ preflightKind(c)
          \/ loadMutationCandidates(c) \/ AdvancePhase(c) \/ EndOfRows(c)
          \/ ProjectBatch(c) \/ complete(c) \/ Ready(c)
       /\ UNCHANGED serving
    \/ ApplyMigrations(c)

Next ==
    \/ Stop \/ StartOld \/ StartNew
    \/ \E c \in Commands : StartCommand(c) \/ CommandStep(c) \/ Crash(c)
    \/ \E p \in Posts : OldWrites(p) \/ NewWrites(p)

\* A command goes on; the operator completes a release that has begun.
Fairness ==
    \A c \in Commands :
      WF_releaseVars(CommandStep(c)) /\ WF_releaseVars(ledger > 0 /\ ~Check /\ StartCommand(c))

Spec == Init /\ [][Next]_releaseVars /\ Fairness

-----------------------------------------------------------------------------
(* Properties. *)

\* The new board serves no post that the release did not convert and no row
\* whose search vector is missing or is of another text than the row has.
ServedReleaseIsConverted ==
    serving = "new" =>
      /\ \A p \in Posts : ~Stale(p) /\ Current(p) /\ posts[p].vector = posts[p].html
      /\ vectored = Topics

\* Each post is converted once and counted once, each row gets its vector once,
\* whatever commits were unknown, and the cursors are at the last of them.
ProgressIsTrue ==
    /\ \A p \in Posts : rendered[p] <= 1
    /\ renderer.converted = Cardinality({p \in Posts : rendered[p] = 1})
    /\ renderer.cursor = Max({p \in Posts : rendered[p] = 1} \cup {0})
    /\ projection.topics = Cardinality(vectored)
    /\ ~readyState => projection.posts = Cardinality({p \in Posts : posts[p].vector # "none"})

\* Once a preflight let a command go on, no conversion meets a post that it
\* has to refuse, and no oracle denies what the batches did.
PreflightSuffices == \A c \in Commands : command[c].outcome # "refused"

Rerender ==
    INSTANCE Conversion WITH Rows <- Posts, pending <- {p \in Posts : Stale(p)},
                             finished <- renderer.completed

\* The HTML: posts leave the stale ones for good and the conversion is called
\* complete only when none is left.
RerenderIsAConversion == Rerender!Spec

Project ==
    INSTANCE Conversion WITH
        Rows <- {<<"topic", t>> : t \in Topics} \cup {<<"post", p>> : p \in Posts},
        pending <- {<<"topic", t>> : t \in Topics \ vectored}
                     \cup {<<"post", p>> : p \in {q \in Posts : posts[q].vector = "none"}},
        finished <- readyState

\* The vectors likewise.
ProjectionIsAConversion == Project!Spec

\* A release whose schema was applied is completed by a command that is run again.
AppliedIsCompleted == ledger > 0 ~> Check

=============================================================================
