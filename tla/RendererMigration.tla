--------------------------- MODULE RendererMigration ---------------------------
(***************************************************************************)
(* The stored HTML of posts after a change of the renderer.  A command     *)
(* first reads every post, in pages, each in a snapshot of its own, and    *)
(* proves that it can be converted; once the schema has changed it         *)
(* converts the posts in batches behind a cursor in the database.  A post  *)
(* whose new HTML would be too large keeps its old HTML, if that is what   *)
(* the old renderer makes of it; any other is refused.  A commit may fail  *)
(* with its outcome unknown, a process may end, and commands may overlap.  *)
(***************************************************************************)
EXTENDS Naturals, FiniteSets, FiniteSetsExt

CONSTANTS
    Commands,         \* slots for the runs of the migration command
    None,
    Posts,            \* identifiers, positive
    BatchSize,
    maximumAttempts,  \* of one batch
    MaxFaults         \* bound

VARIABLES
    posts,     \* the rows of posts
    ledger,    \* how many of the two migrations that the conversions need are applied
    renderer,  \* the row of content_renderer_state, with its lock
    rendered,  \* history: how often the migration converted each post
    command,   \* what each command is doing
    faults     \* consumed part of the bound

\* Whether the new HTML is small enough, the HTML, the renderer it is marked
\* with, and the HTML that the search vector was made from.
PostRows ==
    [fits : BOOLEAN, html : {"p1", "p2", "other", "redaction"},
     version : {"p1", "p2", "preserved", "redaction"}, redacted : BOOLEAN,
     vector : {"none", "p1", "p2", "redaction"}]

Written(fits) ==
    [fits |-> fits, html |-> "p1", version |-> "p1", redacted |-> FALSE, vector |-> "none"]
Redaction(post) == [post EXCEPT !.html = "redaction", !.version = "redaction", !.redacted = TRUE]

\* What an old release left: its own HTML, HTML of some other origin, and
\* redactions, whole or not.
OldPosts ==
    {Written(TRUE), Written(FALSE), [Written(FALSE) EXCEPT !.html = "other"],
     Redaction(Written(TRUE)), [Written(TRUE) EXCEPT !.redacted = TRUE]}

Steps == {"idle", "inspect", "preflight", "server", "search", "apply", "render", "write",
          "project", "vectors", "analyze", "ready"}
Outcomes == {"none", "failed", "refused", "complete"}
Idle == [step |-> "idle", outcome |-> "none", alpha3 |-> FALSE, current |-> FALSE,
         cursor |-> 0, seen |-> {}, attempt |-> 1]

CommandRows ==
    [step : Steps, outcome : Outcomes, alpha3 : BOOLEAN, current : BOOLEAN,
     cursor : Nat, seen : SUBSET Nat, attempt : 1..maximumAttempts]

RendererTypeOK ==
    /\ posts \in [Posts -> PostRows]
    /\ ledger \in 0..2
    /\ renderer.cursor \in Posts \cup {0} /\ renderer.converted \in 0..Cardinality(Posts)
    /\ renderer.completed \in BOOLEAN /\ renderer.validated \in BOOLEAN
    /\ renderer.lock \in Commands \cup {None}
    /\ \A c \in Commands : command[c] \in CommandRows
    /\ faults \in 0..MaxFaults

RendererInit ==
    /\ posts \in [Posts -> OldPosts]
    /\ ledger = 0
    /\ renderer = [cursor |-> 0, converted |-> 0, completed |-> FALSE, validated |-> FALSE, lock |-> None]
    /\ rendered = [p \in Posts |-> 0]
    /\ command = [c \in Commands |-> Idle]
    /\ faults = 0

-----------------------------------------------------------------------------
(* How a command goes on. *)

Begins(c, step) ==
    command' = [command EXCEPT ![c] = [@ EXCEPT !.step = step, !.outcome = "none", !.cursor = 0, !.seen = {},
                                             !.attempt = 1]]
Ends(c, outcome) == command' = [command EXCEPT ![c] = [Idle EXCEPT !.outcome = outcome]]

\* Mutation of applyRelease: the search projection is made before the HTML.
ProjectFirst ==
    [preflight |-> "server", search |-> "apply", apply |-> "project", project |-> "render", render |-> "idle"]

\* The phases of a command, in their order.
applyRelease ==
    [preflight |-> "server", search |-> "apply", apply |-> "render", render |-> "project", project |-> "idle"]

Proceeds(c, phase) ==
    IF applyRelease[phase] = "idle" THEN Ends(c, "complete") ELSE Begins(c, applyRelease[phase])

Fault == faults < MaxFaults /\ faults' = faults + 1

\* A serialization failure or a deadlock: the transaction is known to be lost.
Retries(c, step) ==
    IF command[c].attempt < maximumAttempts
      THEN command' = [command EXCEPT ![c] = [command[c] EXCEPT !.step = step, !.cursor = 0, !.seen = {},
                                                                !.attempt = @ + 1]]
      ELSE Ends(c, "failed")

\* The first rows after a cursor.
Page(rows, cursor) ==
    LET after == {row \in rows : row > cursor} IN
    {row \in after : Cardinality({r \in after : r < row}) < BatchSize}

-----------------------------------------------------------------------------
(* What may become of a post. *)

\* preparePost: renderable, or oversized and exactly what the old renderer made.
Admitted(post) == post.fits \/ (post.version = "p1" /\ post.html = "p1")

preparePost(post) ==
    IF post.fits THEN [post EXCEPT !.html = "p2", !.version = "p2"]
    ELSE [post EXCEPT !.version = "preserved"]

\* Mutation of preflightPost: a redacted post is not looked at.
PreflightVisible(post, alpha3) ==
    \/ post.redacted
    \/ post.version = "p2" /\ alpha3 /\ post.fits /\ post.html = "p2"
    \/ post.version = "preserved" /\ alpha3 /\ ~post.fits /\ post.html = "p1"
    \/ post.version \notin {"p2", "preserved"} /\ Admitted(post)

preflightPost(post, alpha3) ==
    \/ post.redacted /\ post.version = "redaction" /\ post.html = "redaction"
    \/ ~post.redacted /\ post.version = "p2" /\ alpha3 /\ post.fits /\ post.html = "p2"
    \/ ~post.redacted /\ post.version = "preserved" /\ alpha3 /\ ~post.fits /\ post.html = "p1"
    \/ ~post.redacted /\ post.version \notin {"p2", "preserved"} /\ Admitted(post)

Stale(p) == ~posts[p].redacted /\ posts[p].version \notin {"p2", "preserved"}

\* The constraint posts_renderer_version_current.
Current(p) ==
    \/ posts[p].version = "p2"
    \/ posts[p].version = "preserved" /\ ~posts[p].redacted
    \/ posts[p].version = "redaction" /\ posts[p].redacted

-----------------------------------------------------------------------------
(* The preflight, which changes nothing. *)

inspectPreflightState(c) ==
    /\ command[c].step = "inspect"
    /\ command' = [command EXCEPT ![c].step = "preflight", ![c].alpha3 = ledger >= 1]
    /\ UNCHANGED <<posts, ledger, renderer, rendered, faults>>

preflightBatch(c) ==
    /\ command[c].step = "preflight"
    /\ LET page == Page(Posts, command[c].cursor) IN
       IF \E p \in page : ~preflightPost(posts[p], command[c].alpha3) THEN Ends(c, "failed")
       ELSE IF Cardinality(page) < BatchSize THEN Proceeds(c, "preflight")
       ELSE command' = [command EXCEPT ![c].cursor = Max(page)]
    /\ UNCHANGED <<posts, ledger, renderer, rendered, faults>>

-----------------------------------------------------------------------------
(* A batch: one transaction that holds the row of the state. *)

\* Mutation of runBatch: a short batch is the last one.
CompleteShort(c) ==
    /\ command[c].step = "render" /\ renderer.lock = None
    /\ LET page == Page({p \in Posts : Stale(p)}, renderer.cursor) IN
       IF Cardinality(page) < BatchSize
         THEN renderer' = [renderer EXCEPT !.completed = TRUE] /\ Proceeds(c, "render")
         ELSE /\ renderer' = [renderer EXCEPT !.lock = c]
              /\ command' = [command EXCEPT ![c].step = "write", ![c].cursor = renderer.cursor,
                                            ![c].seen = page]
    /\ UNCHANGED <<posts, ledger, rendered, faults>>

\* Lock the state, select the first stale posts after the cursor, prepare them.
SelectBatch(c) ==
    /\ command[c].step = "render" /\ renderer.lock = None
    /\ LET page == Page({p \in Posts : Stale(p)}, renderer.cursor) IN
       /\ page # {}
       /\ IF \E p \in page : ~Admitted(posts[p])
            THEN Ends(c, "refused") /\ UNCHANGED renderer
            ELSE /\ renderer' = [renderer EXCEPT !.lock = c]
                 /\ command' = [command EXCEPT ![c].step = "write", ![c].cursor = renderer.cursor,
                                               ![c].seen = page]
    /\ UNCHANGED <<posts, ledger, rendered, faults>>

updateRenderedPost(batch) == posts' = [p \in Posts |-> IF p \in batch THEN preparePost(posts[p]) ELSE posts[p]]

recordBatch(batch) ==
    renderer' = [renderer EXCEPT !.converted = @ + Cardinality(batch), !.cursor = Max(batch),
                                 !.completed = FALSE, !.lock = None]

Unlocked == renderer' = [renderer EXCEPT !.lock = None]

\* Mutation of the batch: the posts are committed before the state.
WriteApart(c) ==
    /\ command[c].step = "write"
    /\ LET batch == command[c].seen IN
       /\ updateRenderedPost(batch)
       /\ rendered' = [p \in Posts |-> IF p \in batch THEN rendered[p] + 1 ELSE rendered[p]]
       /\ \/ recordBatch(batch) /\ Begins(c, "render") /\ UNCHANGED faults
          \/ Fault /\ Unlocked /\ Ends(c, "failed")
    /\ UNCHANGED ledger

\* Update the posts, each only if it is what was read, and the state, only if
\* its cursor is; commit.
WriteBatch(c) ==
    /\ command[c].step = "write"
    /\ LET batch == command[c].seen IN
       \/ /\ \A p \in batch : Stale(p)
          /\ renderer.cursor = command[c].cursor
          /\ updateRenderedPost(batch) /\ recordBatch(batch)
          /\ rendered' = [p \in Posts |-> IF p \in batch THEN rendered[p] + 1 ELSE rendered[p]]
          /\ \/ Begins(c, "render") /\ UNCHANGED faults
             \/ Fault /\ Ends(c, "failed")
       \/ /\ (\E p \in batch : ~Stale(p)) \/ renderer.cursor # command[c].cursor
          /\ Ends(c, "refused") /\ Unlocked /\ UNCHANGED <<posts, rendered, faults>>
       \/ /\ Fault /\ Unlocked
          /\ Retries(c, "render") \/ Ends(c, "failed")
          /\ UNCHANGED <<posts, rendered>>
    /\ UNCHANGED ledger

\* No stale post after the cursor: validate the constraint and ask once more
\* for a stale post anywhere.
CompleteRenderer(c) ==
    /\ command[c].step = "render" /\ renderer.lock = None
    /\ Page({p \in Posts : Stale(p)}, renderer.cursor) = {}
    /\ \/ /\ \A p \in Posts : Current(p) /\ ~Stale(p)
          /\ renderer' = [renderer EXCEPT !.completed = TRUE, !.validated = TRUE]
          /\ \/ Proceeds(c, "render") /\ UNCHANGED faults
             \/ Fault /\ Ends(c, "failed")
       \/ /\ \E p \in Posts : ~Current(p) \/ Stale(p)
          /\ Ends(c, "refused") /\ UNCHANGED <<renderer, faults>>
       \/ /\ Fault /\ UNCHANGED renderer
          /\ Retries(c, "render") \/ Ends(c, "failed")
    /\ UNCHANGED <<posts, ledger, rendered>>

=============================================================================
