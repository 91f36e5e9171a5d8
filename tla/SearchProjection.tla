---------------------------- MODULE SearchProjection ----------------------------
(***************************************************************************)
(* The search vectors of topics and posts, made after the HTML of the      *)
(* posts: the second conversion of a migration command, with a state of    *)
(* its own.  It goes through all topics and then all posts, whatever they  *)
(* hold, and is complete when the counts, the cursor and the rows agree.   *)
(***************************************************************************)
EXTENDS RendererMigration

CONSTANT Topics      \* identifiers, positive

VARIABLES
    vectored,    \* topics that have their vector
    projection   \* the row of search_projection_state, with its lock

ProjectionTypeOK ==
    /\ vectored \subseteq Topics
    /\ projection.phase \in {"topics", "posts", "complete"}
    /\ projection.cursor \in Topics \cup Posts \cup {0}
    /\ projection.topics \in 0..Cardinality(Topics) /\ projection.posts \in 0..Cardinality(Posts)
    /\ projection.lock \in Commands \cup {None}

ProjectionInit ==
    /\ vectored = {}
    /\ projection = [phase |-> "topics", cursor |-> 0, topics |-> 0, posts |-> 0, lock |-> None]

renderedVars == <<posts, ledger, renderer, rendered>>

-----------------------------------------------------------------------------
(* The preflight. *)

\* Before its migration the state is absent; complete, every row must have a vector.
inspectServer(c) ==
    /\ command[c].step = "server"
    /\ command' = [command EXCEPT ![c].step = "search",
                                  ![c].current = ledger = 2 /\ projection.phase = "complete"]
    /\ UNCHANGED <<renderedVars, vectored, projection, faults>>

\* A vector is the one of the row's text now, or is missing where it may be.
projectionCurrent(p, required) ==
    \/ posts[p].vector = posts[p].html
    \/ posts[p].vector = "none" /\ ~required

\* The topics, whose titles never change, and then the posts, page by page.
preflightKind(c) ==
    /\ command[c].step = "search"
    /\ LET page == Page(Posts, command[c].cursor) IN
       IF \/ command[c].current /\ vectored # Topics
          \/ \E p \in page : ~projectionCurrent(p, command[c].current)
         THEN Ends(c, "failed")
       ELSE IF Cardinality(page) < BatchSize THEN Proceeds(c, "search")
       ELSE command' = [command EXCEPT ![c].cursor = Max(page)]
    /\ UNCHANGED <<renderedVars, vectored, projection, faults>>

-----------------------------------------------------------------------------
(* A batch. *)

lockState == projection.lock = None

Rows == IF projection.phase = "topics" THEN Topics ELSE Posts

\* Lock the state and the first rows after the cursor.
loadMutationCandidates(c) ==
    /\ command[c].step = "project" /\ lockState
    /\ projection.phase # "complete" /\ Page(Rows, projection.cursor) # {}
    /\ projection' = [projection EXCEPT !.lock = c]
    /\ command' = [command EXCEPT ![c].step = "vectors", ![c].cursor = projection.cursor,
                                  ![c].seen = Page(Rows, projection.cursor)]
    /\ UNCHANGED <<renderedVars, vectored, faults>>

\* No topic after the cursor: the posts are next.
AdvancePhase(c) ==
    /\ command[c].step = "project" /\ lockState
    /\ projection.phase = "topics" /\ Page(Rows, projection.cursor) = {}
    /\ projection' = [projection EXCEPT !.phase = "posts", !.cursor = 0]
    /\ Begins(c, "project")
    /\ UNCHANGED <<renderedVars, vectored, faults>>

\* No post after the cursor, or nothing to do at all.
EndOfRows(c) ==
    /\ command[c].step = "project" /\ lockState
    /\ \/ projection.phase = "complete" /\ Begins(c, "ready")
       \/ projection.phase = "posts" /\ Page(Rows, projection.cursor) = {} /\ Begins(c, "analyze")
    /\ UNCHANGED <<renderedVars, vectored, projection, faults>>

vectorize(batch) ==
    IF projection.phase = "topics"
      THEN vectored' = vectored \cup batch /\ UNCHANGED posts
      ELSE /\ posts' = [p \in Posts |-> IF p \in batch THEN [posts[p] EXCEPT !.vector = posts[p].html]
                                        ELSE posts[p]]
           /\ UNCHANGED vectored

recordProjection(batch) ==
    projection' = [projection EXCEPT
                     !.topics = IF projection.phase = "topics" THEN @ + Cardinality(batch) ELSE @,
                     !.posts = IF projection.phase = "posts" THEN @ + Cardinality(batch) ELSE @,
                     !.cursor = Max(batch), !.lock = None]

Released == projection' = [projection EXCEPT !.lock = None]

\* Mutation of the batch: the vectors are committed before the state.
VectorsApart(c) ==
    /\ command[c].step = "vectors"
    /\ vectorize(command[c].seen)
    /\ \/ recordProjection(command[c].seen) /\ Begins(c, "project") /\ UNCHANGED faults
       \/ Fault /\ Released /\ Ends(c, "failed")
    /\ UNCHANGED <<ledger, renderer, rendered>>

\* Mutation of the batch: the count is committed after the vectors and the cursor.
CountLast(c) ==
    /\ command[c].step = "vectors"
    /\ vectorize(command[c].seen)
    /\ \/ recordProjection(command[c].seen) /\ Begins(c, "project") /\ UNCHANGED faults
       \/ /\ Fault /\ Ends(c, "failed")
          /\ projection' = [projection EXCEPT !.lock = None, !.cursor = Max(command[c].seen)]
    /\ UNCHANGED <<ledger, renderer, rendered>>

\* Write the vectors and the progress; commit.
ProjectBatch(c) ==
    /\ command[c].step = "vectors"
    /\ \/ /\ projection.cursor = command[c].cursor
          /\ vectorize(command[c].seen) /\ recordProjection(command[c].seen)
          /\ \/ Begins(c, "project") /\ UNCHANGED faults
             \/ Fault /\ Ends(c, "failed")
       \/ /\ projection.cursor # command[c].cursor
          /\ Ends(c, "refused") /\ Released /\ UNCHANGED <<posts, vectored, faults>>
       \/ /\ Fault /\ Released
          /\ Retries(c, "project") \/ Ends(c, "failed")
          /\ UNCHANGED <<posts, vectored>>
    /\ UNCHANGED <<ledger, renderer, rendered>>

\* The counts are those of the rows, the cursor is the last post, and no row
\* lacks its vector.
completionOracle ==
    /\ projection.topics = Cardinality(Topics) /\ projection.posts = Cardinality(Posts)
    /\ projection.cursor = Max(Posts \cup {0})
    /\ vectored = Topics /\ \A p \in Posts : posts[p].vector # "none"

complete(c) ==
    /\ command[c].step = "analyze" /\ lockState
    /\ \/ projection.phase = "complete" /\ Begins(c, "ready") /\ UNCHANGED <<projection, faults>>
       \/ /\ projection.phase = "posts" /\ completionOracle
          /\ projection' = [projection EXCEPT !.phase = "complete"]
          /\ \/ Begins(c, "ready") /\ UNCHANGED faults
             \/ Fault /\ Ends(c, "failed")
       \/ /\ projection.phase = "posts" /\ ~completionOracle
          /\ Ends(c, "refused") /\ UNCHANGED <<projection, faults>>
       \/ /\ Fault /\ Ends(c, "failed") /\ UNCHANGED projection
    /\ UNCHANGED <<renderedVars, vectored>>

readyState == projection.phase = "complete"

Ready(c) ==
    /\ command[c].step = "ready"
    /\ IF readyState THEN Proceeds(c, "project") ELSE Ends(c, "failed")
    /\ UNCHANGED <<renderedVars, vectored, projection, faults>>

=============================================================================
