--------------------------- MODULE OperationsProofs ---------------------------
(***************************************************************************)
(* Proofs about ControlPlane, SchemaMigration, ReleaseCommand with its two *)
(* conversions, and RequestLimiter, for every number of administrators,    *)
(* requests, runs, releases, posts, commands, failures, crashes and        *)
(* addresses and any size of a batch, and about them in the behaviours of  *)
(* MCOperations.                                                           *)
(*                                                                         *)
(* Registration is open on a verified transport only, because the one      *)
(* change that unverifies a transport holds the site's row from its look   *)
(* at it to its commit.  A revision is verified by a test that was         *)
(* accepted with it, because a reservation has a key of its own: who finds *)
(* its key in the row finds its revision there.                            *)
(*                                                                         *)
(* Between its lock and its unlock a run of the migrator is alone: what it *)
(* read of the ledger is the ledger until it has written its last file, so *)
(* that every file is the next one of its release.                         *)
(*                                                                         *)
(* Of a release, what has been converted is what lies before the cursor.   *)
(* A command that selected a batch holds the row of the state until it     *)
(* commits, so what it selected is still waiting and the cursor is still   *)
(* where it was; a command that has passed its preflight knows that every  *)
(* post can be converted, and whatever is done to posts from then on       *)
(* leaves that true.                                                       *)
(*                                                                         *)
(* What the limiter remembers is never after the end of its last window,   *)
(* so that who is refused for capacity is refused by a window that is      *)
(* still enforced.                                                         *)
(***************************************************************************)
EXTENDS MCOperations, SequenceTheorems, FiniteSetTheorems, WellFoundedInduction, TLAPS

\* What the bounds are.
Parameters ==
    /\ MaxRevision \in Nat \ {0} /\ MaxTime \in Nat /\ MaxTests \in Nat /\ MaxInterrupts \in Nat
    /\ Period \in Nat

USE DEF bounds, Unverified

-----------------------------------------------------------------------------
(* ControlPlane: the inductive invariant. *)

\* What a request has read or done, and what still holds of it.
FormIsTrue(t) == t.seen.revision <= site.revision /\ (t.seen.revision = site.revision => t.seen = site)
HolderIsTrue == site.registration = "closed" /\ smtp.revision < MaxRevision
ReservationIsTrue(t) ==
    t.key \in 1..tests /\ (test[t.actor].key = t.key => test[t.actor].revision = t.revision)
TestIsTrue(t) ==
    /\ t.step # "begin" => t.revision \in 1..MaxRevision
    /\ t.step \in {"load", "send", "complete"} => ReservationIsTrue(t)
    /\ t.step = "complete" /\ t.status = "accepted" => t.revision \in accepted

IsForm(t) == t.kind \in {"control", "site"}
IsHolder(t) == t.kind = "smtp" /\ t.step \in {"configure", "save"}
CallIsTrue(t) ==
    /\ IsForm(t) => FormIsTrue(t)
    /\ IsHolder(t) => HolderIsTrue
    /\ t.kind = "test" => TestIsTrue(t)

CallsAreTrue == \A c \in Calls : CallIsTrue(call[c])
KeysAreGivenOut == \A a \in Administrators : test[a].key <= tests
OneHolder == \A c, d \in Calls : Holds(c) /\ Holds(d) => c = d

IInv ==
    /\ TypeOK /\ CallsAreTrue /\ KeysAreGivenOut /\ OneHolder
    /\ OpenNeedsVerified /\ VerifiedWasAccepted

-----------------------------------------------------------------------------
(* Requests. *)

ControlCalls == FormCalls({"control"}, Controls)
SiteCalls == FormCalls({"site"}, Shells)
AllCalls == {Free} \cup ControlCalls \cup SiteCalls \cup SmtpCalls \cup TestCalls

\* A request is of the kind that it says.
LEMMA CallType ==
    ASSUME TypeOK, NEW c \in Calls
    PROVE  /\ call[c] \in AllCalls
           /\ call[c].kind = "control" => call[c] \in ControlCalls
           /\ call[c].kind = "site" => call[c] \in SiteCalls
           /\ call[c].kind = "smtp" => call[c] \in SmtpCalls
           /\ call[c].kind = "test" => call[c] \in TestCalls
<1>1. call[c] \in AllCalls
  BY DEF TypeOK, AllCalls, ControlCalls, SiteCalls
<1>2. call[c] = Free => call[c].kind = "free"
  BY DEF Free
<1>3. call[c] \in ControlCalls => call[c].kind = "control"
  BY DEF ControlCalls, FormCalls
<1>4. call[c] \in SiteCalls => call[c].kind = "site"
  BY DEF SiteCalls, FormCalls
<1>5. call[c] \in SmtpCalls => call[c].kind = "smtp"
  BY DEF SmtpCalls
<1>6. call[c] \in TestCalls => call[c].kind = "test"
  BY DEF TestCalls
<1> QED BY <1>1, <1>2, <1>3, <1>4, <1>5, <1>6 DEF AllCalls

\* Replacing one request by another.
LEMMA CallReplaced ==
    ASSUME TypeOK, NEW c \in Calls, NEW x \in AllCalls, call' = [call EXCEPT ![c] = x]
    PROVE  /\ call' \in [Calls -> AllCalls]
           /\ call'[c] = x /\ \A d \in Calls \ {c} : call'[d] = call[d]
  BY DEF TypeOK, AllCalls, ControlCalls, SiteCalls

\* What a request becomes, by a step of its own.
BecomesTrue(c, x) == x \in AllCalls /\ call' = [call EXCEPT ![c] = x] /\ CallIsTrue(x)'

LEMMA EndBecomes ==
    ASSUME NEW c, Ends(c)
    PROVE  BecomesTrue(c, Free) /\ ~IsHolder(Free)
<1>1. Free.kind = "free" /\ Free \in AllCalls
  BY DEF Free, AllCalls
<1> QED BY <1>1 DEF Ends, BecomesTrue, CallIsTrue, IsForm, IsHolder

\* The rows have the fields that they have.
LEMMA RowFields ==
    ASSUME TypeOK
    PROVE  /\ site.revision \in 1..MaxRevision /\ site.registration \in Modes
           /\ site.maintenance \in BOOLEAN /\ site.shell \in Shells
           /\ smtp.transport \in Transports \cup {Disabled} /\ smtp.revision \in 1..MaxRevision
           /\ smtp.verified \in 0..MaxRevision
<1>1. site \in SiteRows /\ smtp \in SmtpRows
  BY DEF TypeOK
<1>2. site.revision \in 1..MaxRevision /\ site.registration \in Modes /\ site.maintenance \in BOOLEAN /\ site.shell \in Shells
  BY <1>1, Zenon DEF SiteRows
<1>3. smtp.transport \in Transports \cup {Disabled} /\ smtp.revision \in 1..MaxRevision /\ smtp.verified \in 0..MaxRevision
  BY <1>1 DEF SmtpRows
<1> QED BY <1>2, <1>3

LEMMA TestFields ==
    ASSUME TypeOK, NEW a \in Administrators
    PROVE  /\ test[a].status \in {"none", "requested", "accepted", "failed", "unknown"}
           /\ test[a].key \in 0..MaxTests
           /\ test[a].revision \in 0..MaxRevision /\ test[a].next_allowed_at \in 0..MaxTime + Period
<1>1. test[a] \in TestRows
  BY DEF TypeOK
<1> QED BY <1>1 DEF TestRows

-----------------------------------------------------------------------------
(* What a step does to the rows. *)

\* The site's row: nothing, or the next revision, while nobody holds the rows,
\* by a request whose page showed the present one.
SiteMoves ==
    \/ site' = site
    \/ /\ RowsFree /\ site' \in SiteRows /\ site'.revision = site.revision + 1
       /\ site'.registration # "closed" => SMTPReady
       /\ UNCHANGED <<smtp, test, accepted, bounds>>

\* The transport's row: nothing, a new transport by the holder of the rows, or
\* the verification of the present one.
SmtpMoves ==
    \/ smtp' = smtp
    \/ /\ UNCHANGED site /\ smtp'.verified = Unverified /\ smtp'.revision = smtp.revision + 1
       /\ smtp'.transport \in Transports
       /\ \E c \in Calls : Holds(c) /\ Ends(c)
    \/ /\ UNCHANGED site /\ smtp'.verified = smtp.revision /\ smtp'.revision = smtp.revision
       /\ smtp'.transport = smtp.transport /\ smtp.revision \in accepted

\* The rows of the tests: the same reservations, or a new one with a fresh key.
TestsMove ==
    \/ /\ tests' = tests
       /\ \A a \in Administrators : test'[a].key = test[a].key /\ test'[a].revision = test[a].revision
    \/ \E b \in Administrators :
         /\ tests' = tests + 1 /\ test'[b].key = tests + 1
         /\ \A a \in Administrators \ {b} : test'[a] = test[a]

AcceptedMoves == accepted \subseteq accepted' /\ accepted' \subseteq 1..MaxRevision

\* What a request that does not move has read stays true.
LEMMA StaysTrue ==
    ASSUME Parameters, TypeOK, OneHolder, SiteMoves, SmtpMoves, TestsMove, AcceptedMoves,
           KeysAreGivenOut, NEW d \in Calls, CallIsTrue(call[d]), call'[d] = call[d]
    PROVE  CallIsTrue(call[d])'
<1>1. PICK t : t = call[d]
  OBVIOUS
<1>2. IsForm(t) => FormIsTrue(t)'
  <2> SUFFICES ASSUME IsForm(t)
               PROVE  FormIsTrue(t)'
    OBVIOUS
  <2>1. FormIsTrue(t)
    BY <1>1 DEF CallIsTrue
  <2>2. t.seen \in SiteRows
    BY <1>1, CallType DEF IsForm, ControlCalls, SiteCalls, FormCalls
  <2>3. t.seen.revision \in Nat /\ site.revision \in Nat
    BY <2>2, RowFields DEF SiteRows
  <2>4. CASE site' = site
    BY <2>1, <2>4 DEF FormIsTrue
  <2>5. CASE site'.revision = site.revision + 1
    BY <2>1, <2>3, <2>5 DEF FormIsTrue
  <2> QED BY <2>4, <2>5 DEF SiteMoves
<1>3. IsHolder(t) => HolderIsTrue'
  <2> SUFFICES ASSUME IsHolder(t)
               PROVE  HolderIsTrue'
    OBVIOUS
  <2>1. HolderIsTrue /\ Holds(d)
    BY <1>1 DEF CallIsTrue, Holds, IsHolder
  <2>2. site' = site
    BY <2>1 DEF SiteMoves, RowsFree
  <2>3. CASE smtp'.revision = smtp.revision
    BY <2>1, <2>2, <2>3 DEF HolderIsTrue
  <2>4. ~ \E c \in Calls : Holds(c) /\ Ends(c)
    <3> SUFFICES ASSUME NEW c \in Calls, Holds(c), Ends(c)
                 PROVE  FALSE
      OBVIOUS
    <3>1. c = d
      BY <2>1 DEF OneHolder
    <3>2. call'[d].kind = "free"
      BY <3>1 DEF Ends, Free, TypeOK
    <3> QED BY <1>1, <3>2 DEF IsHolder
  <2> QED BY <2>3, <2>4 DEF SmtpMoves
<1>4. t.kind = "test" => TestIsTrue(t)'
  <2> SUFFICES ASSUME t.kind = "test"
               PROVE  TestIsTrue(t)'
    OBVIOUS
  <2>1. TestIsTrue(t) /\ t.actor \in Administrators /\ t.key \in Nat /\ tests \in Nat
    BY <1>1, CallType DEF CallIsTrue, TestCalls, TypeOK
  <2>2. ReservationIsTrue(t) => ReservationIsTrue(t)'
    <3>1. CASE /\ tests' = tests
               /\ \A a \in Administrators : test'[a].key = test[a].key /\ test'[a].revision = test[a].revision
      BY <2>1, <3>1 DEF ReservationIsTrue
    <3>2. ASSUME NEW b \in Administrators, tests' = tests + 1, test'[b].key = tests + 1,
                 \A a \in Administrators \ {b} : test'[a] = test[a]
          PROVE  ReservationIsTrue(t) => ReservationIsTrue(t)'
      <4>1. t.key \in 1..tests => t.key \in 1..tests' /\ t.key # tests + 1
        BY <2>1, <3>2
      <4> QED BY <2>1, <3>2, <4>1 DEF ReservationIsTrue
    <3> QED BY <3>1, <3>2 DEF TestsMove
  <2> QED BY <2>1, <2>2 DEF TestIsTrue, AcceptedMoves
<1>5. CallIsTrue(t)'
  BY <1>2, <1>3, <1>4 DEF CallIsTrue, IsForm, IsHolder
<1>6. t = call'[d]
  BY <1>1
<1> QED BY <1>5, <1>6 DEF CallIsTrue, IsForm, FormIsTrue, IsHolder, HolderIsTrue, TestIsTrue,
     ReservationIsTrue

\* The rows that a step leaves alone.
LEMMA RowsStay ==
    ASSUME TypeOK
    PROVE  /\ site' = site => SiteMoves
           /\ smtp' = smtp => SmtpMoves
           /\ test' = test /\ tests' = tests => TestsMove
           /\ accepted' = accepted => AcceptedMoves
  BY DEF TypeOK, SiteMoves, SmtpMoves, TestsMove, AcceptedMoves

RowsMove == SiteMoves /\ SmtpMoves /\ TestsMove /\ AcceptedMoves

LEMMA UpdateRows ==
    ASSUME Parameters, IInv, NEW c \in Calls, Update(c)
    PROVE  RowsMove
<1>1. /\ UNCHANGED <<smtp, test, accepted, now, tests, interrupts>> /\ RowsFree /\ TypeOK
      /\ call[c].kind = "control"
  BY DEF Update, LockRuntimeControlSettings, IInv
<1>2. SiteMoves
  <2>1. CASE site' = site
    BY <2>1 DEF SiteMoves
  <2>2. CASE Current(c) /\ MayUpdateControl(c) /\ UpdateControlSettingsAndAudit(c)
    <3>1. call[c].wish \in Controls
      BY <1>1, CallType DEF ControlCalls, FormCalls
    <3>2. PICK m \in Modes : m = call[c].wish.registration
      BY <3>1 DEF Controls
    <3>3. PICK b \in BOOLEAN : b = call[c].wish.maintenance
      BY <3>1, Zenon DEF Controls
    <3>4. PICK n : n = site.revision + 1
      OBVIOUS
    <3>5. n \in 1..MaxRevision
      BY <1>1, <2>2, <3>4, RowFields DEF Current, Parameters
    <3>6. site' = [site EXCEPT !.registration = m, !.maintenance = b, !.revision = n]
      BY <2>2, <3>2, <3>3, <3>4 DEF UpdateControlSettingsAndAudit
    <3>7. site \in SiteRows
      BY <1>1 DEF TypeOK
    <3>8. site' \in SiteRows /\ site'.revision = n /\ site'.registration = m
      BY <3>5, <3>6, <3>7 DEF SiteRows
    <3>9. m # "closed" => SMTPReady
      BY <2>2, <3>2 DEF MayUpdateControl
    <3> QED BY <1>1, <3>4, <3>8, <3>9 DEF SiteMoves
  <2> QED BY <2>1, <2>2 DEF Update
<1> QED BY <1>1, <1>2, RowsStay DEF RowsMove

LEMMA UpdateSettingsRows ==
    ASSUME Parameters, IInv, NEW c \in Calls, UpdateSettings(c)
    PROVE  RowsMove
<1>1. /\ UNCHANGED <<smtp, test, accepted, now, tests, interrupts>> /\ RowsFree /\ TypeOK
      /\ call[c].kind = "site"
  BY DEF UpdateSettings, LockSiteSettings, IInv
<1>2. SiteMoves
  <2>1. CASE site' = site
    BY <2>1 DEF SiteMoves
  <2>2. CASE Current(c) /\ UpdateSiteSettingsAndAudit(c)
    <3>1. PICK w \in Shells : w = call[c].wish
      BY <1>1, CallType DEF SiteCalls, FormCalls
    <3>2. PICK n : n = site.revision + 1
      OBVIOUS
    <3>3. n \in 1..MaxRevision
      BY <1>1, <2>2, <3>2, RowFields DEF Current, Parameters
    <3>4. site' = [site EXCEPT !.shell = w, !.revision = n]
      BY <2>2, <3>1, <3>2 DEF UpdateSiteSettingsAndAudit
    <3>5. site \in SiteRows
      BY <1>1 DEF TypeOK
    <3>6. site' \in SiteRows /\ site'.revision = n /\ site'.registration = site.registration
      BY <3>3, <3>4, <3>5 DEF SiteRows
    <3>7. site.registration # "closed" => SMTPReady
      BY DEF IInv, OpenNeedsVerified, Ready
    <3> QED BY <1>1, <3>2, <3>6, <3>7 DEF SiteMoves
  <2> QED BY <2>1, <2>2 DEF UpdateSettings
<1> QED BY <1>1, <1>2, RowsStay DEF RowsMove

LEMMA SaveRows ==
    ASSUME Parameters, IInv, NEW c \in Calls, SaveTransport(c)
    PROVE  RowsMove
<1>1. /\ UNCHANGED <<site, test, accepted, now, tests, interrupts>> /\ Ends(c) /\ TypeOK
      /\ call[c].kind = "smtp" /\ call[c].step = "save"
  BY DEF SaveTransport, IInv
<1>2. Holds(c) /\ call[c].wish \in Transports
  BY <1>1, CallType DEF Holds, SmtpCalls
<1>3. SmtpMoves
  BY <1>1, <1>2 DEF SaveTransport, UpdateSMTPSettingsAndAudit, SmtpMoves
<1> QED BY <1>1, <1>3, RowsStay DEF RowsMove

LEMMA ReserveRows ==
    ASSUME Parameters, IInv, NEW c \in Calls, ReserveTest(c)
    PROVE  RowsMove
<1>1. /\ UNCHANGED <<site, smtp, accepted>> /\ TypeOK /\ call[c].kind = "test"
  BY DEF ReserveTest, IInv
<1>2. PICK b \in Administrators : b = call[c].actor
  BY <1>1, CallType DEF TestCalls
<1>3. tests' = tests + 1 /\ test'[b].key = tests + 1 /\ \A a \in Administrators \ {b} : test'[a] = test[a]
  BY <1>1, <1>2 DEF ReserveTest, ReserveEmailTestAndAudit, TypeOK
<1>4. TestsMove
  BY <1>3 DEF TestsMove
<1> QED BY <1>1, <1>4, RowsStay DEF RowsMove

LEMMA CompleteRows ==
    ASSUME Parameters, IInv, NEW c \in Calls, CompleteTest(c)
    PROVE  RowsMove
<1>1. /\ UNCHANGED <<site, accepted, now, tests, interrupts>> /\ TypeOK
      /\ call[c].kind = "test" /\ call[c].step = "complete"
  BY DEF CompleteTest, IInv
<1>2. TestIsTrue(call[c]) /\ call[c].actor \in Administrators
  BY <1>1, CallType DEF IInv, CallsAreTrue, CallIsTrue, TestCalls
<1>3. CASE UNCHANGED <<test, smtp>>
  BY <1>1, <1>3, RowsStay DEF RowsMove
<1>4. CASE /\ test[call[c].actor].key = call[c].key
           /\ test' = [test EXCEPT ![call[c].actor].status = call[c].status]
           /\ smtp' = IF call[c].status = "accepted" /\ test[call[c].actor].revision = smtp.revision
                           /\ smtp.transport # Disabled
                        THEN [smtp EXCEPT !.verified = smtp.revision] ELSE smtp
  <2>1. \A a \in Administrators : test'[a].key = test[a].key /\ test'[a].revision = test[a].revision
    BY <1>1, <1>4 DEF TypeOK, TestRows
  <2>2. TestsMove
    BY <1>1, <2>1 DEF TestsMove
  <2>3. SmtpMoves
    <3>1. CASE smtp' = smtp
      BY <3>1 DEF SmtpMoves
    <3>2. CASE /\ call[c].status = "accepted" /\ test[call[c].actor].revision = smtp.revision
               /\ smtp' = [smtp EXCEPT !.verified = smtp.revision]
      <4>1. smtp.revision \in accepted
        BY <1>1, <1>2, <1>4, <3>2 DEF TestIsTrue, ReservationIsTrue
      <4>2. /\ smtp'.verified = smtp.revision /\ smtp'.revision = smtp.revision
            /\ smtp'.transport = smtp.transport
        BY <1>1, <3>2 DEF TypeOK, SmtpRows
      <4> QED BY <1>1, <4>1, <4>2 DEF SmtpMoves
    <3> QED BY <1>4, <3>1, <3>2
  <2> QED BY <1>1, <2>2, <2>3, RowsStay DEF RowsMove
<1> QED BY <1>3, <1>4 DEF CompleteTest, CompleteEmailTestAndAudit

LEMMA SendRows ==
    ASSUME Parameters, IInv, NEW c \in Calls, SendTest(c)
    PROVE  RowsMove
<1>1. /\ UNCHANGED <<site, smtp, test, now, tests, interrupts>> /\ TypeOK
      /\ call[c].kind = "test" /\ call[c].step = "send"
  BY DEF SendTest, IInv
<1>2. call[c].revision \in 1..MaxRevision
  BY <1>1 DEF IInv, CallsAreTrue, CallIsTrue, TestIsTrue
<1>3. AcceptedMoves
  BY <1>1, <1>2, SMTT(30) DEF SendTest, AcceptedMoves, TypeOK
<1> QED BY <1>1, <1>3, RowsStay DEF RowsMove

LEMMA RowsStep ==
    ASSUME Parameters, IInv, [Next]_vars
    PROVE  RowsMove
<1>1. CASE UNCHANGED <<site, smtp, test, accepted, tests>>
  BY <1>1, RowsStay DEF RowsMove, IInv
<1> QED BY <1>1, UpdateRows, UpdateSettingsRows, SaveRows, ReserveRows, CompleteRows, SendRows, ZenonT(40)
        DEF Next, vars, CallStep, CheckReadiness, UpdateSMTPSettings, ConfigureEmail,
             SMTPRevision, RefuseTest,
            LoadMailer, Disconnect, Interrupt, LoadEditable, LoadEditableSite, LoadSMTPSettings,
            StartTest, LoseAuthority, Tick

-----------------------------------------------------------------------------
(* What a step does to the requests. *)

\* The request that moves, if any, and whether it holds the rows then.
Moves(c, x) == BecomesTrue(c, x) /\ (IsHolder(x) => Holds(c) \/ RowsFree)
CallsMove == UNCHANGED call \/ \E c \in Calls : \E x \in AllCalls : Moves(c, x)

LEMMA EndsMove ==
    ASSUME NEW c \in Calls, Ends(c)
    PROVE  CallsMove
<1>1. Free \in AllCalls
  BY DEF AllCalls
<1> QED BY <1>1, EndBecomes DEF CallsMove, Moves

\* A form is opened on the row of the moment.
LEMMA FormMoves ==
    ASSUME TypeOK, NEW c \in Calls, UNCHANGED site, NEW x \in ControlCalls \cup SiteCalls,
           call' = [call EXCEPT ![c] = x], x.seen = site
    PROVE  CallsMove
<1>1. IsForm(x) /\ ~IsHolder(x) /\ x.kind # "test" /\ x \in AllCalls
  BY DEF ControlCalls, SiteCalls, FormCalls, IsForm, IsHolder, AllCalls
<1>2. FormIsTrue(x)'
  BY RowFields DEF FormIsTrue
<1>3. CallIsTrue(x)'
  BY <1>1, <1>2 DEF CallIsTrue, IsForm, IsHolder
<1> QED BY <1>1, <1>3 DEF CallsMove, Moves, BecomesTrue

LEMMA LoadMoves ==
    ASSUME IInv, NEW c \in Calls, NEW a \in Administrators,
           \/ \E wish \in Controls : LoadEditable(c, a, wish)
           \/ \E wish \in Shells : LoadEditableSite(c, a, wish)
    PROVE  CallsMove
<1>1. TypeOK /\ site \in SiteRows
  BY DEF IInv, TypeOK
<1>2. ASSUME NEW wish \in Controls, LoadEditable(c, a, wish)
      PROVE  CallsMove
  <2>1. PICK x : x = [kind |-> "control", step |-> "form", actor |-> a, seen |-> site, wish |-> wish]
    OBVIOUS
  <2>2. x \in ControlCalls /\ x.seen = site
    BY <1>1, <2>1 DEF ControlCalls, FormCalls
  <2> QED BY <1>1, <1>2, <2>1, <2>2, FormMoves DEF LoadEditable, LoadEditableControlSettings
<1>3. ASSUME NEW wish \in Shells, LoadEditableSite(c, a, wish)
      PROVE  CallsMove
  <2>1. PICK x : x = [kind |-> "site", step |-> "ready", actor |-> a, seen |-> site, wish |-> wish]
    OBVIOUS
  <2>2. x \in SiteCalls /\ x.seen = site
    BY <1>1, <2>1 DEF SiteCalls, FormCalls
  <2> QED BY <1>1, <1>3, <2>1, <2>2, FormMoves DEF LoadEditableSite, LoadEditableSiteSettings
<1> QED BY <1>2, <1>3

LEMMA CheckMoves ==
    ASSUME IInv, NEW c \in Calls, CheckReadiness(c)
    PROVE  CallsMove
<1>1. TypeOK /\ UNCHANGED site /\ call[c].kind = "control" /\ CallIsTrue(call[c])
  BY DEF IInv, CheckReadiness, CallsAreTrue
<1>2. CASE Ends(c)
  BY <1>2, EndsMove
<1>3. CASE call' = [call EXCEPT ![c] = [call[c] EXCEPT !.step = "ready"]]
  <2>1. PICK x : x = [call[c] EXCEPT !.step = "ready"]
    OBVIOUS
  <2>2. x \in ControlCalls /\ x.seen = call[c].seen
    BY <1>1, <2>1, CallType DEF ControlCalls, FormCalls
  <2>3. IsForm(x) /\ ~IsHolder(x) /\ x.kind # "test" /\ x \in AllCalls
    BY <2>2 DEF ControlCalls, FormCalls, IsForm, IsHolder, AllCalls
  <2>4. FormIsTrue(x)
    BY <1>1, <2>2 DEF CallIsTrue, IsForm, FormIsTrue
  <2>5. CallIsTrue(x)'
    BY <1>1, <2>3, <2>4 DEF CallIsTrue, IsForm, IsHolder, FormIsTrue
  <2> QED BY <1>3, <2>1, <2>3, <2>5 DEF CallsMove, Moves, BecomesTrue
<1> QED BY <1>2, <1>3 DEF CheckReadiness, Ends

LEMMA LoadSMTPMoves ==
    ASSUME IInv, NEW c \in Calls, NEW a \in Administrators, NEW wish \in Transports,
           LoadSMTPSettings(c, a, wish)
    PROVE  CallsMove
<1>1. PICK x : x = [kind |-> "smtp", step |-> "form", actor |-> a, expected |-> smtp.revision, wish |-> wish]
  OBVIOUS
<1>2. x \in SmtpCalls
  BY <1>1, RowFields DEF SmtpCalls, IInv
<1>3. ~IsForm(x) /\ ~IsHolder(x) /\ x.kind # "test" /\ x \in AllCalls
  BY <1>1, <1>2 DEF IsForm, IsHolder, AllCalls
<1>4. CallIsTrue(x)'
  BY <1>3 DEF CallIsTrue, IsForm, IsHolder
<1>5. call' = [call EXCEPT ![c] = x]
  BY <1>1 DEF LoadSMTPSettings, LoadEditableSMTPSettings
<1> QED BY <1>3, <1>4, <1>5 DEF CallsMove, Moves, BecomesTrue

\* A request of the transport goes on with the rows it holds or takes.
LEMMA HolderMoves ==
    ASSUME TypeOK, NEW c \in Calls, call[c].kind = "smtp", NEW s \in {"configure", "save"},
           call' = [call EXCEPT ![c] = [call[c] EXCEPT !.step = s]],
           UNCHANGED <<site, smtp>>, HolderIsTrue, Holds(c) \/ RowsFree
    PROVE  CallsMove
<1>1. PICK x : x = [call[c] EXCEPT !.step = s]
  OBVIOUS
<1>2. x \in SmtpCalls /\ x.kind = "smtp"
  BY <1>1, CallType DEF SmtpCalls
<1>3. ~IsForm(x) /\ x.kind # "test" /\ x \in AllCalls
  BY <1>2 DEF IsForm, AllCalls
<1>4. CallIsTrue(x)'
  BY <1>3 DEF CallIsTrue, IsForm, HolderIsTrue
<1> QED BY <1>1, <1>3, <1>4 DEF CallsMove, Moves, BecomesTrue

LEMMA UpdateSMTPMoves ==
    ASSUME IInv, NEW c \in Calls, UpdateSMTPSettings(c)
    PROVE  CallsMove
<1>1. TypeOK /\ UNCHANGED <<site, smtp>> /\ call[c].kind = "smtp" /\ RowsFree
  BY DEF IInv, UpdateSMTPSettings, LockRuntimeControlSettings
<1>2. CASE Ends(c)
  BY <1>2, EndsMove
<1>3. CASE MayUpdateTransport(c) /\ call' = [call EXCEPT ![c] = [call[c] EXCEPT !.step = "configure"]]
  <2>1. HolderIsTrue
    BY <1>3 DEF MayUpdateTransport, HolderIsTrue
  <2> QED BY <1>1, <1>3, <2>1, HolderMoves
<1> QED BY <1>2, <1>3 DEF UpdateSMTPSettings, Ends

LEMMA ConfigureMoves ==
    ASSUME IInv, NEW c \in Calls, ConfigureEmail(c)
    PROVE  CallsMove
<1>1. TypeOK /\ UNCHANGED <<site, smtp>> /\ call[c].kind = "smtp" /\ Holds(c)
  BY DEF IInv, ConfigureEmail, Holds
<1>2. CASE Ends(c)
  BY <1>2, EndsMove
<1>3. CASE call' = [call EXCEPT ![c].step = "save"]
  <2>1. HolderIsTrue
    BY <1>1 DEF IInv, CallsAreTrue, CallIsTrue, IsHolder, Holds
  <2>2. call' = [call EXCEPT ![c] = [call[c] EXCEPT !.step = "save"]]
    BY <1>3
  <2> QED BY <1>1, <2>1, <2>2, HolderMoves
<1> QED BY <1>2, <1>3 DEF ConfigureEmail

\* A test goes on: what it knows of its reservation is true.
LEMMA TestMoves ==
    ASSUME NEW c \in Calls, NEW x \in TestCalls, call' = [call EXCEPT ![c] = x], TestIsTrue(x)'
    PROVE  CallsMove
<1>1. ~IsForm(x) /\ ~IsHolder(x) /\ x \in AllCalls
  BY DEF TestCalls, IsForm, IsHolder, AllCalls
<1>2. CallIsTrue(x)'
  BY <1>1 DEF CallIsTrue, IsForm, IsHolder
<1> QED BY <1>1, <1>2 DEF CallsMove, Moves, BecomesTrue

LEMMA TestCallFields ==
    ASSUME IInv, NEW c \in Calls, call[c].kind = "test"
    PROVE  /\ call[c] \in TestCalls /\ TestIsTrue(call[c]) /\ call[c].actor \in Administrators
           /\ call[c].key \in 0..MaxTests /\ call[c].revision \in 0..MaxRevision
<1>1. call[c] \in TestCalls
  BY CallType DEF IInv
<1> QED BY <1>1 DEF IInv, CallsAreTrue, CallIsTrue, TestCalls

LEMMA StartTestMoves ==
    ASSUME Parameters, IInv, NEW c \in Calls, NEW a \in Administrators, StartTest(c, a)
    PROVE  CallsMove
<1>1. PICK x : x = [kind |-> "test", step |-> "begin", actor |-> a, revision |-> 0, key |-> 0,
                    status |-> "unknown", requestedAt |-> now, connected |-> TRUE]
  OBVIOUS
<1>2. now \in 0..MaxTime /\ 0 \in 0..MaxRevision /\ 0 \in 0..MaxTests
  BY DEF IInv, TypeOK, Parameters
<1>3. x \in TestCalls /\ x.step = "begin"
  BY <1>1, <1>2 DEF TestCalls
<1>4. TestIsTrue(x)'
  BY <1>3 DEF TestIsTrue
<1>5. call' = [call EXCEPT ![c] = x]
  BY <1>1 DEF StartTest
<1> QED BY <1>3, <1>4, <1>5, TestMoves

LEMMA RevisionMoves ==
    ASSUME Parameters, IInv, NEW c \in Calls, SMTPRevision(c)
    PROVE  CallsMove
<1>1. CASE Ends(c)
  BY <1>1, EndsMove
<1>2. CASE call' = [call EXCEPT ![c] = [call[c] EXCEPT !.step = "reserve", !.revision = smtp.revision]]
  <2>1. PICK n : n = smtp.revision
    OBVIOUS
  <2>2. n \in 1..MaxRevision /\ n \in 0..MaxRevision /\ call[c] \in TestCalls
    BY <2>1, RowFields, TestCallFields DEF IInv, SMTPRevision, Parameters
  <2>3. PICK x : x = [call[c] EXCEPT !.step = "reserve", !.revision = n]
    OBVIOUS
  <2>4. x \in TestCalls /\ x.step = "reserve" /\ x.revision = n
    BY <2>2, <2>3 DEF TestCalls
  <2>5. TestIsTrue(x)'
    BY <2>2, <2>4 DEF TestIsTrue
  <2> QED BY <1>2, <2>1, <2>3, <2>4, <2>5, TestMoves
<1> QED BY <1>1, <1>2 DEF SMTPRevision, Ends

\* The reservation has the key and the revision of the request.
LEMMA ReserveMoves ==
    ASSUME Parameters, IInv, NEW c \in Calls, ReserveTest(c)
    PROVE  CallsMove
<1>1. /\ call[c].kind = "test" /\ call[c].step = "reserve" /\ tests < MaxTests /\ tests' = tests + 1
      /\ test' = [test EXCEPT ![call[c].actor] =
                    [status |-> "requested", key |-> tests + 1, revision |-> call[c].revision,
                     next_allowed_at |-> call[c].requestedAt + Period]]
      /\ call' = [call EXCEPT ![c].step = "load", ![c].key = tests + 1] /\ UNCHANGED accepted
      /\ TypeOK
  BY DEF ReserveTest, ReserveEmailTestAndAudit, IInv
<1>2. call[c] \in TestCalls /\ TestIsTrue(call[c]) /\ call[c].actor \in Administrators
  BY <1>1, TestCallFields
<1>3. PICK n : n = tests + 1
  OBVIOUS
<1>4. n \in 1..tests' /\ n \in 0..MaxTests
  BY <1>1, <1>3 DEF TypeOK, Parameters
<1>5. PICK x : x = [call[c] EXCEPT !.step = "load", !.key = n]
  OBVIOUS
<1>6. /\ x \in TestCalls /\ x.step = "load" /\ x.key = n /\ x.actor = call[c].actor
      /\ x.revision = call[c].revision
  BY <1>2, <1>4, <1>5 DEF TestCalls
<1>7. test'[x.actor].revision = x.revision
  BY <1>1, <1>2, <1>6 DEF TypeOK
<1>8. TestIsTrue(x)'
  BY <1>1, <1>2, <1>4, <1>6, <1>7 DEF TestIsTrue, ReservationIsTrue
<1>9. call' = [call EXCEPT ![c] = x]
  BY <1>1, <1>3, <1>5
<1> QED BY <1>6, <1>8, <1>9, TestMoves

LEMMA LoadMailerMoves ==
    ASSUME Parameters, IInv, NEW c \in Calls, LoadMailer(c)
    PROVE  CallsMove
<1>1. /\ call[c].kind = "test" /\ call[c].step = "load" /\ UNCHANGED <<test, tests, accepted>>
  BY DEF LoadMailer
<1>2. call[c] \in TestCalls /\ TestIsTrue(call[c])
  BY <1>1, TestCallFields
<1>4. ASSUME NEW x, \/ x = [call[c] EXCEPT !.step = "send"]
                    \/ x = [call[c] EXCEPT !.step = "complete", !.status = "failed"],
             call' = [call EXCEPT ![c] = x]
      PROVE  CallsMove
  <2>1. /\ x \in TestCalls /\ x.actor = call[c].actor /\ x.key = call[c].key
        /\ x.revision = call[c].revision
        /\ x.step = "send" \/ (x.step = "complete" /\ x.status = "failed")
    BY <1>2, <1>4 DEF TestCalls
  <2>2. TestIsTrue(x)
    BY <1>1, <1>2, <2>1 DEF TestIsTrue, ReservationIsTrue
  <2>3. TestIsTrue(x)'
    BY <1>1, <2>2 DEF TestIsTrue, ReservationIsTrue
  <2> QED BY <1>4, <2>1, <2>3, TestMoves
<1> QED BY <1>4 DEF LoadMailer

LEMMA SendMoves ==
    ASSUME Parameters, IInv, NEW c \in Calls, SendTest(c)
    PROVE  CallsMove
<1>1. /\ call[c].kind = "test" /\ call[c].step = "send" /\ UNCHANGED <<test, tests>>
  BY DEF SendTest
<1>2. call[c] \in TestCalls /\ TestIsTrue(call[c])
  BY <1>1, TestCallFields
<1>3. PICK s \in {"accepted", "failed", "unknown"} :
        /\ call' = [call EXCEPT ![c].step = "complete", ![c].status = s]
        /\ accepted' = IF s = "accepted" THEN accepted \cup {call[c].revision} ELSE accepted
  BY DEF SendTest
<1>4. PICK x : x = [call[c] EXCEPT !.step = "complete", !.status = s]
  OBVIOUS
<1>5. /\ x \in TestCalls /\ x.actor = call[c].actor /\ x.key = call[c].key
      /\ x.revision = call[c].revision /\ x.step = "complete" /\ x.status = s
  BY <1>2, <1>4 DEF TestCalls
<1>6. s = "accepted" => x.revision \in accepted'
  BY <1>3, <1>5
<1>7. TestIsTrue(x)'
  BY <1>1, <1>2, <1>5, <1>6 DEF TestIsTrue, ReservationIsTrue
<1>8. call' = [call EXCEPT ![c] = x]
  BY <1>3, <1>4
<1> QED BY <1>5, <1>7, <1>8, TestMoves

LEMMA DisconnectMoves ==
    ASSUME Parameters, IInv, NEW c \in Calls, Disconnect(c)
    PROVE  CallsMove
<1>1. /\ call[c].kind = "test" /\ UNCHANGED <<test, tests, accepted>>
      /\ call' = [call EXCEPT ![c].connected = FALSE]
  BY DEF Disconnect
<1>2. call[c] \in TestCalls /\ TestIsTrue(call[c])
  BY <1>1, TestCallFields
<1>3. PICK x : x = [call[c] EXCEPT !.connected = FALSE]
  OBVIOUS
<1>4. /\ x \in TestCalls /\ x.actor = call[c].actor /\ x.key = call[c].key
      /\ x.revision = call[c].revision /\ x.step = call[c].step /\ x.status = call[c].status
  BY <1>2, <1>3 DEF TestCalls
<1>5. TestIsTrue(x)'
  BY <1>1, <1>2, <1>4 DEF TestIsTrue, ReservationIsTrue
<1>6. call' = [call EXCEPT ![c] = x]
  BY <1>1, <1>3
<1> QED BY <1>4, <1>5, <1>6, TestMoves

LEMMA CallsStep ==
    ASSUME Parameters, IInv, [Next]_vars
    PROVE  CallsMove
<1>1. CASE UNCHANGED call
  BY <1>1 DEF CallsMove
<1>2. ASSUME NEW c \in Calls, \/ Update(c) \/ UpdateSettings(c) \/ SaveTransport(c) \/ RefuseTest(c)
                              \/ CompleteTest(c) \/ Interrupt(c)
      PROVE  CallsMove
  BY <1>2, EndsMove DEF Update, UpdateSettings, SaveTransport, RefuseTest, CompleteTest, Interrupt
<1>3. ASSUME NEW c \in Calls, CallStep(c)
      PROVE  CallsMove
  BY <1>2, <1>3, CheckMoves, UpdateSMTPMoves, ConfigureMoves, RevisionMoves, ReserveMoves,
       LoadMailerMoves,
     SendMoves DEF CallStep
<1>4. ASSUME NEW c \in Calls, NEW a \in Administrators,
             \/ \E wish \in Controls : LoadEditable(c, a, wish)
             \/ \E wish \in Shells : LoadEditableSite(c, a, wish)
             \/ \E wish \in Transports : LoadSMTPSettings(c, a, wish)
             \/ StartTest(c, a)
      PROVE  CallsMove
  BY <1>4, LoadMoves, LoadSMTPMoves, StartTestMoves
<1>5. (\E a \in Administrators : LoseAuthority(a)) \/ Tick => CallsMove
  BY DEF CallsMove, LoseAuthority, Tick
<1> QED BY <1>1, <1>2, <1>3, <1>4, <1>5, DisconnectMoves DEF Next, vars

-----------------------------------------------------------------------------
(* ControlPlane: every step keeps the invariant. *)

LEMMA TrueStep ==
    ASSUME Parameters, IInv, [Next]_vars
    PROVE  CallsAreTrue' /\ OneHolder' /\ call' \in [Calls -> AllCalls]
<1>1. RowsMove /\ CallsMove /\ TypeOK /\ CallsAreTrue /\ OneHolder /\ KeysAreGivenOut
  BY RowsStep, CallsStep DEF IInv
<1>2. \A d \in Calls : call'[d] = call[d] => CallIsTrue(call[d])'
  BY <1>1, StaysTrue DEF RowsMove, CallsAreTrue
<1>3. CASE UNCHANGED call
  BY <1>1, <1>2, <1>3 DEF CallsAreTrue, OneHolder, Holds, TypeOK, AllCalls, ControlCalls,
       SiteCalls
<1>4. ASSUME NEW c \in Calls, NEW x \in AllCalls, Moves(c, x)
      PROVE  CallsAreTrue' /\ OneHolder' /\ call' \in [Calls -> AllCalls]
  <2>1. /\ call' \in [Calls -> AllCalls]
        /\ call'[c] = x /\ \A d \in Calls \ {c} : call'[d] = call[d]
    BY <1>1, <1>4, CallReplaced DEF Moves, BecomesTrue
  <2>2. CallIsTrue(call[c])'
    BY <1>4, <2>1 DEF Moves, BecomesTrue, CallIsTrue, IsForm, FormIsTrue, IsHolder,
         HolderIsTrue, TestIsTrue,
          ReservationIsTrue
  <2>3. CallsAreTrue'
    BY <1>2, <2>1, <2>2 DEF CallsAreTrue
  <2>4. \A d \in Calls \ {c} : Holds(d)' <=> Holds(d)
    BY <2>1 DEF Holds
  <2>5. Holds(c)' => Holds(c) \/ RowsFree
    BY <1>4, <2>1 DEF Moves, Holds, IsHolder
  <2>6. OneHolder'
    BY <1>1, <2>4, <2>5, SMTT(30) DEF OneHolder, RowsFree
  <2> QED BY <2>1, <2>3, <2>6
<1> QED BY <1>1, <1>3, <1>4 DEF CallsMove

LEMMA SmtpTypeStep ==
    ASSUME Parameters, IInv, [Next]_vars
    PROVE  smtp' \in SmtpRows /\ remote' \in Transports \cup {Disabled}
<1>1. TypeOK /\ smtp \in SmtpRows /\ remote \in Transports \cup {Disabled}
  BY DEF IInv, TypeOK
<1>2. ASSUME NEW c \in Calls, SaveTransport(c)
      PROVE  smtp' \in SmtpRows /\ remote' = remote
  <2>1. call[c] \in SmtpCalls /\ HolderIsTrue
    BY <1>2, CallType DEF SaveTransport, IInv, CallsAreTrue, CallIsTrue, IsHolder
  <2>2. smtp.revision + 1 \in 1..MaxRevision /\ 0 \in 0..MaxRevision
    BY <1>1, <2>1, RowFields DEF HolderIsTrue, Parameters
  <2> QED BY <1>2, <2>1, <2>2 DEF SaveTransport, UpdateSMTPSettingsAndAudit, SmtpCalls, SmtpRows
<1>3. ASSUME NEW c \in Calls, CompleteTest(c)
      PROVE  smtp' \in SmtpRows /\ remote' = remote
  <2>1. PICK n : n = smtp.revision
    OBVIOUS
  <2>2. n \in 0..MaxRevision
    BY <1>1, <2>1, RowFields DEF Parameters
  <2>3. smtp' = smtp \/ smtp' = [smtp EXCEPT !.verified = n]
    BY <1>3, <2>1 DEF CompleteTest, CompleteEmailTestAndAudit
  <2> QED BY <1>1, <1>3, <2>2, <2>3 DEF CompleteTest, SmtpRows
<1>4. ASSUME NEW c \in Calls, ConfigureEmail(c)
      PROVE  smtp' = smtp /\ remote' \in Transports \cup {Disabled}
  BY <1>1, <1>4, CallType DEF ConfigureEmail, SmtpCalls
<1> QED BY <1>1, <1>2, <1>3, <1>4, ZenonT(40)
        DEF Next, vars, CallStep, CheckReadiness, Update, UpdateSettings, UpdateSMTPSettings,
             SMTPRevision,
            ReserveTest, RefuseTest, LoadMailer, SendTest, Disconnect, Interrupt, LoadEditable,
            LoadEditableSite, LoadSMTPSettings, StartTest, LoseAuthority, Tick

LEMMA TestTypeStep ==
    ASSUME Parameters, IInv, [Next]_vars
    PROVE  test' \in [Administrators -> TestRows] /\ tests' \in 0..MaxTests
<1>1. TypeOK /\ test \in [Administrators -> TestRows] /\ tests \in 0..MaxTests
  BY DEF IInv, TypeOK
<1>2. ASSUME NEW c \in Calls, ReserveTest(c)
      PROVE  test' \in [Administrators -> TestRows] /\ tests' \in 0..MaxTests
  <2>1. call[c] \in TestCalls /\ tests < MaxTests
    BY <1>2, TestCallFields DEF ReserveTest
  <2>2. /\ tests + 1 \in 0..MaxTests /\ call[c].revision \in 0..MaxRevision
        /\ call[c].requestedAt + Period \in 0..MaxTime + Period
    BY <1>1, <2>1 DEF TestCalls, Parameters
  <2>3. [status |-> "requested", key |-> tests + 1, revision |-> call[c].revision,
         next_allowed_at |-> call[c].requestedAt + Period] \in TestRows
    BY <2>2 DEF TestRows
  <2> QED BY <1>1, <1>2, <2>2, <2>3 DEF ReserveTest, ReserveEmailTestAndAudit
<1>3. ASSUME NEW c \in Calls, CompleteTest(c)
      PROVE  test' \in [Administrators -> TestRows] /\ tests' = tests
  <2>1. call[c] \in TestCalls
    BY <1>3, TestCallFields DEF CompleteTest
  <2>2. PICK s \in {"unknown", "failed", "accepted"} : s = call[c].status
    BY <2>1 DEF TestCalls
  <2>3. test' = test \/ test' = [test EXCEPT ![call[c].actor].status = s]
    BY <1>3, <2>2 DEF CompleteTest, CompleteEmailTestAndAudit
  <2>4. ASSUME NEW a \in Administrators
        PROVE  [test[a] EXCEPT !.status = s] \in TestRows
    BY <1>1 DEF TestRows
  <2>5. call[c].actor \in Administrators
    BY <2>1 DEF TestCalls
  <2>6. [test EXCEPT ![call[c].actor].status = s]
          = [test EXCEPT ![call[c].actor] = [test[call[c].actor] EXCEPT !.status = s]]
    OBVIOUS
  <2> QED BY <1>1, <1>3, <2>3, <2>4, <2>5, <2>6 DEF CompleteTest
<1> QED BY <1>1, <1>2, <1>3, ZenonT(40)
        DEF Next, vars, CallStep, CheckReadiness, Update, UpdateSettings, UpdateSMTPSettings,
             ConfigureEmail,
            SaveTransport, SMTPRevision, RefuseTest, LoadMailer, SendTest, Disconnect, Interrupt,
            LoadEditable, LoadEditableSite, LoadSMTPSettings, StartTest, LoseAuthority, Tick

LEMMA BoundsTypeStep ==
    ASSUME Parameters, TypeOK, [Next]_vars
    PROVE  authorized' \subseteq Administrators /\ now' \in 0..MaxTime /\ interrupts' \in 0..MaxInterrupts
<1>1. /\ authorized' \subseteq authorized
      /\ now' = now \/ (now < MaxTime /\ now' = now + 1)
      /\ interrupts' = interrupts \/ (interrupts < MaxInterrupts /\ interrupts' = interrupts + 1)
  BY ZenonT(40) DEF Next, vars, CallStep, CheckReadiness, Update, UpdateSettings, UpdateSMTPSettings,
       ConfigureEmail,
         SaveTransport, SMTPRevision, ReserveTest, RefuseTest, LoadMailer, SendTest, CompleteTest,
         Disconnect, Interrupt, LoadEditable, LoadEditableSite, LoadSMTPSettings, StartTest,
         LoseAuthority, Tick
<1>2. authorized \subseteq Administrators /\ now \in 0..MaxTime /\ interrupts \in 0..MaxInterrupts
  BY DEF TypeOK
<1>3. now' \in 0..MaxTime
  BY <1>1, <1>2 DEF Parameters
<1>4. interrupts' \in 0..MaxInterrupts
  BY <1>1, <1>2 DEF Parameters
<1> QED BY <1>1, <1>2, <1>3, <1>4, SMTT(30)

LEMMA StepHolds ==
    ASSUME Parameters, IInv, [Next]_vars
    PROVE  IInv'
<1>1. RowsMove /\ TypeOK
  BY RowsStep DEF IInv
<1>2. CallsAreTrue' /\ OneHolder' /\ call' \in [Calls -> AllCalls]
  BY TrueStep
<1>3. TypeOK'
  <2>1. site' \in SiteRows
    BY <1>1 DEF RowsMove, SiteMoves, TypeOK
  <2>2. accepted' \subseteq 1..MaxRevision
    BY <1>1 DEF RowsMove, AcceptedMoves
  <2>3. smtp' \in SmtpRows /\ remote' \in Transports \cup {Disabled}
    BY SmtpTypeStep
  <2>4. test' \in [Administrators -> TestRows] /\ tests' \in 0..MaxTests
    BY TestTypeStep
  <2>5. authorized' \subseteq Administrators /\ now' \in 0..MaxTime /\ interrupts' \in 0..MaxInterrupts
    BY <1>1, BoundsTypeStep
  <2> QED BY <1>2, <2>1, <2>2, <2>3, <2>4, <2>5 DEF TypeOK, AllCalls, ControlCalls, SiteCalls
<1>4. KeysAreGivenOut'
  <2>1. \A a \in Administrators : test[a].key \in Nat /\ test[a].key <= tests /\ tests \in Nat
    BY <1>1, TestFields DEF IInv, KeysAreGivenOut, TypeOK
  <2>2. CASE /\ tests' = tests
             /\ \A a \in Administrators : test'[a].key = test[a].key /\ test'[a].revision = test[a].revision
    BY <2>1, <2>2 DEF KeysAreGivenOut
  <2>3. ASSUME NEW b \in Administrators, tests' = tests + 1, test'[b].key = tests + 1,
               \A a \in Administrators \ {b} : test'[a] = test[a]
        PROVE  KeysAreGivenOut'
    BY <2>1, <2>3 DEF KeysAreGivenOut
  <2> QED BY <1>1, <2>2, <2>3 DEF RowsMove, TestsMove
<1>5. OpenNeedsVerified'
  <2>1. CASE site' = site /\ smtp' = smtp
    BY <2>1 DEF IInv, OpenNeedsVerified, Ready, SMTPReady
  <2>2. CASE (site'.registration # "closed" => SMTPReady) /\ smtp' = smtp
    BY <2>2 DEF OpenNeedsVerified, Ready, SMTPReady
  <2>3. ASSUME NEW c \in Calls, Holds(c), UNCHANGED site
        PROVE  OpenNeedsVerified'
    BY <2>3 DEF IInv, CallsAreTrue, CallIsTrue, IsHolder, Holds, HolderIsTrue,
         OpenNeedsVerified, Ready
  <2>4. CASE UNCHANGED site /\ smtp'.verified = smtp.revision /\ smtp'.revision = smtp.revision
             /\ smtp'.transport = smtp.transport
    BY <2>4 DEF IInv, OpenNeedsVerified, Ready, SMTPReady
  <2> QED BY <1>1, <2>1, <2>2, <2>3, <2>4 DEF RowsMove, SiteMoves, SmtpMoves
<1>6. VerifiedWasAccepted'
  BY <1>1 DEF IInv, VerifiedWasAccepted, RowsMove, SmtpMoves, AcceptedMoves
<1> QED BY <1>2, <1>3, <1>4, <1>5, <1>6 DEF IInv

LEMMA InitHolds ==
    ASSUME Parameters, Init
    PROVE  IInv
<1>1. site \in SiteRows /\ site.registration = "closed"
  BY DEF Init, Parameters, SiteRows, Modes
<1>2. smtp \in SmtpRows /\ smtp.verified = 0
  BY DEF Init, Parameters, SmtpRows
<1>3. test \in [Administrators -> TestRows] /\ \A a \in Administrators : test[a].key = 0
  <2>1. 0 \in 0..MaxTests /\ 0 \in 0..MaxRevision /\ 0 \in 0..MaxTime + Period
    BY DEF Parameters
  <2>2. [status |-> "none", key |-> 0, revision |-> 0, next_allowed_at |-> 0] \in TestRows
    BY <2>1 DEF TestRows
  <2> QED BY <2>2 DEF Init
<1>4. \A c \in Calls : call[c] = Free /\ call[c].kind = "free"
  BY DEF Init, Free
<1>5. call \in [Calls -> {Free} \cup FormCalls({"control"}, Controls)
                          \cup FormCalls({"site"}, Shells) \cup SmtpCalls \cup TestCalls]
  BY DEF Init
<1>6. TypeOK
  BY <1>1, <1>2, <1>3, <1>5 DEF Init, TypeOK, Parameters
<1>7. CallsAreTrue /\ OneHolder
  BY <1>4 DEF CallsAreTrue, CallIsTrue, IsForm, IsHolder, OneHolder, Holds
<1>8. KeysAreGivenOut
  BY <1>3 DEF Init, KeysAreGivenOut
<1>9. OpenNeedsVerified /\ VerifiedWasAccepted
  BY <1>1, <1>2 DEF OpenNeedsVerified, Ready, VerifiedWasAccepted
<1> QED BY <1>6, <1>7, <1>8, <1>9 DEF IInv

-----------------------------------------------------------------------------
(* ControlPlane: the theorems. *)

LEMMA Invariantly ==
    ASSUME Parameters
    PROVE  Init /\ [][Next]_vars => []IInv
<1>1. Init => IInv
  BY InitHolds
<1>2. IInv /\ [Next]_vars => IInv'
  BY StepHolds
<1> QED BY <1>1, <1>2, PTL

\* The rows, the tests and the requests are what their types say.
THEOREM ControlPlaneTypes ==
    ASSUME Parameters
    PROVE  Init /\ [][Next]_vars => []TypeOK
<1>1. IInv => TypeOK
  BY DEF IInv
<1> QED BY <1>1, Invariantly, PTL

\* Registration is open only on a transport of which the present revision is
\* verified, and a revision is verified only if a message sent with it was
\* accepted, in whatever order forms, changes of the transport and tests commit.
THEOREM MailIsVerifiedAlways ==
    ASSUME Parameters
    PROVE  Spec => []MailIsVerified
<1>1. IInv => MailIsVerified
  BY DEF IInv, MailIsVerified
<1> QED BY <1>1, Invariantly, PTL DEF Spec

\* A form commits only on the row its page showed and for an administrator who
\* still is one; the outcome of a test is recorded once, by its own request.
THEOREM SettingsAreCurrentAlways ==
    ASSUME Parameters
    PROVE  Spec => SettingsAreCurrent
<1>1. ASSUME IInv, [Next]_vars, site' # site
      PROVE  \E c \in Calls : call[c].kind \in {"control", "site"} /\ call[c].seen = site
                              /\ call[c].actor \in authorized
  <2>1. PICK c \in Calls : Update(c) \/ UpdateSettings(c)
    BY <1>1, ZenonT(40)
       DEF Next, vars, CallStep, CheckReadiness, UpdateSMTPSettings, ConfigureEmail,
            SaveTransport,
           SMTPRevision, ReserveTest, RefuseTest, LoadMailer, SendTest, CompleteTest, Disconnect,
           Interrupt, LoadEditable, LoadEditableSite, LoadSMTPSettings, StartTest, LoseAuthority, Tick
  <2>2. /\ call[c].kind \in {"control", "site"} /\ site.revision = call[c].seen.revision
        /\ call[c].actor \in authorized
    BY <1>1, <2>1 DEF Update, UpdateSettings, Current, MayUpdateControl,
         LockControlSettingsAdministrator
  <2>3. FormIsTrue(call[c])
    BY <1>1, <2>2 DEF IInv, CallsAreTrue, CallIsTrue, IsForm
  <2> QED BY <2>2, <2>3, SMTT(30) DEF FormIsTrue
<1>2. ASSUME IInv, [Next]_vars, NEW a \in Administrators,
             test'[a].status # test[a].status, test'[a].status # "requested"
      PROVE  /\ test[a].status = "requested"
             /\ \E c \in Calls : call[c].kind = "test" /\ call[c].key = test[a].key /\ call[c].actor = a
  <2>1. PICK c \in Calls : ReserveTest(c) \/ CompleteTest(c)
    BY <1>2, ZenonT(40)
       DEF Next, vars, CallStep, CheckReadiness, Update, UpdateSettings, UpdateSMTPSettings,
            ConfigureEmail,
           SaveTransport, SMTPRevision, RefuseTest, LoadMailer, SendTest, Disconnect,
           Interrupt, LoadEditable, LoadEditableSite, LoadSMTPSettings, StartTest, LoseAuthority, Tick
  <2>2. test \in [Administrators -> TestRows]
    BY <1>2 DEF IInv, TypeOK
  <2>3. ~ReserveTest(c)
    BY <1>2, <2>2 DEF ReserveTest, ReserveEmailTestAndAudit
  <2>4. /\ call[c].kind = "test" /\ test[call[c].actor].status = "requested"
        /\ test[call[c].actor].key = call[c].key
        /\ test' = [test EXCEPT ![call[c].actor].status = call[c].status]
    BY <1>2, <2>1, <2>3 DEF CompleteTest, CompleteEmailTestAndAudit
  <2>5. call[c].actor = a
    BY <1>2, <2>2, <2>4
  <2> QED BY <2>4, <2>5
<1>3. IInv /\ [Next]_vars =>
        [site' # site =>
           \E c \in Calls : call[c].kind \in {"control", "site"} /\ call[c].seen = site
                            /\ call[c].actor \in authorized]_vars
  BY <1>1
<1>4. IInv /\ [Next]_vars =>
        [\A a \in Administrators : test'[a].status # test[a].status /\ test'[a].status # "requested" =>
           /\ test[a].status = "requested"
           /\ \E c \in Calls : call[c].kind = "test" /\ call[c].key = test[a].key /\ call[c].actor = a]_vars
  BY <1>2
<1>5. Spec => FormsAreFresh
  BY <1>3, Invariantly, PTL DEF Spec, FormsAreFresh
<1>6. Spec => OutcomeIsOfItsTest
  BY <1>4, Invariantly, PTL DEF Spec, OutcomeIsOfItsTest
<1> QED BY <1>5, <1>6 DEF SettingsAreCurrent

\* A release is a sequence of files; nobody is no run.
SchemaParameters == Releases # {} /\ Releases \subseteq Seq(Schema!Files) /\ None \notin Slots /\ MaxFaults \in Nat

-----------------------------------------------------------------------------
(* SchemaMigration: the inductive invariant. *)

Runs ==
    [step : Schema!Steps, release : Releases, pending : Seq(Schema!Files), result : {"none", "failed", "applied"}]
Locked == {"ensure", "read", "apply", "verify", "unlock"}

\* Who is past the lock and before the unlock holds the lock.
LockHeld == \A r \in Slots : run[r].step \in Locked => lock = r

\* What a run holds and reports.
RunIsTrue(x) ==
    /\ x.step = "apply" => x.pending # <<>> /\ fileLedger \o x.pending = x.release
    /\ x.result = "applied" => Schema!IsPrefix(x.release, fileLedger)
RunsAreTrue == \A r \in Slots : RunIsTrue(run[r])
ServingIsTrue == \A release \in ready : Schema!IsPrefix(release, fileLedger)

SchemaInv == Schema!TypeOK /\ LockHeld /\ Schema!LedgerIsTheSchema /\ RunsAreTrue /\ ServingIsTrue

-----------------------------------------------------------------------------
(* Sequences. *)

\* The first element and the rest.
LEMMA HeadAndTail ==
    ASSUME NEW S, NEW p \in Seq(S), p # <<>>
    PROVE  <<Head(p)>> \o Tail(p) = p
<1>1. Len(p) \in Nat /\ Len(p) >= 1 /\ 1 \in 1..Len(p) /\ Len(p) \in 1..Len(p)
  OBVIOUS
<1>2. SubSeq(p, 1, Len(p)) = <<p[1]>> \o SubSeq(p, 2, Len(p))
  BY <1>1, SubSeqRecursiveFirst
<1>3. SubSeq(p, 1, Len(p)) = p /\ Tail(p) = SubSeq(p, 2, Len(p)) /\ Head(p) = p[1]
  BY SubSeqFull, TailIsSubSeq
<1> QED BY <1>2, <1>3

\* One element moves from the rest to what was done.
LEMMA OneMoves ==
    ASSUME NEW S, NEW s \in Seq(S), NEW p \in Seq(S), p # <<>>
    PROVE  /\ Head(p) \in S /\ Tail(p) \in Seq(S) /\ Len(Tail(p)) = Len(p) - 1
           /\ Append(s, Head(p)) \in Seq(S)
           /\ Append(s, Head(p)) \o Tail(p) = s \o p
<1>1. Head(p) \in S /\ Tail(p) \in Seq(S) /\ Len(Tail(p)) = Len(p) - 1
  BY HeadTailProperties
<1>2. Append(s, Head(p)) = s \o <<Head(p)>> /\ Append(s, Head(p)) \in Seq(S) /\ <<Head(p)>> \in Seq(S)
  BY <1>1, AppendIsConcat, AppendProperties
<1>3. (s \o <<Head(p)>>) \o Tail(p) = s \o (<<Head(p)>> \o Tail(p))
  BY <1>1, <1>2, ConcatAssociative
<1> QED BY <1>1, <1>2, <1>3, HeadAndTail

\* What was done is the beginning of the whole.
LEMMA FrontOfConcat ==
    ASSUME NEW S, NEW s \in Seq(S), NEW t \in Seq(S)
    PROVE  SubSeq(s \o t, 1, Len(s)) = s
<1>1. CASE s = <<>>
  BY <1>1, SubSeqEmpty
<1>2. CASE s # <<>>
  <2>1. 1 \in 1..Len(s) /\ Len(s) \in 1..Len(s)
    BY <1>2
  <2>2. SubSeq(s \o t, 1, Len(s)) = SubSeq(s, 1, Len(s))
    BY <2>1, SubSeqOfConcat1
  <2> QED BY <2>2, SubSeqFull
<1> QED BY <1>1, <1>2

\* A prefix stays one when an element is appended.
LEMMA PrefixStays ==
    ASSUME NEW S, NEW s \in Seq(S), NEW t \in Seq(S), NEW e \in S, Schema!IsPrefix(s, t)
    PROVE  Schema!IsPrefix(s, Append(t, e))
<1>1. Len(s) <= Len(t) /\ SubSeq(s, 1, Len(s)) = SubSeq(t, 1, Len(s)) /\ Len(s) \in Nat /\ Len(t) \in Nat
  BY DEF Schema!IsPrefix
<1>2. Append(t, e) = t \o <<e>> /\ Len(Append(t, e)) = Len(t) + 1 /\ <<e>> \in Seq(S)
  BY AppendIsConcat, AppendProperties
<1>3. SubSeq(t \o <<e>>, 1, Len(s)) = SubSeq(t, 1, Len(s))
  <2>1. CASE Len(s) = 0
    BY <2>1, SubSeqEmpty
  <2>2. CASE Len(s) # 0
    <3>1. 1 \in 1..Len(t) /\ Len(s) \in 1..Len(t)
      BY <1>1, <2>2
    <3> QED BY <1>2, <3>1, SubSeqOfConcat1
  <2> QED BY <2>1, <2>2
<1> QED BY <1>1, <1>2, <1>3 DEF Schema!IsPrefix

LEMMA PrefixOfItself ==
    ASSUME NEW S, NEW s \in Seq(S)
    PROVE  Schema!IsPrefix(s, s)
  BY DEF Schema!IsPrefix

-----------------------------------------------------------------------------
(* The comparison of the ledger with a release. *)

LEMMA InHistories ==
    ASSUME NEW release \in Releases, NEW n \in 0..Len(release)
    PROVE  SubSeq(release, 1, n) \in Schema!Histories
<1>1. SubSeq(release, 1, n) \in {SubSeq(release, 1, m) : m \in 0..Len(release)}
  OBVIOUS
<1> QED BY <1>1, Zenon DEF Schema!Histories

LEMMA HistoryIsSeq ==
    ASSUME SchemaParameters, NEW h \in Schema!Histories
    PROVE  h \in Seq(Schema!Files)
<1>1. PICK release \in Releases : \E n \in 0..Len(release) : h = SubSeq(release, 1, n)
  BY DEF Schema!Histories
<1>2. PICK n \in 0..Len(release) : h = SubSeq(release, 1, n)
  BY <1>1
<1>3. release \in Seq(Schema!Files) /\ n \in Int /\ \A i \in 1..n : release[i] \in Schema!Files
  BY <1>2 DEF SchemaParameters
<1> QED BY <1>2, <1>3, SubSeqProperties

\* What is not refused is what the ledger lacks of the release.
LEMMA PendingCompletes ==
    ASSUME NEW S, NEW h \in Seq(S), NEW release \in Seq(S),
           NEW p, p = Schema!pendingMigrations(release, SubSeq(h, 1, IF Len(h) <= Len(release)
                                                                THEN Len(h) ELSE Len(release) + 1)),
           p # Schema!Refused
    PROVE  p \in Seq(S) /\ h \o p = release
<1>1. Len(h) \in Nat /\ Len(release) \in Nat
  OBVIOUS
<1>2. Len(h) <= Len(release)
  <2> SUFFICES ASSUME Len(h) > Len(release)
               PROVE  FALSE
    BY <1>1
  <2>1. /\ 1 \in Int /\ Len(release) + 1 \in Int /\ 1 <= Len(release) + 1
        /\ Len(release) + 1 - 1 + 1 = Len(release) + 1
        /\ \A i \in 1 .. Len(release) + 1 : h[i] \in S
    BY <1>1
  <2>2. Len(SubSeq(h, 1, Len(release) + 1)) = Len(release) + 1
    BY <2>1, SubSeqProperties
  <2>3. ~(Len(h) <= Len(release)) /\ ~(Len(release) + 1 <= Len(release))
    BY <1>1
  <2> QED BY <2>2, <2>3 DEF Schema!pendingMigrations
<1>3. SubSeq(h, 1, Len(h)) = h
  BY SubSeqFull
<1>4. p = Schema!pendingMigrations(release, h)
  BY <1>2, <1>3
<1>5. (\A i \in 1..Len(h) : h[i] = release[i]) /\ p = SubSeq(release, Len(h) + 1, Len(release))
  BY <1>4 DEF Schema!pendingMigrations
<1>6. h = SubSeq(release, 1, Len(h))
  <2>1. /\ SubSeq(release, 1, Len(h)) \in Seq(S) /\ Len(SubSeq(release, 1, Len(h))) = Len(h)
        /\ \A i \in 1..Len(h) : SubSeq(release, 1, Len(h))[i] = release[i]
    BY <1>1, <1>2, SubSeqProperties
  <2> QED BY <1>5, <2>1
<1>7. p \in Seq(S)
  <2>1. /\ Len(h) + 1 \in Int /\ Len(release) \in Int
        /\ \A i \in Len(h) + 1 .. Len(release) : release[i] \in S
    BY <1>1
  <2> QED BY <1>1, <1>5, <2>1, SubSeqProperties
<1>8. SubSeq(release, 1, Len(h)) \o SubSeq(release, Len(h) + 1, Len(release)) = SubSeq(release, 1, Len(release))
  <2>1. /\ 1 \in 1 .. Len(release) + 1 /\ Len(h) \in 1 - 1 .. Len(release)
        /\ Len(release) \in Len(h) .. Len(release)
    BY <1>1, <1>2
  <2> QED BY <2>1, ConcatAdjacentSubSeq
<1> QED BY <1>5, <1>6, <1>7, <1>8, SubSeqFull

LEMMA PendingIs ==
    ASSUME SchemaParameters, Schema!TypeOK, NEW release \in Releases, Schema!Pending(release) # Schema!Refused
    PROVE  Schema!Pending(release) \in Seq(Schema!Files) /\ fileLedger \o Schema!Pending(release) = release
<1>1. fileLedger \in Seq(Schema!Files) /\ release \in Seq(Schema!Files)
  BY HistoryIsSeq DEF Schema!TypeOK, SchemaParameters
<1> QED BY <1>1, PendingCompletes DEF Schema!Pending, Schema!readAppliedMigrations

\* Nothing is pending: the ledger is the release.
LEMMA NothingPending ==
    ASSUME SchemaParameters, Schema!TypeOK, NEW release \in Releases, Schema!Pending(release) = <<>>
    PROVE  fileLedger = release /\ Schema!IsPrefix(release, fileLedger)
<1>1. fileLedger \in Seq(Schema!Files) /\ release \in Seq(Schema!Files) /\ <<>> # Schema!Refused
  BY HistoryIsSeq DEF Schema!TypeOK, SchemaParameters, Schema!Refused
<1>2. fileLedger \o <<>> = release
  BY <1>1, PendingIs
<1> QED BY <1>1, <1>2, ConcatEmptySeq, PrefixOfItself

-----------------------------------------------------------------------------
(* What a step does. *)

\* The ledger and the schema: nothing, or the next file of the run that moves.
LedgerMoves(r) ==
    \/ UNCHANGED <<fileLedger, schema>>
    \/ /\ run[r].step = "apply"
       /\ fileLedger' = Append(fileLedger, Head(run[r].pending))
       /\ schema' = Append(schema, Head(run[r].pending))

\* The run that moves, and the lock.
RunMoves(r, x) ==
    /\ x \in Runs /\ run' = [run EXCEPT ![r] = x] /\ x.release = run[r].release
    /\ RunIsTrue(x)' /\ LedgerMoves(r)
    /\ \/ lock' = lock /\ (x.step \in Locked => run[r].step \in Locked)
       \/ lock = None /\ lock' = r
       \/ lock = r /\ lock' = None /\ x.step \notin Locked
RunsMove == UNCHANGED <<run, lock, fileLedger, schema>> \/ \E r \in Slots : \E x \in Runs : RunMoves(r, x)

LEMMA RunFields ==
    ASSUME Schema!TypeOK, NEW r \in Slots
    PROVE  /\ run[r] \in Runs /\ run[r].step \in Schema!Steps /\ run[r].release \in Releases
           /\ run[r].pending \in Seq(Schema!Files) /\ run[r].result \in {"none", "failed", "applied"}
  BY DEF Schema!TypeOK, Runs

\* A run goes to a step in which it holds no pending file.
LEMMA GoesMoves ==
    ASSUME SchemaInv, NEW r \in Slots, NEW s \in Schema!Steps, s # "apply", Schema!Goes(r, s), UNCHANGED <<fileLedger, schema>>,
           \/ lock' = lock /\ (s \in Locked => run[r].step \in Locked)
           \/ lock = None /\ lock' = r
           \/ lock = r /\ lock' = None /\ s \notin Locked
    PROVE  RunsMove
<1>1. PICK x : x = [run[r] EXCEPT !.step = s]
  OBVIOUS
<1>2. run[r] \in Runs /\ RunIsTrue(run[r])
  BY RunFields DEF SchemaInv, RunsAreTrue
<1>3. /\ x \in Runs /\ x.step = s /\ x.release = run[r].release /\ x.pending = run[r].pending
      /\ x.result = run[r].result
  BY <1>1, <1>2 DEF Runs
<1>4. RunIsTrue(x)'
  BY <1>2, <1>3 DEF RunIsTrue
<1>5. run' = [run EXCEPT ![r] = x]
  BY <1>1 DEF Schema!Goes
<1> QED BY <1>3, <1>4, <1>5 DEF RunsMove, RunMoves, LedgerMoves

\* A run that fails reports nothing and holds nothing.
LEMMA FailsMoves ==
    ASSUME SchemaInv, NEW r \in Slots, NEW s \in {"unlock", "close", "idle"}, Schema!Fails(r, s), LedgerMoves(r),
           \/ lock' = lock /\ (s \in Locked => run[r].step \in Locked)
           \/ lock = r /\ lock' = None /\ s \notin Locked
    PROVE  RunsMove
<1>1. PICK x : x = [run[r] EXCEPT !.step = s, !.pending = <<>>, !.result = "failed"]
  OBVIOUS
<1>2. run[r] \in Runs
  BY RunFields DEF SchemaInv
<1>3. s \in Schema!Steps /\ <<>> \in Seq(Schema!Files)
  BY DEF Schema!Steps
<1>4. x \in Runs /\ x.step = s /\ x.release = run[r].release /\ x.result = "failed"
  BY <1>1, <1>2, <1>3 DEF Runs
<1>5. RunIsTrue(x)'
  BY <1>4 DEF RunIsTrue
<1>6. run' = [run EXCEPT ![r] = x]
  BY <1>1 DEF Schema!Fails
<1> QED BY <1>4, <1>5, <1>6 DEF RunsMove, RunMoves

\* Reading: what is pending is what the ledger lacks.
LEMMA ReadMoves ==
    ASSUME SchemaParameters, SchemaInv, NEW r \in Slots, Schema!applyRelease(r)
    PROVE  RunsMove
<1>1. run[r].step = "read" /\ UNCHANGED <<fileLedger, schema, lock>> /\ Schema!TypeOK
  BY DEF Schema!applyRelease, SchemaInv
<1>2. CASE Schema!Fails(r, "unlock")
  BY <1>1, <1>2, FailsMoves DEF Locked, LedgerMoves
<1>3. CASE /\ Schema!Pending(run[r].release) # Schema!Refused
           /\ run' = [run EXCEPT ![r].pending = Schema!Pending(run[r].release),
                                 ![r].step = IF Schema!Pending(run[r].release) = <<>> THEN "unlock" ELSE "apply",
                                 ![r].result = IF Schema!Pending(run[r].release) = <<>> THEN "applied" ELSE @]
  <2>1. run[r] \in Runs /\ run[r].release \in Releases
    BY <1>1, RunFields
  <2>2. PICK p : p = Schema!Pending(run[r].release)
    OBVIOUS
  <2>3. p \in Seq(Schema!Files) /\ fileLedger \o p = run[r].release
    BY <1>1, <1>3, <2>1, <2>2, PendingIs
  <2>4. CASE p = <<>>
    <3>1. PICK x : x = [run[r] EXCEPT !.pending = p, !.step = "unlock", !.result = "applied"]
      OBVIOUS
    <3>2. x \in Runs /\ x.step = "unlock" /\ x.release = run[r].release
      BY <2>1, <2>3, <3>1 DEF Runs, Schema!Steps
    <3>3. Schema!IsPrefix(x.release, fileLedger)
      BY <1>1, <2>1, <2>2, <2>4, <3>2, NothingPending
    <3>4. RunIsTrue(x)'
      BY <1>1, <3>2, <3>3 DEF RunIsTrue
    <3>5. run' = [run EXCEPT ![r] = x]
      BY <1>3, <2>2, <2>4, <3>1
    <3> QED BY <1>1, <3>2, <3>4, <3>5 DEF RunsMove, RunMoves, Locked, LedgerMoves
  <2>5. CASE p # <<>>
    <3>1. PICK x : x = [run[r] EXCEPT !.pending = p, !.step = "apply"]
      OBVIOUS
    <3>2. /\ x \in Runs /\ x.step = "apply" /\ x.release = run[r].release /\ x.pending = p
          /\ x.result = run[r].result
      BY <2>1, <2>3, <3>1 DEF Runs, Schema!Steps
    <3>3. RunIsTrue(run[r])
      BY DEF SchemaInv, RunsAreTrue
    <3>4. RunIsTrue(x)'
      BY <1>1, <2>3, <2>5, <3>2, <3>3 DEF RunIsTrue
    <3>5. run' = [run EXCEPT ![r] = x]
      BY <1>3, <2>1, <2>2, <2>5, <3>1 DEF Runs
    <3> QED BY <1>1, <3>2, <3>4, <3>5 DEF RunsMove, RunMoves, Locked, LedgerMoves
  <2> QED BY <2>4, <2>5
<1> QED BY <1>2, <1>3 DEF Schema!applyRelease

\* Applying: the file goes from what is pending to the ledger.
LEMMA ApplyMoves ==
    ASSUME SchemaParameters, SchemaInv, NEW r \in Slots, Schema!applyMigration(r)
    PROVE  RunsMove
<1>1. run[r].step = "apply" /\ UNCHANGED lock /\ Schema!TypeOK /\ fileLedger \in Seq(Schema!Files)
  BY HistoryIsSeq DEF Schema!applyMigration, SchemaInv, Schema!TypeOK
<1>2. /\ run[r] \in Runs /\ run[r].pending \in Seq(Schema!Files) /\ run[r].pending # <<>>
      /\ fileLedger \o run[r].pending = run[r].release /\ RunIsTrue(run[r])
  BY <1>1, RunFields DEF SchemaInv, RunsAreTrue, RunIsTrue
<1>3. LedgerMoves(r)
  BY <1>1 DEF Schema!applyMigration, LedgerMoves
<1>4. CASE Schema!Fails(r, "unlock")
  BY <1>1, <1>3, <1>4, FailsMoves DEF Locked, LedgerMoves
<1>5. CASE fileLedger' = Append(fileLedger, Head(run[r].pending)) /\ Schema!Advance(r)
  <2> DEFINE q == run[r].pending
  <2>0. /\ Head(q) \in Schema!Files /\ Tail(q) \in Seq(Schema!Files) /\ Len(Tail(q)) = Len(q) - 1
        /\ Append(fileLedger, Head(q)) \o Tail(q) = fileLedger \o q
    <3>1. q \in Seq(Schema!Files) /\ q # <<>> /\ fileLedger \in Seq(Schema!Files)
      BY <1>1, <1>2
    <3> HIDE DEF q
    <3> QED BY <3>1, OneMoves
  <2>1. PICK p \in Seq(Schema!Files) : p = Tail(run[r].pending)
    BY <2>0
  <2>2. fileLedger' \o p = run[r].release /\ Len(p) = Len(run[r].pending) - 1 /\ Head(run[r].pending) \in Schema!Files
    BY <1>2, <1>5, <2>0, <2>1
  <2>3. PICK s \in {"verify", "apply"} : s = IF Len(run[r].pending) = 1 THEN "verify" ELSE "apply"
    OBVIOUS
  <2>4. s = "apply" => p # <<>>
    <3>1. ASSUME p = <<>>
          PROVE  Len(run[r].pending) = 1
      <4>1. Len(p) = 0 /\ Len(run[r].pending) \in Nat
        BY <1>2, <3>1
      <4> QED BY <2>2, <4>1
    <3> QED BY <2>3, <3>1
  <2>5. PICK x : x = [run[r] EXCEPT !.pending = p, !.step = s]
    OBVIOUS
  <2>6. /\ x \in Runs /\ x.step = s /\ x.release = run[r].release /\ x.pending = p
        /\ x.result = run[r].result
    BY <1>2, <2>5 DEF Runs, Schema!Steps
  <2>7. x.result = "applied" => Schema!IsPrefix(x.release, fileLedger')
    <3>1. run[r].release \in Seq(Schema!Files)
      BY <1>1, RunFields DEF SchemaParameters
    <3> QED BY <1>1, <1>2, <1>5, <2>2, <2>6, <3>1, PrefixStays DEF RunIsTrue
  <2>8. RunIsTrue(x)'
    BY <2>2, <2>4, <2>6, <2>7 DEF RunIsTrue
  <2>9. run' = [run EXCEPT ![r] = x]
    BY <1>5, <2>1, <2>3, <2>5 DEF Schema!Advance
  <2> QED BY <1>1, <1>3, <2>6, <2>8, <2>9 DEF RunsMove, RunMoves, Locked, LedgerMoves
<1> QED BY <1>3, <1>4, <1>5 DEF Schema!applyMigration

LEMMA VerifyMoves ==
    ASSUME SchemaParameters, SchemaInv, NEW r \in Slots, Schema!VerifyHead(r)
    PROVE  RunsMove
<1>1. run[r].step = "verify" /\ UNCHANGED <<fileLedger, schema, lock>> /\ Schema!TypeOK
  BY DEF Schema!VerifyHead, SchemaInv
<1>2. CASE Schema!Fails(r, "unlock")
  BY <1>1, <1>2, FailsMoves DEF Locked, LedgerMoves
<1>3. CASE /\ Schema!Pending(run[r].release) = <<>>
           /\ run' = [run EXCEPT ![r].step = "unlock", ![r].result = "applied"]
  <2>1. run[r] \in Runs /\ run[r].release \in Releases
    BY <1>1, RunFields
  <2>2. PICK x : x = [run[r] EXCEPT !.step = "unlock", !.result = "applied"]
    OBVIOUS
  <2>3. x \in Runs /\ x.step = "unlock" /\ x.release = run[r].release
    BY <2>1, <2>2 DEF Runs, Schema!Steps
  <2>4. Schema!IsPrefix(x.release, fileLedger)
    BY <1>1, <1>3, <2>1, <2>3, NothingPending
  <2>5. RunIsTrue(x)'
    BY <1>1, <2>3, <2>4 DEF RunIsTrue
  <2>6. run' = [run EXCEPT ![r] = x]
    BY <1>3, <2>2
  <2> QED BY <1>1, <2>3, <2>5, <2>6 DEF RunsMove, RunMoves, Locked, LedgerMoves
<1> QED BY <1>2, <1>3 DEF Schema!VerifyHead

LEMMA StepMoves ==
    ASSUME SchemaParameters, SchemaInv, [Schema!Next]_(Schema!vars)
    PROVE  RunsMove
<1>1. CASE UNCHANGED Schema!vars \/ \E release \in Releases : Schema!Verify(release)
  BY <1>1 DEF Schema!vars, Schema!Verify, RunsMove
<1>2. ASSUME NEW r \in Slots, Schema!Start(r) \/ Schema!ensureHistoryTable(r)
      PROVE  RunsMove
  <2>1. CASE Schema!Start(r)
    <3>1. Schema!Goes(r, "lock") /\ UNCHANGED <<fileLedger, schema, lock>> /\ "lock" \in Schema!Steps /\ "lock" \notin Locked
      BY <2>1 DEF Schema!Start, Schema!Steps, Locked
    <3> QED BY <3>1, GoesMoves
  <2>2. CASE Schema!ensureHistoryTable(r)
    <3>1. /\ Schema!Goes(r, "read") /\ UNCHANGED <<fileLedger, schema, lock>> /\ "read" \in Schema!Steps
          /\ run[r].step \in Locked
      BY <2>2 DEF Schema!ensureHistoryTable, Schema!Steps, Locked
    <3> QED BY <3>1, GoesMoves
  <2> QED BY <1>2, <2>1, <2>2
<1>3. ASSUME NEW r \in Slots, Schema!withMigrationLock(r)
      PROVE  RunsMove
  <2>1. Schema!Goes(r, "ensure") /\ UNCHANGED <<fileLedger, schema>> /\ lock = None /\ lock' = r /\ "ensure" \in Schema!Steps
    BY <1>3 DEF Schema!withMigrationLock, Schema!Steps
  <2> QED BY <2>1, GoesMoves
<1>4. ASSUME NEW r \in Slots, Schema!ReleaseLock(r)
      PROVE  RunsMove
  <2>1. run[r].step = "unlock" /\ lock = r /\ UNCHANGED <<fileLedger, schema>> /\ "close" \in Schema!Steps /\ "close" \notin Locked
    BY <1>4 DEF Schema!ReleaseLock, SchemaInv, LockHeld, Locked, Schema!Steps
  <2>2. CASE lock' = None /\ Schema!Goes(r, "close")
    BY <2>1, <2>2, GoesMoves
  <2>3. CASE UNCHANGED lock /\ Schema!Fails(r, "close")
    BY <2>1, <2>3, FailsMoves DEF LedgerMoves
  <2> QED BY <1>4, <2>2, <2>3 DEF Schema!ReleaseLock
<1>5. ASSUME NEW r \in Slots, Schema!applyWithConnector(r)
      PROVE  RunsMove
  <2>1. /\ Schema!Goes(r, "idle") /\ UNCHANGED <<fileLedger, schema>> /\ "idle" \in Schema!Steps /\ "idle" \notin Locked
        /\ lock' = lock \/ (lock = r /\ lock' = None)
    BY <1>5 DEF Schema!applyWithConnector, Schema!Steps, Locked
  <2> QED BY <2>1, GoesMoves
<1>6. ASSUME NEW r \in Slots, Schema!Crash(r) \/ Schema!QueryFails(r)
      PROVE  RunsMove
  <2>1. UNCHANGED <<fileLedger, schema>>
    BY <1>6 DEF Schema!Crash, Schema!QueryFails
  <2>2. CASE Schema!Crash(r)
    BY <2>1, <2>2, FailsMoves DEF Schema!Crash, LedgerMoves, Locked
  <2>3. CASE Schema!QueryFails(r)
    BY <2>1, <2>3, FailsMoves DEF Schema!QueryFails, LedgerMoves, Locked
  <2> QED BY <1>6, <2>2, <2>3
<1>7. ASSUME NEW r \in Slots, Schema!applyRelease(r) \/ Schema!VerifyHead(r)
      PROVE  RunsMove
  BY <1>7, ReadMoves, VerifyMoves
<1> QED BY <1>1, <1>2, <1>3, <1>4, <1>5, <1>6, <1>7, ApplyMoves DEF Schema!Next, Schema!RunStep

-----------------------------------------------------------------------------
(* SchemaMigration: every step keeps the invariant. *)

LEMMA RunsStep ==
    ASSUME SchemaParameters, SchemaInv, [Schema!Next]_(Schema!vars)
    PROVE  RunsAreTrue' /\ LockHeld' /\ run' \in [Slots -> Runs] /\ lock' \in Slots \cup {None}
<1>1. RunsMove /\ Schema!TypeOK /\ run \in [Slots -> Runs] /\ lock \in Slots \cup {None}
  BY StepMoves DEF SchemaInv, Schema!TypeOK, Runs
<1>2. CASE UNCHANGED <<run, lock, fileLedger, schema>>
  BY <1>1, <1>2 DEF SchemaInv, RunsAreTrue, RunIsTrue, LockHeld
<1>3. ASSUME NEW r \in Slots, NEW x \in Runs, RunMoves(r, x)
      PROVE  RunsAreTrue' /\ LockHeld' /\ run' \in [Slots -> Runs] /\ lock' \in Slots \cup {None}
  <2>1. run' \in [Slots -> Runs] /\ run'[r] = x /\ \A d \in Slots \ {r} : run'[d] = run[d]
    BY <1>1, <1>3 DEF RunMoves
  <2>2. RunIsTrue(run[r])'
    BY <1>3, <2>1 DEF RunMoves, RunIsTrue
  <2>3. ASSUME NEW d \in Slots \ {r}
        PROVE  RunIsTrue(run[d])'
    <3>1. run'[d] = run[d] /\ RunIsTrue(run[d]) /\ fileLedger \in Seq(Schema!Files)
      BY <1>1, <2>1, HistoryIsSeq DEF SchemaInv, RunsAreTrue, Schema!TypeOK
    <3>2. CASE UNCHANGED fileLedger
      BY <3>1, <3>2 DEF RunIsTrue
    <3>3. CASE run[r].step = "apply" /\ fileLedger' = Append(fileLedger, Head(run[r].pending))
      <4>1. run[d].step # "apply"
        BY <3>3 DEF SchemaInv, LockHeld, Locked
      <4>2. run[r].pending \in Seq(Schema!Files) /\ run[r].pending # <<>>
        BY <1>1, <3>3, RunFields DEF SchemaInv, RunsAreTrue, RunIsTrue
      <4>3. run[d].release \in Seq(Schema!Files) /\ Head(run[r].pending) \in Schema!Files
        BY <1>1, <4>2, RunFields, HeadTailProperties DEF SchemaParameters
      <4>4. run[d].result = "applied" => Schema!IsPrefix(run[d].release, fileLedger')
        BY <3>1, <3>3, <4>3, PrefixStays DEF RunIsTrue
      <4> QED BY <3>1, <4>1, <4>4 DEF RunIsTrue
    <3> QED BY <1>3, <3>2, <3>3 DEF RunMoves, LedgerMoves
  <2>4. RunsAreTrue'
    BY <2>2, <2>3 DEF RunsAreTrue
  <2>5. LockHeld'
    BY <1>3, <2>1 DEF RunMoves, SchemaInv, LockHeld, SchemaParameters
  <2>6. lock' \in Slots \cup {None}
    BY <1>1, <1>3 DEF RunMoves
  <2> QED BY <2>1, <2>4, <2>5, <2>6
<1> QED BY <1>1, <1>2, <1>3 DEF RunsMove

\* The ledger grows by the next file of a release, and stays a history.
LEMMA LedgerStep ==
    ASSUME SchemaParameters, SchemaInv, [Schema!Next]_(Schema!vars)
    PROVE  /\ fileLedger' \in Schema!Histories /\ schema' \in Seq(Schema!Files) /\ schema' = fileLedger'
           /\ \A s \in Seq(Schema!Files) : Schema!IsPrefix(s, fileLedger) => Schema!IsPrefix(s, fileLedger')
<1>1. RunsMove /\ Schema!TypeOK /\ fileLedger \in Seq(Schema!Files) /\ schema = fileLedger
  BY StepMoves, HistoryIsSeq DEF SchemaInv, Schema!TypeOK, Schema!LedgerIsTheSchema
<1>2. CASE UNCHANGED <<fileLedger, schema>>
  BY <1>1, <1>2 DEF Schema!TypeOK
<1>3. ASSUME NEW r \in Slots, run[r].step = "apply",
             fileLedger' = Append(fileLedger, Head(run[r].pending)), schema' = Append(schema, Head(run[r].pending))
      PROVE  /\ fileLedger' \in Schema!Histories /\ schema' \in Seq(Schema!Files) /\ schema' = fileLedger'
             /\ \A s \in Seq(Schema!Files) : Schema!IsPrefix(s, fileLedger) => Schema!IsPrefix(s, fileLedger')
  <2>1. PICK p \in Seq(Schema!Files) : p = run[r].pending
    BY <1>1, RunFields
  <2>2. PICK release \in Releases : release = run[r].release
    BY <1>1, RunFields
  <2>3. p # <<>> /\ fileLedger \o p = release
    BY <1>3, <2>1, <2>2 DEF SchemaInv, RunsAreTrue, RunIsTrue
  <2>4. PICK h : h = Append(fileLedger, Head(p))
    OBVIOUS
  <2>5. h \in Seq(Schema!Files) /\ Head(p) \in Schema!Files /\ Tail(p) \in Seq(Schema!Files) /\ h \o Tail(p) = release
    BY <1>1, <2>3, <2>4, OneMoves
  <2>6. SubSeq(release, 1, Len(h)) = h
    BY <2>5, FrontOfConcat
  <2>7. Len(h) \in 0..Len(release)
    <3>1. Len(release) = Len(h) + Len(Tail(p)) /\ Len(h) \in Nat /\ Len(Tail(p)) \in Nat
      BY <2>5, ConcatProperties
    <3> QED BY <3>1
  <2>8. h \in Schema!Histories
    BY <2>6, <2>7, InHistories, Zenon
  <2> QED BY <1>1, <1>3, <2>1, <2>4, <2>5, <2>8, PrefixStays
<1> QED BY <1>1, <1>2, <1>3 DEF RunsMove, RunMoves, LedgerMoves

LEMMA ServingStep ==
    ASSUME SchemaParameters, SchemaInv, [Schema!Next]_(Schema!vars)
    PROVE  ServingIsTrue' /\ ready' \subseteq Releases
<1>1. Schema!TypeOK /\ ServingIsTrue /\ ready \subseteq Releases /\ Releases \subseteq Seq(Schema!Files)
  BY DEF SchemaInv, Schema!TypeOK, SchemaParameters
<1>2. \A s \in Seq(Schema!Files) : Schema!IsPrefix(s, fileLedger) => Schema!IsPrefix(s, fileLedger')
  BY LedgerStep
<1>3. CASE UNCHANGED ready
  BY <1>1, <1>2, <1>3 DEF ServingIsTrue
<1>4. ASSUME NEW release \in Releases, Schema!Verify(release)
      PROVE  ServingIsTrue' /\ ready' \subseteq Releases
  <2>1. UNCHANGED fileLedger /\ (Schema!Pending(release) = <<>> \/ ready' = ready \ {release})
        /\ ready' \subseteq ready \cup {release}
    BY <1>4 DEF Schema!Verify
  <2>2. Schema!Pending(release) = <<>> => Schema!IsPrefix(release, fileLedger)
    BY <1>1, NothingPending
  <2> QED BY <1>1, <2>1, <2>2 DEF ServingIsTrue
<1> QED BY <1>3, <1>4, Zenon
        DEF Schema!Next, Schema!vars, Schema!RunStep, Schema!Start, Schema!withMigrationLock,
             Schema!ensureHistoryTable, Schema!applyRelease, Schema!applyMigration,
            Schema!VerifyHead, Schema!ReleaseLock, Schema!applyWithConnector, Schema!QueryFails, Schema!Crash

LEMMA FaultsStep ==
    ASSUME SchemaParameters, Schema!TypeOK, [Schema!Next]_(Schema!vars)
    PROVE  schemaFaults' \in 0..MaxFaults /\ table' \in {"absent", "trusted", "foreign"}
<1>1. UNCHANGED schemaFaults \/ (schemaFaults < MaxFaults /\ schemaFaults' = schemaFaults + 1)
  BY ZenonT(40) DEF Schema!Next, Schema!vars, Schema!RunStep, Schema!Start, Schema!withMigrationLock,
       Schema!ensureHistoryTable, Schema!applyRelease, Schema!applyMigration,
         Schema!VerifyHead, Schema!ReleaseLock, Schema!applyWithConnector, Schema!QueryFails, Schema!Crash, Schema!Fault, Schema!Verify
<1>2. UNCHANGED table \/ table' = "trusted"
  BY Zenon DEF Schema!Next, Schema!vars, Schema!RunStep, Schema!Start, Schema!withMigrationLock,
       Schema!ensureHistoryTable, Schema!applyRelease, Schema!applyMigration,
         Schema!VerifyHead, Schema!ReleaseLock, Schema!applyWithConnector, Schema!QueryFails, Schema!Crash, Schema!Verify
<1>3. schemaFaults' \in 0..MaxFaults
  BY <1>1 DEF Schema!TypeOK, SchemaParameters
<1> QED BY <1>2, <1>3, SMTT(30) DEF Schema!TypeOK

LEMMA SchemaStepHolds ==
    ASSUME SchemaParameters, SchemaInv, [Schema!Next]_(Schema!vars)
    PROVE  SchemaInv'
<1>1. Schema!TypeOK
  BY DEF SchemaInv
<1>2. RunsAreTrue' /\ LockHeld' /\ run' \in [Slots -> Runs] /\ lock' \in Slots \cup {None}
  BY RunsStep
<1>3. fileLedger' \in Schema!Histories /\ schema' \in Seq(Schema!Files) /\ schema' = fileLedger'
  BY LedgerStep
<1>4. ServingIsTrue' /\ ready' \subseteq Releases
  BY ServingStep
<1>5. schemaFaults' \in 0..MaxFaults /\ table' \in {"absent", "trusted", "foreign"}
  BY <1>1, FaultsStep
<1>6. Schema!TypeOK'
  BY <1>2, <1>3, <1>4, <1>5 DEF Schema!TypeOK, Runs
<1> QED BY <1>2, <1>3, <1>4, <1>6 DEF SchemaInv, Schema!LedgerIsTheSchema

LEMMA SchemaInitHolds ==
    ASSUME SchemaParameters, Schema!Init
    PROVE  SchemaInv
<1>1. PICK release \in [Slots -> Releases] :
        run = [r \in Slots |->
                 [step |-> "idle", release |-> release[r], pending |-> <<>>, result |-> "none"]]
  BY DEF Schema!Init
<1>2. run \in [Slots -> Runs]
  BY <1>1 DEF Runs, Schema!Steps
<1>3. \A r \in Slots : run[r].step = "idle" /\ run[r].result = "none"
  BY <1>1
<1>4. RunsAreTrue /\ LockHeld
  BY <1>3 DEF RunsAreTrue, RunIsTrue, LockHeld, Locked
<1>5. <<>> \in Schema!Histories
  <2>1. PICK s \in Releases : s \in Seq(Schema!Files)
    BY DEF SchemaParameters
  <2>2. SubSeq(s, 1, 0) = <<>> /\ 0 \in 0..Len(s)
    BY <2>1, SubSeqEmpty
  <2> QED BY <2>2, InHistories
<1>6. /\ table \in {"absent", "trusted", "foreign"} /\ fileLedger = <<>> /\ schema = <<>> /\ schema \in Seq(Schema!Files)
      /\ lock \in Slots \cup {None} /\ ready = {} /\ schemaFaults \in 0..MaxFaults
  BY DEF Schema!Init, SchemaParameters
<1>7. Schema!TypeOK
  BY <1>2, <1>5, <1>6 DEF Schema!TypeOK, Runs
<1> QED BY <1>4, <1>6, <1>7 DEF SchemaInv, Schema!LedgerIsTheSchema, ServingIsTrue

-----------------------------------------------------------------------------
(* SchemaMigration: the theorems. *)

LEMMA SchemaInvariantly ==
    ASSUME SchemaParameters
    PROVE  Schema!Init /\ [][Schema!Next]_(Schema!vars) => []SchemaInv
<1>1. Schema!Init => SchemaInv
  BY SchemaInitHolds
<1>2. SchemaInv /\ [Schema!Next]_(Schema!vars) => SchemaInv'
  BY SchemaStepHolds
<1> QED BY <1>1, <1>2, PTL

\* The history table, the runs and the lock are what their types say; the ledger
\* is always the beginning of one release.
THEOREM SchemaMigrationTypes ==
    ASSUME SchemaParameters
    PROVE  Schema!Init /\ [][Schema!Next]_(Schema!vars) => []Schema!TypeOK
<1>1. SchemaInv => Schema!TypeOK
  BY DEF SchemaInv
<1> QED BY <1>1, SchemaInvariantly, PTL

\* Every file took effect once and in order, as the ledger says; what a run
\* holds as pending is what the ledger lacks; and a run that reports success, or
\* a process that reports its release, had the ledger of its own release.
THEOREM SchemaIsItsLedgerAlone ==
    ASSUME SchemaParameters
    PROVE  Schema!Init /\ [][Schema!Next]_(Schema!vars) => []Schema!SchemaIsItsLedger
<1>1. SchemaInv => Schema!SchemaIsItsLedger
  BY DEF SchemaInv, Schema!SchemaIsItsLedger, Schema!PendingIsCurrent,
       Schema!SuccessIsTheRelease, RunsAreTrue, RunIsTrue, ServingIsTrue
<1> QED BY <1>1, SchemaInvariantly, PTL

-----------------------------------------------------------------------------
(* ReleaseCommand: facts about finite sets, as the module counts them. *)

LEMMA ReleaseCounts ==
    /\ \A S : Release!Cardinality(S) = Cardinality(S)
    /\ \A S : Release!IsFiniteSet(S) <=> IsFiniteSet(S)
<1>1. ASSUME NEW S PROVE Release!Cardinality(S) = Cardinality(S)
  BY DEF Release!Cardinality, Cardinality
<1>2. ASSUME NEW S PROVE Release!IsFiniteSet(S) <=> IsFiniteSet(S)
  BY DEF Release!IsFiniteSet, IsFiniteSet
<1> QED BY <1>1, <1>2

LEMMA CountingCardinalityType ==
    ASSUME NEW S, Release!IsFiniteSet(S)
    PROVE  Release!Cardinality(S) \in Nat
BY FS_CardinalityType, ReleaseCounts

LEMMA CountingEmptySet ==
    /\ Release!IsFiniteSet({}) /\ Release!Cardinality({}) = 0
    /\ \A S : Release!IsFiniteSet(S) => (Release!Cardinality(S) = 0 <=> S = {})
BY FS_EmptySet, ReleaseCounts

LEMMA CountingAddElement ==
    ASSUME NEW S, NEW x, Release!IsFiniteSet(S)
    PROVE  /\ Release!IsFiniteSet(S \cup {x})
           /\ Release!Cardinality(S \cup {x})
                = IF x \in S THEN Release!Cardinality(S) ELSE Release!Cardinality(S) + 1
BY FS_AddElement, ReleaseCounts

LEMMA CountingSubset ==
    ASSUME NEW S, Release!IsFiniteSet(S), NEW T \in SUBSET S
    PROVE  /\ Release!IsFiniteSet(T) /\ Release!Cardinality(T) <= Release!Cardinality(S)
           /\ Release!Cardinality(S) = Release!Cardinality(T) => S = T
BY FS_Subset, ReleaseCounts

LEMMA CountingInterval ==
    ASSUME NEW a \in Int, NEW b \in Int
    PROVE  Release!IsFiniteSet(a..b)
BY FS_Interval, ReleaseCounts

LEMMA CountingFiniteSubsetsOfFinite ==
    ASSUME NEW S, Release!IsFiniteSet(S)
    PROVE  FiniteSubsetsOf(S) = SUBSET S
BY FS_FiniteSubsetsOfFinite, ReleaseCounts

LEMMA CountingUnion ==
    ASSUME NEW S, Release!IsFiniteSet(S), NEW T, Release!IsFiniteSet(T)
    PROVE  /\ Release!IsFiniteSet(S \cup T)
           /\ Release!Cardinality(S \cup T)
                = Release!Cardinality(S) + Release!Cardinality(T) - Release!Cardinality(S \cap T)
BY FS_Union, ReleaseCounts

-----------------------------------------------------------------------------
(* ReleaseCommand: the inductive invariant. *)

StalePosts == {p \in Posts : Release!Stale(p)}
Done == {p \in Posts : rendered[p] = 1}
WithVector == {p \in Posts : posts[p].vector # "none"}

\* What the preflight asks of a post, of a release that knows both renderers.
Good(p) == Release!preflightPost(posts[p], TRUE)
AllGood == \A p \in Posts : Good(p)

PostsAreTrue ==
    /\ posts \in [Posts -> Release!PostRows] /\ ledger \in 0..2
    /\ ledger = 0 => \A p \in Posts : posts[p].redacted \/ posts[p].version = "p1"
    /\ ledger # 0 => AllGood

RendererRows ==
    [cursor : Nat, converted : Nat, completed : BOOLEAN, validated : BOOLEAN, lock : Commands \cup {None}]
RendererIsTrue ==
    /\ renderer \in RendererRows /\ rendered \in [Posts -> {0, 1}]
    /\ renderer.converted = Release!Cardinality(Done)
    /\ renderer.cursor = Release!Max(Done \cup {0})
    /\ \A p \in Posts : Release!Stale(p) => p > renderer.cursor /\ rendered[p] = 0
    /\ renderer.completed => StalePosts = {} /\ renderer.validated
    /\ ledger # 2 => Done = {} /\ ~renderer.completed

ProjectionRows ==
    [phase : {"topics", "posts", "complete"}, cursor : Nat, topics : Nat, posts : Nat, lock : Commands \cup {None}]
Before(rows, cursor) == {row \in rows : row <= cursor}
ProjectionIsTrue ==
    /\ projection \in ProjectionRows
    /\ vectored \subseteq Topics /\ projection.topics = Release!Cardinality(vectored)
    /\ projection.posts = Release!Cardinality(WithVector)
    /\ projection.phase = "topics" =>
         vectored = Before(Topics, projection.cursor) /\ WithVector = {} /\ projection.cursor \in Topics \cup {0}
    /\ projection.phase = "posts" =>
         vectored = Topics /\ WithVector = Before(Posts, projection.cursor) /\ projection.cursor \in Posts \cup {0}
    /\ projection.phase = "complete" => vectored = Topics /\ WithVector = Posts /\ projection.cursor \in Posts \cup {0}
    /\ \A p \in WithVector : posts[p].vector = posts[p].html
    /\ ~renderer.completed => projection.phase = "topics" /\ projection.cursor = 0

\* What a command knows, by its step.
Preflighted == Release!Steps \ {"idle", "inspect", "preflight"}
Converting == {"render", "write", "project", "vectors", "analyze", "ready"}
Projecting == {"project", "vectors", "analyze", "ready"}
Selected(r) ==
    r.cursor = renderer.cursor /\ r.seen = Release!Page(StalePosts, renderer.cursor) /\ r.seen # {}
Loaded(r) ==
    /\ projection.phase # "complete" /\ r.cursor = projection.cursor
    /\ r.seen = Release!Page(Release!Rows, projection.cursor) /\ r.seen # {}
Exhausted == Release!readyState \/ (projection.phase = "posts" /\ Release!Page(Posts, projection.cursor) = {})
Knows(r) ==
    /\ r \in Release!CommandRows /\ r.outcome # "refused"
    /\ r.step = "inspect" => r.cursor = 0
    /\ r.step = "preflight" => \A p \in Posts : p <= r.cursor => Good(p)
    /\ r.step \in Preflighted => AllGood
    /\ r.step \in Converting => ledger = 2
    /\ r.step = "write" => Selected(r)
    /\ r.step \in Projecting => renderer.completed
    /\ r.step = "vectors" => Loaded(r)
    /\ r.step = "analyze" => Exhausted
    /\ r.step = "ready" => Release!readyState
CommandsKnow == DOMAIN command = Commands /\ \A c \in Commands : Knows(command[c])

\* Who holds the row of a state is about to write a batch.
LocksAreHeld ==
    \A c \in Commands :
      (renderer.lock = c <=> command[c].step = "write") /\ (projection.lock = c <=> command[c].step = "vectors")

\* The boards.
BoardsAreTrue ==
    /\ serving \in {"old", "stopped", "new"} /\ faults \in 0..MaxFaults
    /\ serving # "stopped" => Release!Resting
    /\ serving = "old" => ledger = 0
    /\ serving = "new" => ledger = 2 /\ renderer.completed /\ Release!readyState

ReleaseInv ==
    /\ PostsAreTrue /\ RendererIsTrue /\ ProjectionIsTrue
    /\ CommandsKnow /\ LocksAreHeld /\ BoardsAreTrue
-----------------------------------------------------------------------------
(* Numbers and pages. *)

LEMMA Greatest ==
    ASSUME NEW S \in SUBSET Nat, Release!IsFiniteSet(S), S # {}
    PROVE  \E n \in S : \A m \in S : m <= n
<1> DEFINE Above(n) == {m \in S : m > n}
           T == {Above(n) : n \in S}
<1>1. T \subseteq FiniteSubsetsOf(S) /\ T # {}
  <2>1. \A n \in S : Above(n) \in SUBSET S
    OBVIOUS
  <2>2. T \subseteq SUBSET S /\ T # {}
    BY <2>1
  <2> HIDE DEF T
  <2> QED BY <2>2, CountingFiniteSubsetsOfFinite
<1>2. PICK x \in T : \A y \in T : <<y, x>> \notin StrictSubsetOrdering(S)
  <2> HIDE DEF T
  <2> QED BY <1>1, FS_StrictSubsetOrderingWellFounded, WFMin
<1>3. PICK n \in S : x = Above(n)
  OBVIOUS
<1>4. ASSUME NEW m \in S, ~(m <= n) PROVE FALSE
  <2>1. m \in Nat /\ n \in Nat /\ m > n
    BY <1>4
  <2>2. (\A k \in S : k > m => k > n) /\ ~(m > m)
    BY <2>1
  <2>3. Above(m) \subseteq Above(n) /\ m \in Above(n) /\ m \notin Above(m)
    BY <2>1, <2>2, Zenon
  <2>4. <<Above(m), Above(n)>> \in StrictSubsetOrdering(S)
    <3>1. Above(m) \in SUBSET S /\ Above(n) \in SUBSET S /\ Above(m) # Above(n)
      BY <2>3
    <3> HIDE DEF Above
    <3> QED BY <2>3, <3>1 DEF StrictSubsetOrdering
  <2>5. Above(m) \in T
    OBVIOUS
  <2> QED BY <1>2, <1>3, <2>4, <2>5
<1> QED BY <1>4

LEMMA MaxIsGreatest ==
    ASSUME NEW S \in SUBSET Nat, Release!IsFiniteSet(S), S # {}
    PROVE  Release!Max(S) \in S /\ \A m \in S : m <= Release!Max(S)
<1>1. PICK n \in S : \A m \in S : m <= n
  BY Greatest
<1>2. \A m \in S : n >= m
  BY <1>1
<1>3. \E x \in S : \A y \in S : x >= y
  BY <1>2
<1>4. Release!Max(S) \in S /\ \A y \in S : Release!Max(S) >= y
  BY <1>3 DEF Release!Max
<1> QED BY <1>4

LEMMA Least ==
    ASSUME NEW S \in SUBSET Nat, S # {}
    PROVE  \E n \in S : \A m \in S : n <= m
<1>1. PICK p \in S : TRUE
  OBVIOUS
<1> DEFINE D == {d \in 0..p : p - d \in S}
<1>2. D \in SUBSET Nat /\ D # {} /\ Release!IsFiniteSet(D)
  <2>1. p \in Nat /\ p - 0 = p
    OBVIOUS
  <2>2. 0 \in D
    BY <2>1
  <2>3. Release!IsFiniteSet(0..p) /\ D \subseteq 0..p
    BY <2>1, CountingInterval
  <2> QED BY <2>2, <2>3, CountingSubset
<1>3. PICK d \in D : \A e \in D : e <= d
  <2> HIDE DEF D
  <2> QED BY <1>2, Greatest
<1>4. p - d \in S /\ d \in 0..p
  OBVIOUS
<1>5. ASSUME NEW m \in S PROVE p - d <= m
  <2>1. m \in Nat /\ p \in Nat
    OBVIOUS
  <2>2. CASE m > p
    BY <1>4, <2>1, <2>2
  <2>3. CASE m <= p
    <3>1. p - m \in 0..p /\ p - (p - m) = m
      BY <2>1, <2>3
    <3>2. p - m \in D
      BY <3>1
    <3>3. p - m <= d
      BY <1>3, <3>2
    <3> QED BY <1>4, <2>1, <3>3
  <2> QED BY <2>1, <2>2, <2>3
<1> QED BY <1>4, <1>5

\* A page: nothing before a row of it is left out; a short one is the last.
LEMMA PageRows ==
    ASSUME Release!ReleaseAssumption, NEW rows \in SUBSET Nat, Release!IsFiniteSet(rows), NEW cursor \in Nat
    PROVE  /\ Release!Page(rows, cursor) \subseteq rows /\ Release!IsFiniteSet(Release!Page(rows, cursor))
           /\ \A p \in Release!Page(rows, cursor) : p > cursor
           /\ \A r \in rows, p \in Release!Page(rows, cursor) : r > cursor /\ r <= p => r \in Release!Page(rows, cursor)
           /\ Release!Cardinality(Release!Page(rows, cursor)) < BatchSize =>
                \A r \in rows : r > cursor => r \in Release!Page(rows, cursor)
<1> DEFINE after == {row \in rows : row > cursor}
           Under(p) == {r \in after : r < p}
           page == {row \in after : Release!Cardinality(Under(row)) < BatchSize}
<1>1. Release!Page(rows, cursor) = page
  BY DEF Release!Page
<1>2. page \subseteq rows /\ Release!IsFiniteSet(page) /\ Release!IsFiniteSet(after)
  <2>1. page \subseteq rows /\ after \subseteq rows
    OBVIOUS
  <2> QED BY <2>1, CountingSubset
<1>3. \A p \in page : p > cursor
  OBVIOUS
<1>4. \A p \in after : Release!IsFiniteSet(Under(p)) /\ Release!Cardinality(Under(p)) \in Nat
  <2>1. \A p \in after : Under(p) \subseteq after
    OBVIOUS
  <2> HIDE DEF Under, after
  <2> QED BY <1>2, <2>1, CountingSubset, CountingCardinalityType
<1>5. BatchSize \in Nat
  BY DEF Release!ReleaseAssumption
<1>6. ASSUME NEW r \in rows, NEW p \in page, r > cursor, r <= p PROVE r \in page
  <2>1. r \in after /\ p \in after /\ Release!Cardinality(Under(p)) < BatchSize
    BY <1>6
  <2>2. Under(r) \subseteq Under(p)
    <3>1. \A x \in after : x < r => x < p
      BY <1>6, <2>1
    <3> QED BY <3>1
  <2>3. Release!Cardinality(Under(r)) <= Release!Cardinality(Under(p))
    <3> HIDE DEF Under, after
    <3> QED BY <1>4, <2>1, <2>2, CountingSubset
  <2>4. Release!Cardinality(Under(r)) \in Nat /\ Release!Cardinality(Under(p)) \in Nat
    <3> HIDE DEF Under, after
    <3> QED BY <1>4, <2>1
  <2>5. Release!Cardinality(Under(r)) < BatchSize
    <3> HIDE DEF Under, after
    <3> QED BY <1>5, <2>1, <2>3, <2>4
  <2> QED BY <2>1, <2>5
<1>7. ASSUME Release!Cardinality(page) < BatchSize, NEW r \in rows, r > cursor PROVE r \in page
  <2> DEFINE left == after \ page
  <2>1. SUFFICES ASSUME left # {} PROVE FALSE
    BY <1>7
  <2>2. PICK q \in left : \A m \in left : q <= m
    <3>1. left \in SUBSET Nat
      OBVIOUS
    <3> HIDE DEF left
    <3> QED BY <2>1, <3>1, Least
  <2>3. q \in after /\ q \notin page
    OBVIOUS
  <2>4. Under(q) \subseteq page
    <3>1. \A x \in after : x < q => ~(q <= x)
      BY <2>3
    <3>2. \A x \in after : x \notin page => x \in left
      OBVIOUS
    <3>3. \A x \in after : x < q => x \in page
      <4> HIDE DEF after, page, left
      <4> QED BY <2>2, <3>1, <3>2
    <3> HIDE DEF page
    <3> QED BY <3>3
  <2>5. Release!Cardinality(Under(q)) <= Release!Cardinality(page) /\ Release!Cardinality(page) \in Nat
    <3> HIDE DEF Under, page, after
    <3> QED BY <1>2, <2>4, CountingSubset, CountingCardinalityType
  <2>6. Release!Cardinality(Under(q)) \in Nat
    <3> HIDE DEF Under, after
    <3> QED BY <1>4, <2>3
  <2>7. ~(Release!Cardinality(Under(q)) < BatchSize)
    BY <2>3
  <2> HIDE DEF Under, page, after
  <2> QED BY <1>5, <1>7, <2>5, <2>6, <2>7
<1> HIDE DEF page
<1> QED BY <1>1, <1>2, <1>3, <1>6, <1>7

LEMMA PageEnds ==
    ASSUME Release!ReleaseAssumption, NEW rows \in SUBSET Nat, Release!IsFiniteSet(rows), NEW cursor \in Nat
    PROVE  /\ Release!Page(rows, cursor) = {} => \A r \in rows : r <= cursor
           /\ Release!Page(rows, cursor) # {} =>
                LET last == Release!Max(Release!Page(rows, cursor)) IN
                /\ last \in Release!Page(rows, cursor) /\ last \in rows /\ last > cursor
                /\ \A r \in rows : r \in Release!Page(rows, cursor) <=> r > cursor /\ r <= last
<1> DEFINE page == Release!Page(rows, cursor)
<1>1. /\ page \subseteq rows /\ Release!IsFiniteSet(page) /\ \A p \in page : p > cursor
      /\ \A r \in rows, p \in page : r > cursor /\ r <= p => r \in page
      /\ Release!Cardinality(page) < BatchSize => \A r \in rows : r > cursor => r \in page
  BY PageRows
<1> HIDE DEF page
<1>2. ASSUME page = {} PROVE \A r \in rows : r <= cursor
  <2>1. Release!Cardinality(page) < BatchSize
    <3>1. Release!Cardinality(page) = 0
      BY <1>2, CountingEmptySet
    <3> QED BY <3>1 DEF Release!ReleaseAssumption
  <2> QED BY <1>1, <1>2, <2>1
<1>3. ASSUME page # {}
      PROVE  /\ Release!Max(page) \in page /\ Release!Max(page) \in rows /\ Release!Max(page) > cursor
             /\ \A r \in rows : r \in page <=> r > cursor /\ r <= Release!Max(page)
  <2>1. Release!Max(page) \in page /\ \A m \in page : m <= Release!Max(page)
    BY <1>1, <1>3, MaxIsGreatest
  <2> QED BY <1>1, <2>1
<1> QED BY <1>2, <1>3 DEF page

-----------------------------------------------------------------------------
(* What a command becomes. *)

\* A row of a command, as far as the proofs look at it, and the other commands.
IsRow(r, step, outcome, cursor, seen) ==
    r \in Release!CommandRows /\ r.step = step /\ r.outcome = outcome /\ r.cursor = cursor /\ r.seen = seen
OthersStay(c) == DOMAIN command' = Commands /\ \A d \in Commands \ {c} : command'[d] = command[d]
Becomes(c, step, outcome, cursor, seen) == OthersStay(c) /\ IsRow(command'[c], step, outcome, cursor, seen)

LEMMA Replaced ==
    ASSUME DOMAIN command = Commands, NEW c \in Commands, NEW r, command' = [command EXCEPT ![c] = r]
    PROVE  OthersStay(c) /\ command'[c] = r
  BY DEF OthersStay

LEMMA CommandFields ==
    ASSUME NEW r \in Release!CommandRows
    PROVE  /\ r.step \in Release!Steps /\ r.outcome \in Release!Outcomes /\ r.cursor \in Nat /\ r.seen \in SUBSET Nat
           /\ r.attempt \in 1..maximumAttempts
  BY DEF Release!CommandRows

LEMMA Began ==
    ASSUME Release!ReleaseAssumption, CommandsKnow, NEW c \in Commands, NEW s \in Release!Steps, Release!Begins(c, s)
    PROVE  Becomes(c, s, "none", 0, {})
<1> DEFINE r == [command[c] EXCEPT !.step = s, !.outcome = "none", !.cursor = 0, !.seen = {}, !.attempt = 1]
<1>1. command[c] \in Release!CommandRows
  BY DEF CommandsKnow, Knows
<1>2. "none" \in Release!Outcomes /\ 0 \in Nat /\ {} \in SUBSET Nat /\ 1 \in 1..maximumAttempts
  BY DEF Release!Outcomes, Release!ReleaseAssumption
<1>3. IsRow(r, s, "none", 0, {})
  <2>1. r \in Release!CommandRows
    BY <1>1, <1>2, Zenon DEF Release!CommandRows
  <2>2. r.step = s /\ r.outcome = "none" /\ r.cursor = 0 /\ r.seen = {}
    BY <1>1, Zenon DEF Release!CommandRows
  <2> QED BY <2>1, <2>2 DEF IsRow
<1>4. command' = [command EXCEPT ![c] = r]
  BY DEF Release!Begins
<1> HIDE DEF r
<1>5. OthersStay(c) /\ command'[c] = r
  BY <1>4, Replaced DEF CommandsKnow
<1> QED BY <1>3, <1>5 DEF Becomes

LEMMA Ended ==
    ASSUME Release!ReleaseAssumption, CommandsKnow, NEW c \in Commands, NEW o \in Release!Outcomes, Release!Ends(c, o)
    PROVE  Becomes(c, "idle", o, 0, {})
<1> DEFINE r == [Release!Idle EXCEPT !.outcome = o]
<1>1. "idle" \in Release!Steps /\ "none" \in Release!Outcomes /\ 0 \in Nat /\ {} \in SUBSET Nat /\ 1 \in 1..maximumAttempts
  BY DEF Release!Steps, Release!Outcomes, Release!ReleaseAssumption
<1>2. Release!Idle \in Release!CommandRows
  BY <1>1, Zenon DEF Release!Idle, Release!CommandRows
<1>3. r \in Release!CommandRows /\ r.step = "idle" /\ r.outcome = o /\ r.cursor = 0 /\ r.seen = {}
  <2>1. r \in Release!CommandRows
    BY <1>2, Zenon DEF Release!CommandRows
  <2>2. Release!Idle.step = "idle" /\ Release!Idle.cursor = 0 /\ Release!Idle.seen = {}
    BY DEF Release!Idle
  <2>3. r.outcome = o /\ r.step = Release!Idle.step /\ r.cursor = Release!Idle.cursor /\ r.seen = Release!Idle.seen
    BY <1>2, Zenon DEF Release!CommandRows
  <2> QED BY <2>1, <2>2, <2>3
<1>4. IsRow(r, "idle", o, 0, {})
  BY <1>3 DEF IsRow
<1>5. command' = [command EXCEPT ![c] = r]
  BY DEF Release!Ends
<1> HIDE DEF r
<1>6. OthersStay(c) /\ command'[c] = r
  BY <1>5, Replaced DEF CommandsKnow
<1> QED BY <1>4, <1>6 DEF Becomes

LEMMA Proceeded ==
    ASSUME Release!ReleaseAssumption, CommandsKnow, NEW c \in Commands,
           NEW s \in {"preflight", "search", "apply", "render", "project"}, Release!Proceeds(c, s)
    PROVE  \/ s = "preflight" /\ Becomes(c, "server", "none", 0, {})
           \/ s = "search" /\ Becomes(c, "apply", "none", 0, {})
           \/ s = "apply" /\ Becomes(c, "render", "none", 0, {})
           \/ s = "render" /\ Becomes(c, "project", "none", 0, {})
           \/ s = "project" /\ Becomes(c, "idle", "complete", 0, {})
<1>1. CASE s = "project"
  <2>1. Release!Ends(c, "complete")
    BY <1>1 DEF Release!Proceeds, Release!applyRelease
  <2> QED BY <1>1, <2>1, Ended DEF Release!Outcomes
<1>2. CASE s # "project"
  <2>1. Release!applyRelease[s] \in {"server", "apply", "render", "project"} /\ Release!Begins(c, Release!applyRelease[s])
    BY <1>2 DEF Release!Proceeds, Release!applyRelease
  <2>2. Release!applyRelease[s] \in Release!Steps
    BY <2>1 DEF Release!Steps
  <2>3. Becomes(c, Release!applyRelease[s], "none", 0, {})
    BY <2>1, <2>2, Began
  <2> QED BY <1>2, <2>3 DEF Release!applyRelease
<1> QED BY <1>1, <1>2

LEMMA Retried ==
    ASSUME Release!ReleaseAssumption, CommandsKnow, NEW c \in Commands, NEW s \in Release!Steps, Release!Retries(c, s)
    PROVE  Becomes(c, s, command[c].outcome, 0, {}) \/ Becomes(c, "idle", "failed", 0, {})
<1>1. CASE ~(command[c].attempt < maximumAttempts)
  BY <1>1, Ended DEF Release!Retries, Release!Outcomes
<1>2. CASE command[c].attempt < maximumAttempts
  <2> DEFINE a == command[c].attempt + 1
             r == [command[c] EXCEPT !.step = s, !.cursor = 0, !.seen = {}, !.attempt = a]
  <2>1. command[c] \in Release!CommandRows
    BY DEF CommandsKnow, Knows
  <2>2. 0 \in Nat /\ {} \in SUBSET Nat /\ a \in 1..maximumAttempts
    <3>1. command[c].attempt \in 1..maximumAttempts
      BY <2>1, CommandFields
    <3> QED BY <1>2, <3>1 DEF Release!ReleaseAssumption
  <2>3. command' = [command EXCEPT ![c] = r]
    BY <1>2, Zenon DEF Release!Retries
  <2> HIDE DEF a
  <2>4. r \in Release!CommandRows
    BY <2>1, <2>2, Zenon DEF Release!CommandRows
  <2>5. r.step = s /\ r.outcome = command[c].outcome /\ r.cursor = 0 /\ r.seen = {}
    BY <2>1, Zenon DEF Release!CommandRows
  <2> HIDE DEF r
  <2>6. OthersStay(c) /\ command'[c] = r
    BY <2>3, Replaced DEF CommandsKnow
  <2> QED BY <2>4, <2>5, <2>6 DEF Becomes, IsRow
<1> QED BY <1>1, <1>2

-----------------------------------------------------------------------------
(* What every step keeps, and what the conversions are told of it. *)

\* What a command came to know is true until it is done.
Onward ==
    /\ (\A p \in Posts : Good(p)) => (\A p \in Posts : Good(p)')
    /\ ledger = 2 => ledger' = 2
    /\ renderer.completed => renderer'.completed
    /\ Release!readyState => Release!readyState'
    /\ Exhausted => Exhausted'
RenderStays == renderer'.cursor = renderer.cursor /\ StalePosts' = StalePosts
ProjectStays == projection'.phase = projection.phase /\ projection'.cursor = projection.cursor

LEMMA KnowsStays ==
    ASSUME NEW r, Knows(r), Onward, \A p \in Posts : Good(p) => Good(p)',
           r.step = "write" => RenderStays, r.step = "vectors" => ProjectStays
    PROVE  Knows(r)'
<1>1. r.step = "write" => Selected(r)'
  BY DEF Knows, Selected, RenderStays
<1>2. r.step = "vectors" => Loaded(r)'
  BY DEF Knows, Loaded, ProjectStays, Release!Rows
<1>3. r.step \in Preflighted => AllGood'
  BY DEF Knows, AllGood
<1> QED BY <1>1, <1>2, <1>3 DEF Knows, Onward

\* The other commands know what they knew.
LEMMA AllKnow ==
    ASSUME CommandsKnow, NEW c \in Commands, OthersStay(c), Onward, \A p \in Posts : Good(p) => Good(p)',
           \A d \in Commands \ {c} : command[d].step = "write" => RenderStays,
           \A d \in Commands \ {c} : command[d].step = "vectors" => ProjectStays,
           Knows(command[c])'
    PROVE  CommandsKnow'
<1>1. ASSUME NEW d \in Commands \ {c} PROVE Knows(command[d])'
  <2>1. PICK x : x = command[d]
    OBVIOUS
  <2>2. Knows(x) /\ x = command'[d]
    BY <2>1 DEF CommandsKnow, OthersStay
  <2>3. (x.step = "write" => RenderStays) /\ (x.step = "vectors" => ProjectStays)
    BY <2>1
  <2>4. Knows(x)'
    BY <2>2, <2>3, KnowsStays
  <2> QED BY <2>2, <2>4 DEF Knows, Selected, Loaded
<1> QED BY <1>1 DEF CommandsKnow, OthersStay

\* The two conversions, as Conversion has them: what waits becomes less, or
\* nothing waits and the conversion is finished.
RerenderGoes ==
    \/ StalePosts' \subseteq StalePosts /\ renderer'.completed = renderer.completed
    \/ StalePosts = {} /\ StalePosts' = StalePosts /\ renderer'.completed = TRUE
ProjectGoes ==
    \/ /\ vectored \subseteq vectored' /\ WithVector \subseteq WithVector' /\ Release!readyState' = Release!readyState
    \/ /\ vectored = Topics /\ WithVector = Posts /\ Release!readyState' = TRUE
       /\ vectored' = vectored /\ WithVector' = WithVector
Goes == RerenderGoes /\ ProjectGoes

\* Nothing changes but who holds the rows of the states.
PostsStay ==
    /\ UNCHANGED <<posts, ledger, rendered, vectored>>
    /\ renderer' \in RendererRows /\ renderer'.cursor = renderer.cursor /\ renderer'.converted = renderer.converted
    /\ renderer'.completed = renderer.completed /\ renderer'.validated = renderer.validated
    /\ projection' \in ProjectionRows /\ projection'.phase = projection.phase /\ projection'.cursor = projection.cursor
    /\ projection'.topics = projection.topics /\ projection'.posts = projection.posts

LEMMA Stutters ==
    ASSUME ReleaseInv, PostsStay
    PROVE  /\ Onward /\ RenderStays /\ ProjectStays /\ Goes
           /\ \A p \in Posts : Good(p)' = Good(p)
           /\ PostsAreTrue' /\ RendererIsTrue' /\ ProjectionIsTrue'
<1> USE DEF PostsStay
<1>1. \A p \in Posts : Good(p)' = Good(p)
  BY DEF Good
<1>2. StalePosts' = StalePosts /\ Done' = Done /\ WithVector' = WithVector /\ Release!readyState' = Release!readyState
  BY DEF StalePosts, Release!Stale, Done, WithVector, Release!readyState
<1>3. Exhausted' = Exhausted
  BY <1>2 DEF Exhausted
<1>4. Onward /\ RenderStays /\ ProjectStays /\ Goes
  BY <1>1, <1>2, <1>3 DEF Onward, RenderStays, ProjectStays, Goes, RerenderGoes, ProjectGoes
<1>5. PostsAreTrue'
  BY <1>1 DEF PostsAreTrue, AllGood, ReleaseInv
<1>6. RendererIsTrue'
  BY <1>2 DEF RendererIsTrue, Release!Stale, ReleaseInv
<1>7. ProjectionIsTrue'
  BY <1>2 DEF ProjectionIsTrue, Before, ReleaseInv
<1> QED BY <1>1, <1>4, <1>5, <1>6, <1>7

LEMMA NothingMoves ==
    ASSUME ReleaseInv, UNCHANGED <<Release!stateVars, ledger>>
    PROVE  PostsStay
  BY DEF PostsStay, Release!stateVars, ReleaseInv, RendererIsTrue, ProjectionIsTrue

\* The lock of a state changes hands.
LEMMA RendererLocked ==
    ASSUME ReleaseInv, NEW x \in Commands \cup {None}, renderer' = [renderer EXCEPT !.lock = x],
           UNCHANGED <<posts, ledger, rendered, vectored, projection>>
    PROVE  PostsStay /\ renderer'.lock = x
<1>1. renderer \in RendererRows /\ projection \in ProjectionRows
  BY DEF ReleaseInv, RendererIsTrue, ProjectionIsTrue
<1>2. renderer' \in RendererRows /\ renderer'.lock = x
  BY <1>1, Zenon DEF RendererRows
<1>3. /\ renderer'.cursor = renderer.cursor /\ renderer'.converted = renderer.converted
      /\ renderer'.completed = renderer.completed /\ renderer'.validated = renderer.validated
  BY <1>1, Zenon DEF RendererRows
<1> QED BY <1>1, <1>2, <1>3 DEF PostsStay

LEMMA ProjectionLocked ==
    ASSUME ReleaseInv, NEW x \in Commands \cup {None}, projection' = [projection EXCEPT !.lock = x],
           UNCHANGED <<posts, ledger, rendered, vectored, renderer>>
    PROVE  PostsStay /\ projection'.lock = x
<1>1. renderer \in RendererRows /\ projection \in ProjectionRows
  BY DEF ReleaseInv, RendererIsTrue, ProjectionIsTrue
<1>2. projection' \in ProjectionRows /\ projection'.lock = x
  BY <1>1, Zenon DEF ProjectionRows
<1>3. /\ projection'.phase = projection.phase /\ projection'.cursor = projection.cursor
      /\ projection'.topics = projection.topics /\ projection'.posts = projection.posts
  BY <1>1, Zenon DEF ProjectionRows
<1> QED BY <1>1, <1>2, <1>3 DEF PostsStay

-----------------------------------------------------------------------------
(* Steps of a command that change no row. *)

\* A command that is not idle finds the board stopped.
LEMMA Stopped ==
    ASSUME BoardsAreTrue, NEW c \in Commands, command[c].step # "idle"
    PROVE  serving = "stopped"
  BY DEF BoardsAreTrue, Release!Resting

\* A command steps from where it holds nothing to where it holds nothing.
LEMMA OnlyTheCommand ==
    ASSUME ReleaseInv, UNCHANGED <<Release!stateVars, ledger, serving>>, faults' \in 0..MaxFaults,
           NEW c \in Commands, serving = "stopped", OthersStay(c),
           command[c].step \notin {"write", "vectors"}, command'[c].step \notin {"write", "vectors"},
           Knows(command'[c])
    PROVE  ReleaseInv' /\ Goes
<1>1. /\ Onward /\ RenderStays /\ ProjectStays /\ Goes /\ \A p \in Posts : Good(p)' = Good(p)
      /\ PostsAreTrue' /\ RendererIsTrue' /\ ProjectionIsTrue'
  BY NothingMoves, Stutters
<1>2. CommandsKnow'
  <2>1. Knows(command[c])'
    <3>1. PICK x : x = command'[c]
      OBVIOUS
    <3>2. Knows(x)'
      BY <1>1, <3>1, KnowsStays
    <3> QED BY <3>1, <3>2 DEF Knows, Selected, Loaded
  <2> QED BY <1>1, <2>1, AllKnow DEF ReleaseInv
<1>3. LocksAreHeld'
  BY DEF LocksAreHeld, ReleaseInv, OthersStay, Release!stateVars
<1>4. BoardsAreTrue'
  <2>1. serving' = "stopped"
    OBVIOUS
  <2> QED BY <2>1 DEF BoardsAreTrue
<1> QED BY <1>1, <1>2, <1>3, <1>4 DEF ReleaseInv

\* A command that ends: it failed, or has come to its end.
LEMMA OnlyEnds ==
    ASSUME Release!ReleaseAssumption, ReleaseInv, UNCHANGED <<Release!stateVars, ledger, serving>>, faults' \in 0..MaxFaults,
           NEW c \in Commands, NEW s, NEW o, Becomes(c, s, o, 0, {}),
           command[c].step \notin {"write", "vectors"}, serving = "stopped", o # "refused",
           s \in {"idle", "inspect", "server", "search", "apply", "render", "project", "analyze", "ready"},
           s \notin {"idle", "inspect"} => AllGood,
           s \in Converting => ledger = 2, s \in Projecting => renderer.completed,
           s = "analyze" => Exhausted, s = "ready" => Release!readyState
    PROVE  ReleaseInv' /\ Goes
<1>1. command'[c].step = s /\ OthersStay(c)
  BY DEF Becomes, IsRow
<1>2. Knows(command'[c])
  <2>1. PICK r : r = command'[c]
    OBVIOUS
  <2>2. r \in Release!CommandRows /\ r.step = s /\ r.outcome = o /\ r.cursor = 0
    BY <2>1 DEF Becomes, IsRow
  <2>3. r.step \in Preflighted => AllGood
    BY <2>2 DEF Preflighted
  <2> QED BY <2>1, <2>2, <2>3 DEF Knows
<1> QED BY <1>1, <1>2, OnlyTheCommand

LEMMA StartCommandKeeps ==
    ASSUME Release!ReleaseAssumption, ReleaseInv, NEW c \in Commands, Release!StartCommand(c)
    PROVE  ReleaseInv' /\ Goes
<1>1. Becomes(c, "inspect", "none", 0, {})
  BY Began DEF Release!StartCommand, Release!Steps, ReleaseInv
<1>2. faults' \in 0..MaxFaults
  BY DEF Release!StartCommand, ReleaseInv, BoardsAreTrue
<1> QED BY <1>1, <1>2, OnlyEnds DEF Release!StartCommand, Converting, Projecting

LEMMA InspectKeeps ==
    ASSUME Release!ReleaseAssumption, ReleaseInv, NEW c \in Commands, Release!inspectPreflightState(c),
           UNCHANGED <<vectored, projection, serving>>
    PROVE  ReleaseInv' /\ Goes
<1> DEFINE r == [command[c] EXCEPT !.step = "preflight", !.alpha3 = ledger >= 1]
<1>1. command[c] \in Release!CommandRows /\ command[c].step = "inspect" /\ command[c].cursor = 0
  BY DEF Release!inspectPreflightState, ReleaseInv, CommandsKnow, Knows
<1>2. r \in Release!CommandRows
  <2>1. (ledger >= 1) \in BOOLEAN /\ "preflight" \in Release!Steps
    BY DEF Release!Steps
  <2> QED BY <1>1, <2>1, Zenon DEF Release!CommandRows
<1>3. r.step = "preflight" /\ r.outcome = command[c].outcome /\ r.cursor = 0
  BY <1>1, Zenon DEF Release!CommandRows
<1>4. command' = [command EXCEPT ![c] = r]
  BY DEF Release!inspectPreflightState
<1> HIDE DEF r
<1>5. OthersStay(c) /\ command'[c] = r
  BY <1>4, Replaced DEF ReleaseInv, CommandsKnow
<1>6. Knows(r)
  <2>1. \A p \in Posts : ~(p <= 0)
    BY DEF Release!ReleaseAssumption
  <2>2. r.outcome # "refused"
    BY <1>3 DEF ReleaseInv, CommandsKnow, Knows
  <2> QED BY <1>2, <1>3, <2>1, <2>2 DEF Knows, Preflighted, Converting, Projecting
<1>7. faults' \in 0..MaxFaults /\ serving = "stopped" /\ UNCHANGED <<Release!stateVars, ledger, serving>>
  BY <1>1, Stopped DEF Release!inspectPreflightState, ReleaseInv, BoardsAreTrue, Release!stateVars
<1> QED BY <1>1, <1>3, <1>5, <1>6, <1>7, OnlyTheCommand

\* A page of posts that the preflight admits takes the command beyond it, or
\* it has seen all.
LEMMA PreflightPage ==
    ASSUME Release!ReleaseAssumption, NEW cursor \in Nat, \A p \in Posts : p <= cursor => Good(p),
           \A p \in Release!Page(Posts, cursor) : Good(p)
    PROVE  /\ Release!Cardinality(Release!Page(Posts, cursor)) < BatchSize => AllGood
           /\ ~(Release!Cardinality(Release!Page(Posts, cursor)) < BatchSize) =>
                /\ Release!Max(Release!Page(Posts, cursor)) \in Nat
                /\ \A p \in Posts : p <= Release!Max(Release!Page(Posts, cursor)) => Good(p)
<1> DEFINE page == Release!Page(Posts, cursor)
<1>1. Posts \in SUBSET Nat /\ Release!IsFiniteSet(Posts)
  BY DEF Release!ReleaseAssumption
<1>2. Release!Cardinality(page) < BatchSize => \A r \in Posts : r > cursor => r \in page
  BY <1>1, PageRows
<1>3. page = {} => Release!Cardinality(page) < BatchSize
  BY CountingEmptySet DEF Release!ReleaseAssumption
<1>4. page # {} => /\ Release!Max(page) \in Posts
                   /\ \A r \in Posts : r \in page <=> r > cursor /\ r <= Release!Max(page)
  BY <1>1, PageEnds
<1>5. \A p \in page : Good(p)
  OBVIOUS
<1> HIDE DEF page
<1>6. Release!Cardinality(page) < BatchSize => AllGood
  BY <1>1, <1>2, <1>5 DEF AllGood
<1>7. ASSUME page # {} PROVE Release!Max(page) \in Nat /\ \A p \in Posts : p <= Release!Max(page) => Good(p)
  <2>1. Release!Max(page) \in Nat
    BY <1>1, <1>4, <1>7
  <2>2. ASSUME NEW p \in Posts, p <= Release!Max(page) PROVE Good(p)
    BY <1>1, <1>4, <1>5, <1>7, <2>2
  <2> QED BY <2>1, <2>2
<1> QED BY <1>3, <1>6, <1>7 DEF page

LEMMA PreflightBatchKeeps ==
    ASSUME Release!ReleaseAssumption, ReleaseInv, NEW c \in Commands, Release!preflightBatch(c),
           UNCHANGED <<vectored, projection, serving>>
    PROVE  ReleaseInv' /\ Goes
<1> DEFINE page == Release!Page(Posts, command[c].cursor)
<1>1. command[c] \in Release!CommandRows /\ command[c].step = "preflight" /\ command[c].outcome # "refused"
  BY DEF Release!preflightBatch, ReleaseInv, CommandsKnow, Knows
<1>2. command[c].cursor \in Nat /\ \A p \in Posts : p <= command[c].cursor => Good(p)
  BY <1>1, CommandFields DEF ReleaseInv, CommandsKnow, Knows
<1>3. faults' \in 0..MaxFaults /\ serving = "stopped" /\ UNCHANGED <<Release!stateVars, ledger, serving>>
  BY <1>1, Stopped DEF Release!preflightBatch, ReleaseInv, BoardsAreTrue, Release!stateVars
<1>4. CASE Release!Ends(c, "failed")
  <2>1. Becomes(c, "idle", "failed", 0, {})
    BY <1>4, Ended DEF ReleaseInv, Release!Outcomes
  <2> QED BY <1>1, <1>3, <2>1, OnlyEnds DEF Converting, Projecting
<1>5. CASE ~(\E p \in page : ~Release!preflightPost(posts[p], command[c].alpha3))
  <2>1. \A p \in page : Good(p)
    BY <1>5 DEF Good, Release!preflightPost
  <2>2. CASE Release!Cardinality(page) < BatchSize
    <3>1. AllGood
      BY <1>2, <2>1, <2>2, PreflightPage
    <3>2. Release!Proceeds(c, "preflight")
      BY <1>5, <2>2 DEF Release!preflightBatch
    <3>3. Becomes(c, "server", "none", 0, {})
      BY <3>2, Proceeded DEF ReleaseInv
    <3> QED BY <1>1, <1>3, <3>1, <3>3, OnlyEnds DEF Converting, Projecting
  <2>3. CASE ~(Release!Cardinality(page) < BatchSize)
    <3> DEFINE r == [command[c] EXCEPT !.cursor = Release!Max(page)]
    <3>1. Release!Max(page) \in Nat /\ \A p \in Posts : p <= Release!Max(page) => Good(p)
      BY <1>2, <2>1, <2>3, PreflightPage
    <3>2. command' = [command EXCEPT ![c] = r]
      BY <1>5, <2>3 DEF Release!preflightBatch
    <3> HIDE DEF page
    <3>3. r \in Release!CommandRows
      BY <1>1, <3>1, Zenon DEF Release!CommandRows
    <3>4. r.step = "preflight" /\ r.outcome = command[c].outcome /\ r.cursor = Release!Max(page)
      BY <1>1, Zenon DEF Release!CommandRows
    <3> HIDE DEF r
    <3>5. OthersStay(c) /\ command'[c] = r
      BY <3>2, Replaced DEF ReleaseInv, CommandsKnow
    <3>6. Knows(r)
      BY <1>1, <3>1, <3>3, <3>4 DEF Knows, Preflighted, Converting, Projecting
    <3> QED BY <1>1, <1>3, <3>4, <3>5, <3>6, OnlyTheCommand
  <2> QED BY <2>2, <2>3
<1> QED BY <1>4, <1>5 DEF Release!preflightBatch

\* What a command that steps can be sure of.
LEMMA AtWork ==
    ASSUME Release!ReleaseAssumption, ReleaseInv, NEW c \in Commands
    PROVE  /\ command[c] \in Release!CommandRows /\ command[c].cursor \in Nat /\ command[c].outcome # "refused"
           /\ command[c].step # "idle" => serving = "stopped"
           /\ command[c].step \in Preflighted => AllGood
           /\ command[c].step \in Converting => ledger = 2
           /\ command[c].step \in Projecting => renderer.completed
           /\ faults \in 0..MaxFaults /\ (Release!Fault => faults' \in 0..MaxFaults)
<1>1. Knows(command[c])
  BY DEF ReleaseInv, CommandsKnow
<1>2. command[c] \in Release!CommandRows
  BY <1>1 DEF Knows
<1>3. command[c].cursor \in Nat
  BY <1>2, CommandFields
<1>4. faults \in 0..MaxFaults /\ (Release!Fault => faults' \in 0..MaxFaults)
  BY DEF ReleaseInv, BoardsAreTrue, Release!Fault, Release!ReleaseAssumption
<1>5. command[c].step # "idle" => serving = "stopped"
  BY Stopped DEF ReleaseInv
<1> QED BY <1>1, <1>2, <1>3, <1>4, <1>5 DEF Knows

\* A step of a command that fails on the way and has changed nothing.
LEMMA OnlyFails ==
    ASSUME Release!ReleaseAssumption, ReleaseInv, UNCHANGED <<Release!stateVars, ledger, serving>>, faults' \in 0..MaxFaults,
           NEW c \in Commands, Release!Ends(c, "failed"),
           command[c].step \notin {"idle", "write", "vectors"}
    PROVE  ReleaseInv' /\ Goes
<1>1. Becomes(c, "idle", "failed", 0, {})
  BY Ended DEF ReleaseInv, Release!Outcomes
<1>2. serving = "stopped"
  BY AtWork
<1> QED BY <1>1, <1>2, OnlyEnds DEF Converting, Projecting

LEMMA InspectServerKeeps ==
    ASSUME Release!ReleaseAssumption, ReleaseInv, NEW c \in Commands, Release!inspectServer(c), UNCHANGED serving
    PROVE  ReleaseInv' /\ Goes
<1> DEFINE converted == ledger = 2 /\ projection.phase = "complete"
           r == [command[c] EXCEPT !.step = "search", !.current = converted]
<1>1. command[c] \in Release!CommandRows /\ command[c].step = "server" /\ command[c].outcome # "refused"
  BY AtWork DEF Release!inspectServer
<1>2. converted \in BOOLEAN /\ "search" \in Release!Steps
  BY DEF Release!Steps
<1>3. command' = [command EXCEPT ![c] = r]
  BY DEF Release!inspectServer
<1> HIDE DEF converted
<1>4. r \in Release!CommandRows
  BY <1>1, <1>2, Zenon DEF Release!CommandRows
<1>5. r.step = "search" /\ r.outcome = command[c].outcome
  BY <1>1, Zenon DEF Release!CommandRows
<1> HIDE DEF r
<1>6. OthersStay(c) /\ command'[c] = r
  BY <1>3, Replaced DEF ReleaseInv, CommandsKnow
<1>7. AllGood /\ serving = "stopped" /\ faults' \in 0..MaxFaults
  BY <1>1, AtWork DEF Release!inspectServer, Preflighted, Release!Steps
<1>8. Knows(r)
  BY <1>1, <1>4, <1>5, <1>7 DEF Knows, Converting, Projecting
<1>9. UNCHANGED <<Release!stateVars, ledger, serving>>
  BY DEF Release!inspectServer, Release!renderedVars, Release!stateVars
<1> QED BY <1>1, <1>5, <1>6, <1>7, <1>8, <1>9, OnlyTheCommand

LEMMA PreflightKindKeeps ==
    ASSUME Release!ReleaseAssumption, ReleaseInv, NEW c \in Commands, Release!preflightKind(c), UNCHANGED serving
    PROVE  ReleaseInv' /\ Goes
<1> DEFINE page == Release!Page(Posts, command[c].cursor)
<1>1. /\ command[c] \in Release!CommandRows /\ command[c].step = "search" /\ command[c].outcome # "refused"
      /\ command[c].cursor \in Nat
  BY AtWork DEF Release!preflightKind
<1>2. AllGood /\ serving = "stopped" /\ faults' \in 0..MaxFaults
  BY <1>1, AtWork DEF Release!preflightKind, Preflighted, Release!Steps
<1>3. UNCHANGED <<Release!stateVars, ledger, serving>>
  BY DEF Release!preflightKind, Release!renderedVars, Release!stateVars
<1>4. CASE Release!Ends(c, "failed")
  BY <1>1, <1>2, <1>3, <1>4, OnlyFails
<1>5. CASE Release!Proceeds(c, "search")
  <2>1. Becomes(c, "apply", "none", 0, {})
    BY <1>5, Proceeded DEF ReleaseInv
  <2> QED BY <1>1, <1>2, <1>3, <2>1, OnlyEnds DEF Converting, Projecting
<1>6. CASE ~(Release!Cardinality(page) < BatchSize) /\ command' = [command EXCEPT ![c].cursor = Release!Max(page)]
  <2> DEFINE r == [command[c] EXCEPT !.cursor = Release!Max(page)]
  <2>1. Release!Max(page) \in Nat
    <3>1. \A p \in Posts : Good(p)
      BY <1>2 DEF AllGood
    <3>2. page \subseteq Posts
      BY DEF Release!Page
    <3> QED BY <1>1, <1>6, <3>1, <3>2, PreflightPage
  <2> HIDE DEF page
  <2>2. r \in Release!CommandRows
    BY <1>1, <2>1, Zenon DEF Release!CommandRows
  <2>3. r.step = "search" /\ r.outcome = command[c].outcome
    BY <1>1, Zenon DEF Release!CommandRows
  <2>4. command' = [command EXCEPT ![c] = r]
    BY <1>6
  <2> HIDE DEF r
  <2>5. OthersStay(c) /\ command'[c] = r
    BY <2>4, Replaced DEF ReleaseInv, CommandsKnow
  <2>6. Knows(r)
    BY <1>1, <1>2, <2>2, <2>3 DEF Knows, Converting, Projecting
  <2> QED BY <1>1, <1>2, <1>3, <2>3, <2>5, <2>6, OnlyTheCommand
<1> QED BY <1>4, <1>5, <1>6 DEF Release!preflightKind

LEMMA EndOfRowsKeeps ==
    ASSUME Release!ReleaseAssumption, ReleaseInv, NEW c \in Commands, Release!EndOfRows(c), UNCHANGED serving
    PROVE  ReleaseInv' /\ Goes
<1>1. command[c].step = "project"
  BY DEF Release!EndOfRows
<1>2. AllGood /\ ledger = 2 /\ renderer.completed /\ serving = "stopped" /\ faults' \in 0..MaxFaults
  BY <1>1, AtWork DEF Release!EndOfRows, Preflighted, Release!Steps, Converting, Projecting
<1>3. UNCHANGED <<Release!stateVars, ledger, serving>>
  BY DEF Release!EndOfRows, Release!renderedVars, Release!stateVars
<1>4. CASE projection.phase = "complete" /\ Release!Begins(c, "ready")
  <2>1. Becomes(c, "ready", "none", 0, {})
    BY <1>4, Began DEF ReleaseInv, Release!Steps
  <2> QED BY <1>1, <1>2, <1>3, <1>4, <2>1, OnlyEnds DEF Release!readyState
<1>5. CASE projection.phase = "posts" /\ Release!Page(Release!Rows, projection.cursor) = {} /\ Release!Begins(c, "analyze")
  <2>1. Becomes(c, "analyze", "none", 0, {})
    BY <1>5, Began DEF ReleaseInv, Release!Steps
  <2>2. Exhausted
    BY <1>5 DEF Exhausted, Release!Rows
  <2> QED BY <1>1, <1>2, <1>3, <2>1, <2>2, OnlyEnds
<1> QED BY <1>4, <1>5 DEF Release!EndOfRows

LEMMA ReadyKeeps ==
    ASSUME Release!ReleaseAssumption, ReleaseInv, NEW c \in Commands, Release!Ready(c), UNCHANGED serving
    PROVE  ReleaseInv' /\ Goes
<1>1. command[c].step = "ready"
  BY DEF Release!Ready
<1>2. serving = "stopped" /\ faults' \in 0..MaxFaults
  BY <1>1, AtWork DEF Release!Ready
<1>3. UNCHANGED <<Release!stateVars, ledger, serving>>
  BY DEF Release!Ready, Release!renderedVars, Release!stateVars
<1>4. CASE Release!Proceeds(c, "project")
  <2>1. Becomes(c, "idle", "complete", 0, {})
    BY <1>4, Proceeded DEF ReleaseInv
  <2> QED BY <1>1, <1>2, <1>3, <2>1, OnlyEnds DEF Converting, Projecting
<1>5. CASE Release!Ends(c, "failed")
  BY <1>1, <1>2, <1>3, <1>5, OnlyFails
<1> QED BY <1>4, <1>5 DEF Release!Ready

-----------------------------------------------------------------------------
(* The migrations. *)

\* Nothing is converted before the schema is there, and nothing is unconverted by it.
LEMMA MigrationsMove ==
    ASSUME Release!ReleaseAssumption, ReleaseInv, AllGood, UNCHANGED Release!stateVars, ledger < 2, ledger' \in {ledger, ledger + 1}
    PROVE  /\ PostsAreTrue' /\ RendererIsTrue' /\ ProjectionIsTrue' /\ Goes /\ Onward
           /\ RenderStays /\ ProjectStays /\ \A p \in Posts : Good(p)' = Good(p)
<1> USE DEF Release!stateVars
<1>1. \A p \in Posts : Good(p)' = Good(p)
  BY DEF Good
<1>2. StalePosts' = StalePosts /\ Done' = Done /\ WithVector' = WithVector /\ Release!readyState' = Release!readyState
  BY DEF StalePosts, Release!Stale, Done, WithVector, Release!readyState
<1>3. Exhausted' = Exhausted
  BY <1>2 DEF Exhausted
<1>4. ledger \in 0..2 /\ ledger' \in 0..2 /\ (ledger' = 0 => ledger = 0) /\ ledger # 2
  BY DEF ReleaseInv, PostsAreTrue
<1>5. Onward /\ RenderStays /\ ProjectStays /\ Goes
  BY <1>1, <1>2, <1>3, <1>4 DEF Onward, RenderStays, ProjectStays, Goes, RerenderGoes, ProjectGoes
<1>6. PostsAreTrue'
  BY <1>1, <1>4 DEF PostsAreTrue, AllGood, ReleaseInv
<1>7. RendererIsTrue'
  BY <1>2, <1>4 DEF RendererIsTrue, Release!Stale, ReleaseInv
<1>8. ProjectionIsTrue'
  BY <1>2 DEF ProjectionIsTrue, Before, ReleaseInv
<1> QED BY <1>1, <1>5, <1>6, <1>7, <1>8

LEMMA ApplyKeeps ==
    ASSUME Release!ReleaseAssumption, ReleaseInv, NEW c \in Commands, Release!ApplyMigrations(c)
    PROVE  ReleaseInv' /\ Goes
<1>1. command[c].step = "apply" /\ UNCHANGED <<Release!stateVars, serving>>
  BY DEF Release!ApplyMigrations
<1>2. AllGood /\ serving = "stopped" /\ faults \in 0..MaxFaults /\ (Release!Fault => faults' \in 0..MaxFaults)
  BY <1>1, AtWork DEF Preflighted, Release!Steps
<1>3. CASE ledger < 2 /\ ledger' = ledger + 1 /\ UNCHANGED <<command, faults>>
  <2>1. /\ PostsAreTrue' /\ RendererIsTrue' /\ ProjectionIsTrue' /\ Goes /\ Onward
        /\ RenderStays /\ ProjectStays /\ \A p \in Posts : Good(p)' = Good(p)
    BY <1>1, <1>2, <1>3, MigrationsMove
  <2>2. CommandsKnow'
    <3>1. ASSUME NEW d \in Commands PROVE Knows(command[d])'
      <4>1. PICK x : x = command[d] /\ x = command'[d]
        BY <1>3
      <4>2. Knows(x)
        BY <4>1 DEF ReleaseInv, CommandsKnow
      <4>3. Knows(x)'
        BY <2>1, <4>2, KnowsStays
      <4> QED BY <4>1, <4>3 DEF Knows, Selected, Loaded
    <3> QED BY <1>3, <3>1 DEF CommandsKnow, ReleaseInv
  <2>3. LocksAreHeld' /\ BoardsAreTrue'
    BY <1>1, <1>2, <1>3 DEF LocksAreHeld, BoardsAreTrue, ReleaseInv, Release!stateVars
  <2> QED BY <2>1, <2>2, <2>3 DEF ReleaseInv
<1>4. CASE ledger < 2 /\ ledger' \in {ledger, ledger + 1} /\ Release!Fault /\ Release!Ends(c, "failed")
  <2>1. /\ PostsAreTrue' /\ RendererIsTrue' /\ ProjectionIsTrue' /\ Goes /\ Onward
        /\ RenderStays /\ ProjectStays /\ \A p \in Posts : Good(p)' = Good(p)
    BY <1>1, <1>2, <1>4, MigrationsMove
  <2>2. Becomes(c, "idle", "failed", 0, {})
    BY <1>4, Ended DEF ReleaseInv, Release!Outcomes
  <2>3. Knows(command[c])'
    BY <2>2 DEF Becomes, IsRow, Knows, Preflighted, Converting, Projecting
  <2>4. CommandsKnow'
    BY <2>1, <2>2, <2>3, AllKnow DEF Becomes, ReleaseInv
  <2>5. LocksAreHeld'
    BY <1>1, <2>2 DEF Becomes, IsRow, OthersStay, LocksAreHeld, ReleaseInv, Release!stateVars
  <2>6. BoardsAreTrue'
    BY <1>1, <1>2, <1>4 DEF BoardsAreTrue
  <2> QED BY <2>1, <2>4, <2>5, <2>6 DEF ReleaseInv
<1>5. CASE ledger = 2 /\ Release!Proceeds(c, "apply") /\ UNCHANGED <<ledger, faults>>
  <2>1. Becomes(c, "render", "none", 0, {})
    BY <1>5, Proceeded DEF ReleaseInv
  <2> QED BY <1>1, <1>2, <1>5, <2>1, OnlyEnds DEF Projecting
<1> QED BY <1>3, <1>4, <1>5 DEF Release!ApplyMigrations

-----------------------------------------------------------------------------
(* Steps of a command that lock a state or give it up. *)

LEMMA LockMoves ==
    ASSUME ReleaseInv, PostsStay, NEW c \in Commands, OthersStay(c), Knows(command[c])', LocksAreHeld',
           serving = "stopped", UNCHANGED serving, faults' \in 0..MaxFaults
    PROVE  ReleaseInv' /\ Goes
<1>1. /\ Onward /\ RenderStays /\ ProjectStays /\ Goes /\ \A p \in Posts : Good(p)' = Good(p)
      /\ PostsAreTrue' /\ RendererIsTrue' /\ ProjectionIsTrue'
  BY Stutters
<1>2. CommandsKnow'
  BY <1>1, AllKnow DEF ReleaseInv
<1>3. BoardsAreTrue'
  BY DEF BoardsAreTrue
<1> QED BY <1>1, <1>2, <1>3 DEF ReleaseInv

\* Who ends or begins again, with both states given up, leaves the rows alone.
LEMMA GivesUp ==
    ASSUME Release!ReleaseAssumption, ReleaseInv, PostsStay, NEW c \in Commands,
           NEW s \in {"idle", "render", "project"}, NEW o, o # "refused", Becomes(c, s, o, 0, {}),
           command[c].step # "idle", s # "idle" => AllGood /\ ledger = 2,
           s = "project" => renderer.completed,
           renderer'.lock # c /\ projection'.lock # c,
           \A d \in Commands \ {c} : renderer'.lock = d <=> renderer.lock = d,
           \A d \in Commands \ {c} : projection'.lock = d <=> projection.lock = d,
           UNCHANGED serving, faults' \in 0..MaxFaults
    PROVE  ReleaseInv' /\ Goes
<1>1. OthersStay(c) /\ command'[c].step = s
  BY DEF Becomes, IsRow
<1>2. AllGood => AllGood'
  BY Stutters DEF AllGood
<1>3. Knows(command[c])'
  <2>1. command'[c] \in Release!CommandRows /\ command'[c].outcome # "refused"
    BY DEF Becomes, IsRow
  <2>2. s # "idle" => AllGood' /\ ledger' = 2
    BY <1>2 DEF PostsStay
  <2>3. s = "project" => renderer'.completed
    BY DEF PostsStay
  <2> QED BY <1>1, <2>1, <2>2, <2>3 DEF Knows, Preflighted, Converting, Projecting
<1>4. LocksAreHeld'
  <2>1. ASSUME NEW d \in Commands
        PROVE  /\ renderer'.lock = d <=> command'[d].step = "write"
               /\ projection'.lock = d <=> command'[d].step = "vectors"
    <3>1. CASE d = c
      BY <1>1, <3>1
    <3>2. CASE d # c
      BY <1>1, <3>2 DEF OthersStay, LocksAreHeld, ReleaseInv
    <3> QED BY <3>1, <3>2
  <2> QED BY <2>1 DEF LocksAreHeld
<1>5. serving = "stopped"
  BY AtWork
<1> QED BY <1>1, <1>3, <1>4, <1>5, LockMoves

\* Nobody is None.
LEMMA Locks ==
    ASSUME Release!ReleaseAssumption, ReleaseInv, NEW c \in Commands
    PROVE  /\ None # c
           /\ command[c].step = "write" => renderer.lock = c /\ projection.lock # c
           /\ command[c].step = "vectors" => projection.lock = c /\ renderer.lock # c
           /\ command[c].step \notin {"write", "vectors"} => projection.lock # c /\ renderer.lock # c
  BY DEF Release!ReleaseAssumption, ReleaseInv, LocksAreHeld

LEMMA CrashKeeps ==
    ASSUME Release!ReleaseAssumption, ReleaseInv, NEW c \in Commands, Release!Crash(c)
    PROVE  ReleaseInv' /\ Goes
<1>1. command[c].step # "idle" /\ Becomes(c, "idle", "failed", 0, {}) /\ faults' \in 0..MaxFaults /\ UNCHANGED serving
  BY Ended, AtWork DEF Release!Crash, ReleaseInv, Release!Outcomes
<1>2. /\ PostsStay /\ renderer'.lock # c /\ projection'.lock # c
      /\ \A d \in Commands \ {c} : renderer'.lock = d <=> renderer.lock = d
      /\ \A d \in Commands \ {c} : projection'.lock = d <=> projection.lock = d
  <2>1. \A d \in Commands : None # d
    BY Locks
  <2>2. None \in Commands \cup {None}
    OBVIOUS
  <2>3. CASE command[c].step = "write"
    <3>1. renderer.lock = c /\ projection.lock # c
      BY <2>3, Locks
    <3>2. renderer' = [renderer EXCEPT !.lock = None] /\ UNCHANGED <<posts, ledger, rendered, vectored, projection>>
      BY <3>1 DEF Release!Crash
    <3>3. PostsStay /\ renderer'.lock = None
      BY <2>2, <3>2, RendererLocked
    <3> QED BY <2>1, <3>1, <3>2, <3>3
  <2>4. CASE command[c].step = "vectors"
    <3>1. projection.lock = c /\ renderer.lock # c
      BY <2>4, Locks
    <3>2. projection' = [projection EXCEPT !.lock = None] /\ UNCHANGED <<posts, ledger, rendered, vectored, renderer>>
      BY <3>1 DEF Release!Crash
    <3>3. PostsStay /\ projection'.lock = None
      BY <2>2, <3>2, ProjectionLocked
    <3> QED BY <2>1, <3>1, <3>2, <3>3
  <2>5. CASE command[c].step \notin {"write", "vectors"}
    <3>1. projection.lock # c /\ renderer.lock # c
      BY <2>5, Locks
    <3>2. UNCHANGED <<Release!stateVars, ledger>>
      BY <3>1 DEF Release!Crash, Release!stateVars
    <3> QED BY <3>1, <3>2, NothingMoves DEF Release!stateVars
  <2> QED BY <2>3, <2>4, <2>5
<1> QED BY <1>1, <1>2, GivesUp

\* The rows of a page are rows, and numbers.
LEMMA StaleFacts ==
    ASSUME Release!ReleaseAssumption, ReleaseInv
    PROVE  /\ StalePosts \in SUBSET Nat /\ StalePosts \subseteq Posts /\ Release!IsFiniteSet(StalePosts)
           /\ StalePosts = {p \in Posts : Release!Stale(p)}
           /\ renderer.cursor \in Nat /\ projection.cursor \in Nat
           /\ Release!Rows \in SUBSET Nat /\ Release!IsFiniteSet(Release!Rows)
           /\ AllGood => \A p \in StalePosts : Release!Admitted(posts[p])
<1>1. Posts \in SUBSET Nat /\ Release!IsFiniteSet(Posts) /\ Topics \in SUBSET Nat /\ Release!IsFiniteSet(Topics)
  BY DEF Release!ReleaseAssumption
<1>2. StalePosts \subseteq Posts
  BY DEF StalePosts
<1>3. Release!IsFiniteSet(StalePosts)
  BY <1>1, <1>2, CountingSubset
<1>4. renderer.cursor \in Nat
  BY DEF ReleaseInv, RendererIsTrue, RendererRows
<1>5. projection.cursor \in Nat
  BY DEF ReleaseInv, ProjectionIsTrue, ProjectionRows
<1>6. AllGood => \A p \in StalePosts : Release!Admitted(posts[p])
  BY DEF AllGood, Good, Release!preflightPost, StalePosts, Release!Stale
<1> QED BY <1>1, <1>2, <1>3, <1>4, <1>5, <1>6 DEF StalePosts, Release!Rows

\* Any row that says what a command has selected.
LEMMA Selects ==
    ASSUME Release!ReleaseAssumption, ReleaseInv, NEW c \in Commands, NEW s \in {"write", "vectors"},
           NEW cursor \in Nat, NEW page \in SUBSET Nat,
           command' = [command EXCEPT ![c].step = s, ![c].cursor = cursor, ![c].seen = page]
    PROVE  Becomes(c, s, command[c].outcome, cursor, page)
<1> DEFINE r == [command[c] EXCEPT !.step = s, !.cursor = cursor, !.seen = page]
<1>1. command[c] \in Release!CommandRows
  BY AtWork
<1>2. s \in Release!Steps
  BY DEF Release!Steps
<1>3. r \in Release!CommandRows
  BY <1>1, <1>2, Zenon DEF Release!CommandRows
<1>4. r.step = s /\ r.outcome = command[c].outcome /\ r.cursor = cursor /\ r.seen = page
  BY <1>1, Zenon DEF Release!CommandRows
<1>5. command' = [command EXCEPT ![c] = r]
  OBVIOUS
<1> HIDE DEF r
<1>6. OthersStay(c) /\ command'[c] = r
  BY <1>5, Replaced DEF ReleaseInv, CommandsKnow
<1> QED BY <1>3, <1>4, <1>6 DEF Becomes, IsRow

LEMMA SelectBatchKeeps ==
    ASSUME Release!ReleaseAssumption, ReleaseInv, NEW c \in Commands, Release!SelectBatch(c), UNCHANGED <<vectored, projection, serving>>
    PROVE  ReleaseInv' /\ Goes
<1> DEFINE page == Release!Page({p \in Posts : Release!Stale(p)}, renderer.cursor)
<1>1. command[c].step = "render" /\ renderer.lock = None /\ UNCHANGED <<posts, ledger, rendered, vectored, projection>>
  BY DEF Release!SelectBatch
<1>2. /\ command[c].outcome # "refused" /\ AllGood /\ ledger = 2
      /\ serving = "stopped" /\ faults' \in 0..MaxFaults
  BY <1>1, AtWork DEF Release!SelectBatch, Preflighted, Release!Steps, Converting
<1>3. page = Release!Page(StalePosts, renderer.cursor) /\ page \subseteq StalePosts /\ page \in SUBSET Nat /\ renderer.cursor \in Nat
  <2>1. page = Release!Page(StalePosts, renderer.cursor)
    BY DEF StalePosts
  <2> HIDE DEF page
  <2> QED BY <2>1, StaleFacts, PageRows
<1>4. \A p \in page : Release!Admitted(posts[p])
  <2> HIDE DEF page
  <2> QED BY <1>2, <1>3, StaleFacts
<1>5. /\ page # {} /\ renderer' = [renderer EXCEPT !.lock = c]
      /\ command' = [command EXCEPT ![c].step = "write", ![c].cursor = renderer.cursor, ![c].seen = page]
  BY <1>4 DEF Release!SelectBatch
<1> HIDE DEF page
<1>6. PostsStay /\ renderer'.lock = c
  BY <1>1, <1>5, RendererLocked
<1>7. Becomes(c, "write", command[c].outcome, renderer.cursor, page)
  BY <1>3, <1>5, Selects
<1>8. OthersStay(c) /\ command'[c].step = "write"
  BY <1>7 DEF Becomes, IsRow
<1>9. Knows(command[c])'
  <2>1. StalePosts' = StalePosts /\ renderer'.cursor = renderer.cursor /\ AllGood' /\ ledger' = 2
    BY <1>2, <1>6, Stutters DEF RenderStays, PostsStay, AllGood
  <2>2. Selected(command[c])'
    BY <1>3, <1>5, <1>7, <2>1 DEF Becomes, IsRow, Selected
  <2> QED BY <1>2, <1>7, <2>1, <2>2 DEF Becomes, IsRow, Knows, Projecting
<1>10. LocksAreHeld'
  BY <1>1, <1>6, <1>8, Locks DEF LocksAreHeld, ReleaseInv, OthersStay
<1> QED BY <1>1, <1>2, <1>6, <1>8, <1>9, <1>10, LockMoves

LEMMA LoadKeeps ==
    ASSUME Release!ReleaseAssumption, ReleaseInv, NEW c \in Commands, Release!loadMutationCandidates(c), UNCHANGED serving
    PROVE  ReleaseInv' /\ Goes
<1> DEFINE page == Release!Page(Release!Rows, projection.cursor)
<1>1. command[c].step = "project" /\ projection.lock = None /\ UNCHANGED <<posts, ledger, rendered, vectored, renderer>>
  BY DEF Release!loadMutationCandidates, Release!lockState, Release!renderedVars
<1>2. /\ command[c].outcome # "refused" /\ AllGood /\ ledger = 2 /\ renderer.completed
      /\ serving = "stopped" /\ faults' \in 0..MaxFaults
  BY <1>1, AtWork DEF Release!loadMutationCandidates, Preflighted, Release!Steps, Converting, Projecting
<1>3. page \in SUBSET Nat /\ projection.cursor \in Nat
  BY StaleFacts, PageRows
<1>4. /\ page # {} /\ projection.phase # "complete" /\ projection' = [projection EXCEPT !.lock = c]
      /\ command' = [command EXCEPT ![c].step = "vectors", ![c].cursor = projection.cursor, ![c].seen = page]
  BY DEF Release!loadMutationCandidates
<1>5. page = Release!Page(Release!Rows, projection.cursor)
  OBVIOUS
<1> HIDE DEF page
<1>6. PostsStay /\ projection'.lock = c
  BY <1>1, <1>4, ProjectionLocked
<1>7. Becomes(c, "vectors", command[c].outcome, projection.cursor, page)
  BY <1>3, <1>4, Selects
<1>8. OthersStay(c) /\ command'[c].step = "vectors"
  BY <1>7 DEF Becomes, IsRow
<1>9. Knows(command[c])'
  <2>1. projection'.phase = projection.phase /\ projection'.cursor = projection.cursor
        /\ AllGood' /\ ledger' = 2 /\ renderer'.completed
    BY <1>2, <1>6, Stutters DEF PostsStay, AllGood
  <2>2. Loaded(command[c])'
    BY <1>4, <1>5, <1>7, <2>1 DEF Becomes, IsRow, Loaded, Release!Rows
  <2> QED BY <1>2, <1>7, <2>1, <2>2 DEF Becomes, IsRow, Knows
<1>10. LocksAreHeld'
  BY <1>1, <1>6, <1>8, Locks DEF LocksAreHeld, ReleaseInv, OthersStay
<1> QED BY <1>1, <1>2, <1>6, <1>8, <1>9, <1>10, LockMoves

-----------------------------------------------------------------------------
(* The batches of the renderer's migration. *)

\* The greatest of a set is the one that is said to be.
LEMMA MaxIs ==
    ASSUME NEW S \in SUBSET Nat, Release!IsFiniteSet(S), NEW n \in S, \A m \in S : m <= n
    PROVE  Release!Max(S) = n
<1>1. Release!Max(S) \in S /\ \A m \in S : m <= Release!Max(S)
  BY MaxIsGreatest
<1>2. n <= Release!Max(S) /\ Release!Max(S) <= n /\ n \in Nat /\ Release!Max(S) \in Nat
  BY <1>1
<1> QED BY <1>2

\* What a command selected is still the first of what is stale, up to the last of it.
LEMMA BatchIsStale ==
    ASSUME Release!ReleaseAssumption, ReleaseInv, NEW c \in Commands, command[c].step = "write"
    PROVE  LET batch == command[c].seen IN
           /\ batch # {} /\ batch \subseteq StalePosts /\ Release!IsFiniteSet(batch)
           /\ Release!Max(batch) \in batch /\ Release!Max(batch) > renderer.cursor
           /\ \A p \in StalePosts : p \in batch <=> p <= Release!Max(batch)
           /\ command[c].cursor = renderer.cursor /\ AllGood /\ ledger = 2 /\ ~renderer.completed
<1> DEFINE batch == command[c].seen
<1>1. batch # {} /\ batch = Release!Page(StalePosts, renderer.cursor) /\ command[c].cursor = renderer.cursor
  BY DEF ReleaseInv, CommandsKnow, Knows, Selected
<1>2. StalePosts \in SUBSET Nat /\ Release!IsFiniteSet(StalePosts) /\ renderer.cursor \in Nat
  BY StaleFacts
<1>3. batch \subseteq StalePosts /\ Release!IsFiniteSet(batch)
  BY <1>1, <1>2, PageRows
<1>4. /\ Release!Max(batch) \in batch /\ Release!Max(batch) > renderer.cursor
      /\ \A p \in StalePosts : p \in batch <=> p > renderer.cursor /\ p <= Release!Max(batch)
  BY <1>1, <1>2, PageEnds
<1>5. \A p \in StalePosts : p > renderer.cursor
  BY DEF ReleaseInv, RendererIsTrue, StalePosts
<1>6. AllGood /\ ledger = 2
  BY AtWork DEF Preflighted, Release!Steps, Converting
<1>7. ~renderer.completed
  <2>1. StalePosts # {}
    BY <1>1, <1>3
  <2> QED BY <2>1 DEF ReleaseInv, RendererIsTrue
<1> HIDE DEF batch
<1>8. \A p \in StalePosts : p \in batch <=> p <= Release!Max(batch)
  BY <1>4, <1>5
<1> QED BY <1>1, <1>3, <1>4, <1>6, <1>7, <1>8 DEF batch

\* What preparePost makes of a post that a batch may have.
LEMMA Prepared ==
    ASSUME NEW p \in Posts, posts \in [Posts -> Release!PostRows], Release!Stale(p), Good(p), posts'[p] = Release!preparePost(posts[p])
    PROVE  /\ posts'[p] \in Release!PostRows /\ Good(p)' /\ ~Release!Stale(p)' /\ posts'[p].vector = posts[p].vector
<1>1. posts[p] \in Release!PostRows
  OBVIOUS
<1>2. CASE posts[p].fits
  <2>1. posts'[p] = [posts[p] EXCEPT !.html = "p2", !.version = "p2"]
    BY <1>2 DEF Release!preparePost
  <2>2. posts'[p] \in Release!PostRows /\ posts'[p].vector = posts[p].vector /\ posts'[p].fits
        /\ posts'[p].html = "p2" /\ posts'[p].version = "p2" /\ posts'[p].redacted = posts[p].redacted
    BY <1>1, <1>2, <2>1, Zenon DEF Release!PostRows
  <2> QED BY <2>2 DEF Release!Stale, Good, Release!preflightPost
<1>3. CASE ~posts[p].fits
  <2>1. posts'[p] = [posts[p] EXCEPT !.version = "preserved"]
    BY <1>3 DEF Release!preparePost
  <2>2. posts'[p] \in Release!PostRows /\ posts'[p].vector = posts[p].vector /\ ~posts'[p].fits
        /\ posts'[p].html = posts[p].html /\ posts'[p].version = "preserved" /\ posts'[p].redacted = posts[p].redacted
    BY <1>1, <1>3, <2>1, Zenon DEF Release!PostRows
  <2>3. posts[p].html = "p1"
    BY <1>3 DEF Good, Release!preflightPost, Release!Stale, Release!Admitted
  <2> QED BY <2>2, <2>3 DEF Release!Stale, Good, Release!preflightPost
<1> QED BY <1>2, <1>3

\* The rows after a batch was committed.
LEMMA BatchWritten ==
    ASSUME Release!ReleaseAssumption, ReleaseInv, NEW c \in Commands, command[c].step = "write",
           Release!updateRenderedPost(command[c].seen), Release!recordBatch(command[c].seen),
           rendered' = [p \in Posts |-> IF p \in command[c].seen THEN rendered[p] + 1 ELSE rendered[p]],
           UNCHANGED <<ledger, vectored, projection>>
    PROVE  /\ PostsAreTrue' /\ RendererIsTrue' /\ ProjectionIsTrue' /\ Goes
           /\ Onward /\ ProjectStays /\ \A p \in Posts : Good(p) => Good(p)'
           /\ renderer'.lock = None
<1> DEFINE batch == command[c].seen
           last == Release!Max(batch)
<1>1. /\ batch # {} /\ batch \subseteq StalePosts /\ Release!IsFiniteSet(batch)
      /\ last \in batch /\ last > renderer.cursor
      /\ \A p \in StalePosts : p \in batch <=> p <= last
      /\ AllGood /\ ledger = 2 /\ ~renderer.completed
  BY BatchIsStale
<1>2. posts' = [p \in Posts |-> IF p \in batch THEN Release!preparePost(posts[p]) ELSE posts[p]]
  BY DEF Release!updateRenderedPost
<1>3. renderer' = [renderer EXCEPT !.converted = renderer.converted + Release!Cardinality(batch), !.cursor = last,
                                   !.completed = FALSE, !.lock = None]
  BY DEF Release!recordBatch
<1>4. rendered' = [p \in Posts |-> IF p \in batch THEN rendered[p] + 1 ELSE rendered[p]]
  OBVIOUS
<1> HIDE DEF batch, last
<1>5. Posts \in SUBSET Nat /\ Release!IsFiniteSet(Posts) /\ posts \in [Posts -> Release!PostRows]
  BY DEF Release!ReleaseAssumption, ReleaseInv, PostsAreTrue
<1>6. /\ \A p \in batch : p \in Posts /\ Release!Stale(p) /\ Good(p) /\ rendered[p] = 0
      /\ last \in Nat /\ last \in Posts
  BY <1>1, <1>5 DEF StalePosts, AllGood, ReleaseInv, RendererIsTrue
<1>7. \A p \in batch : posts'[p] \in Release!PostRows /\ Good(p)' /\ ~Release!Stale(p)' /\ posts'[p].vector = posts[p].vector
  BY <1>2, <1>5, <1>6, Prepared
<1>8. \A p \in Posts \ batch : posts'[p] = posts[p] /\ (Good(p)' <=> Good(p)) /\ (Release!Stale(p)' <=> Release!Stale(p))
  BY <1>2 DEF Good, Release!Stale
<1>9. posts' \in [Posts -> Release!PostRows]
  <2>1. \A p \in Posts : posts'[p] \in Release!PostRows
    BY <1>5, <1>7, <1>8
  <2> QED BY <1>2, <2>1
<1>10. \A p \in Posts : Good(p)'
  BY <1>1, <1>7, <1>8 DEF AllGood
<1>11. StalePosts' = StalePosts \ batch
  BY <1>6, <1>7, <1>8 DEF StalePosts
<1>12. WithVector' = WithVector /\ WithVector = {} /\ projection.phase = "topics"
  <2>1. WithVector = {} /\ projection.phase = "topics"
    BY <1>1 DEF ReleaseInv, ProjectionIsTrue
  <2>2. \A p \in Posts : posts'[p].vector = posts[p].vector
    BY <1>7, <1>8
  <2> QED BY <2>1, <2>2 DEF WithVector
<1>13. PostsAreTrue'
  BY <1>1, <1>9, <1>10 DEF PostsAreTrue, AllGood
<1>14. ProjectionIsTrue'
  <2>1. renderer'.completed = renderer.completed
    <3>1. renderer \in RendererRows
      BY DEF ReleaseInv, RendererIsTrue
    <3>2. renderer'.completed = FALSE
      BY <1>3, <3>1, Zenon DEF RendererRows
    <3>3. renderer.completed \in BOOLEAN /\ ~renderer.completed
      BY <1>1, <3>1 DEF RendererRows
    <3> QED BY <3>2, <3>3
  <2> QED BY <1>12, <2>1 DEF ReleaseInv, ProjectionIsTrue, Before
<1>15. /\ renderer' \in RendererRows /\ renderer'.converted = renderer.converted + Release!Cardinality(batch)
       /\ renderer'.cursor = last /\ renderer'.lock = None /\ renderer'.completed = renderer.completed
  <2>1. renderer \in RendererRows
    BY DEF ReleaseInv, RendererIsTrue
  <2>2. renderer.converted + Release!Cardinality(batch) \in Nat
    <3>1. Release!Cardinality(batch) \in Nat /\ renderer.converted \in Nat
      BY <1>1, <2>1, CountingCardinalityType DEF RendererRows
    <3> QED BY <3>1
  <2> DEFINE n == renderer.converted + Release!Cardinality(batch)
  <2>3. renderer' = [renderer EXCEPT !.converted = n, !.cursor = last, !.completed = FALSE, !.lock = None]
    BY <1>3
  <2> HIDE DEF n
  <2>4. n \in Nat /\ n = renderer.converted + Release!Cardinality(batch)
    BY <2>2 DEF n
  <2>5. renderer' \in RendererRows /\ renderer'.converted = n /\ renderer'.lock = None
    BY <1>6, <2>1, <2>3, <2>4, Zenon DEF RendererRows
  <2>6. renderer'.cursor = last /\ renderer'.completed = FALSE
    BY <2>1, <2>3, Zenon DEF RendererRows
  <2>7. renderer.completed \in BOOLEAN /\ ~renderer.completed
    BY <1>1, <2>1 DEF RendererRows
  <2> QED BY <2>4, <2>5, <2>6, <2>7
<1>16. Done' = Done \cup batch /\ Done \cap batch = {} /\ Release!IsFiniteSet(Done) /\ rendered' \in [Posts -> {0, 1}]
  <2>1. rendered \in [Posts -> {0, 1}]
    BY DEF ReleaseInv, RendererIsTrue
  <2>2. \A p \in batch : rendered'[p] = 1
    <3> SUFFICES ASSUME NEW p \in batch PROVE rendered'[p] = 1
      OBVIOUS
    <3>1. p \in Posts /\ rendered[p] = 0
      BY <1>6
    <3>2. rendered'[p] = rendered[p] + 1
      BY <1>4, <3>1
    <3> QED BY <3>1, <3>2
  <2>3. \A p \in Posts \ batch : rendered'[p] = rendered[p]
    BY <1>4
  <2>4. rendered' \in [Posts -> {0, 1}]
    BY <1>4, <2>1, <2>2, <2>3
  <2>5. Done' = Done \cup batch
    BY <1>6, <2>2, <2>3 DEF Done
  <2>6. Done \cap batch = {}
    BY <1>6 DEF Done
  <2>7. Release!IsFiniteSet(Done)
    <3>1. Done \subseteq Posts
      BY DEF Done
    <3> QED BY <1>5, <3>1, CountingSubset
  <2> QED BY <2>4, <2>5, <2>6, <2>7
<1>17. renderer'.converted = Release!Cardinality(Done')
  <2>1. Release!Cardinality(Done \cup batch) = Release!Cardinality(Done) + Release!Cardinality(batch) - Release!Cardinality(Done \cap batch)
    BY <1>1, <1>16, CountingUnion
  <2>2. Release!Cardinality(Done \cap batch) = 0 /\ Release!Cardinality(Done) \in Nat /\ Release!Cardinality(batch) \in Nat
    BY <1>1, <1>16, CountingEmptySet, CountingCardinalityType
  <2>3. renderer.converted = Release!Cardinality(Done)
    BY DEF ReleaseInv, RendererIsTrue
  <2> QED BY <1>15, <1>16, <2>1, <2>2, <2>3
<1>18. renderer'.cursor = Release!Max(Done' \cup {0})
  <2> DEFINE S == Done' \cup {0}
  <2>1. S = (Done \cup {0}) \cup batch
    BY <1>16
  <2>2. Done \cup {0} \in SUBSET Nat /\ Release!IsFiniteSet(Done \cup {0}) /\ Done \cup {0} # {}
    <3>1. Done \subseteq Posts
      BY DEF Done
    <3> QED BY <1>5, <1>16, <3>1, CountingAddElement
  <2>3. \A m \in Done \cup {0} : m <= Release!Max(Done \cup {0})
    BY <2>2, MaxIsGreatest
  <2>4. Release!Max(Done \cup {0}) = renderer.cursor /\ renderer.cursor \in Nat
    BY StaleFacts DEF ReleaseInv, RendererIsTrue
  <2>5. \A m \in Done \cup {0} : m <= last
    <3>1. ASSUME NEW m \in Done \cup {0} PROVE m <= last
      <4>1. m \in Nat
        BY <2>2
      <4>2. m <= renderer.cursor
        BY <2>3, <2>4
      <4> QED BY <1>1, <1>6, <2>4, <4>1, <4>2
    <3> QED BY <3>1
  <2>6. \A m \in batch : m <= last
    BY <1>1
  <2>7. S \in SUBSET Nat /\ Release!IsFiniteSet(S) /\ last \in S
    BY <1>1, <1>5, <1>6, <2>1, <2>2, CountingUnion
  <2>8. \A m \in S : m <= last
    BY <2>1, <2>5, <2>6
  <2> HIDE DEF S
  <2>9. Release!Max(S) = last
    BY <2>7, <2>8, MaxIs
  <2> QED BY <1>15, <2>9 DEF S
<1>19. \A p \in Posts : Release!Stale(p)' => p > last /\ rendered'[p] = 0
  <2>1. ASSUME NEW p \in Posts, Release!Stale(p)' PROVE p > last /\ rendered'[p] = 0
    <3>1. p \notin batch
      BY <1>7, <2>1
    <3>2. Release!Stale(p) /\ p \in StalePosts
      BY <1>8, <2>1, <3>1 DEF StalePosts
    <3>3. ~(p <= last) /\ p \in Nat
      BY <1>1, <1>5, <3>1, <3>2
    <3>4. rendered'[p] = rendered[p] /\ rendered[p] = 0
      BY <1>4, <3>1, <3>2 DEF ReleaseInv, RendererIsTrue
    <3> QED BY <1>6, <3>3, <3>4
  <2> QED BY <2>1
<1>20. RendererIsTrue'
  BY <1>1, <1>15, <1>16, <1>17, <1>18, <1>19 DEF RendererIsTrue
<1>21. Onward
  <2>1. Release!readyState' = Release!readyState /\ Exhausted' = Exhausted
    BY DEF Release!readyState, Exhausted
  <2> QED BY <1>1, <1>10, <1>15, <2>1 DEF Onward
<1>22. Goes
  BY <1>11, <1>12, <1>15 DEF Goes, RerenderGoes, ProjectGoes, Release!readyState
<1> QED BY <1>10, <1>13, <1>14, <1>15, <1>20, <1>21, <1>22 DEF ProjectStays

\* A step that changes rows: they stay true, and what others have selected stays.
LEMMA Commits ==
    ASSUME Release!ReleaseAssumption, ReleaseInv, PostsAreTrue', RendererIsTrue', ProjectionIsTrue', Onward,
           \A p \in Posts : Good(p) => Good(p)', NEW c \in Commands,
           NEW s \in {"idle", "render", "project", "ready"}, NEW o, o # "refused", Becomes(c, s, o, 0, {}),
           \A d \in Commands \ {c} : command[d].step = "write" => RenderStays,
           \A d \in Commands \ {c} : command[d].step = "vectors" => ProjectStays,
           command[c].step # "idle", s # "idle" => AllGood /\ ledger = 2,
           s \in Projecting => renderer'.completed, s = "ready" => Release!readyState',
           renderer'.lock # c /\ projection'.lock # c,
           \A d \in Commands \ {c} : renderer'.lock = d <=> renderer.lock = d,
           \A d \in Commands \ {c} : projection'.lock = d <=> projection.lock = d,
           UNCHANGED serving, faults' \in 0..MaxFaults
    PROVE  ReleaseInv'
<1>1. OthersStay(c) /\ command'[c].step = s
  BY DEF Becomes, IsRow
<1>2. AllGood => AllGood'
  BY DEF AllGood
<1>3. Knows(command[c])'
  <2>1. command'[c] \in Release!CommandRows /\ command'[c].outcome # "refused"
    BY DEF Becomes, IsRow
  <2>2. s # "idle" => AllGood' /\ ledger' = 2
    BY <1>2 DEF Onward
  <2> QED BY <1>1, <2>1, <2>2 DEF Knows, Preflighted, Converting, Projecting
<1>4. CommandsKnow'
  BY <1>1, <1>3, AllKnow DEF ReleaseInv
<1>5. LocksAreHeld'
  <2>1. ASSUME NEW d \in Commands
        PROVE  /\ renderer'.lock = d <=> command'[d].step = "write"
               /\ projection'.lock = d <=> command'[d].step = "vectors"
    <3>1. CASE d = c
      BY <1>1, <3>1
    <3>2. CASE d # c
      BY <1>1, <3>2 DEF OthersStay, LocksAreHeld, ReleaseInv
    <3> QED BY <3>1, <3>2
  <2> QED BY <2>1 DEF LocksAreHeld
<1>6. serving = "stopped"
  BY AtWork
<1>7. BoardsAreTrue'
  BY <1>6 DEF BoardsAreTrue
<1> QED BY <1>4, <1>5, <1>7 DEF ReleaseInv

LEMMA WriteBatchKeeps ==
    ASSUME Release!ReleaseAssumption, ReleaseInv, NEW c \in Commands, Release!WriteBatch(c), UNCHANGED <<vectored, projection, serving>>
    PROVE  ReleaseInv' /\ Goes
<1> DEFINE batch == command[c].seen
<1>1. command[c].step = "write" /\ UNCHANGED <<ledger, vectored, projection, serving>>
  BY DEF Release!WriteBatch
<1>2. /\ command[c].outcome # "refused" /\ AllGood /\ ledger = 2
      /\ faults \in 0..MaxFaults /\ (Release!Fault => faults' \in 0..MaxFaults)
  BY <1>1, AtWork DEF Preflighted, Release!Steps, Converting
<1>3. renderer.lock = c /\ projection.lock # c /\ \A d \in Commands : None # d
  BY <1>1, Locks
<1>4. CASE /\ Release!updateRenderedPost(batch) /\ Release!recordBatch(batch)
           /\ rendered' = [p \in Posts |-> IF p \in batch THEN rendered[p] + 1 ELSE rendered[p]]
           /\ \/ Release!Begins(c, "render") /\ UNCHANGED faults
              \/ Release!Fault /\ Release!Ends(c, "failed")
  <2>1. /\ PostsAreTrue' /\ RendererIsTrue' /\ ProjectionIsTrue' /\ Goes
        /\ Onward /\ ProjectStays /\ \A p \in Posts : Good(p) => Good(p)'
        /\ renderer'.lock = None
    BY <1>1, <1>4, BatchWritten
  <2>2. /\ Becomes(c, "render", "none", 0, {}) \/ Becomes(c, "idle", "failed", 0, {})
        /\ faults' \in 0..MaxFaults
    BY <1>2, <1>4, Began, Ended DEF ReleaseInv, Release!Steps, Release!Outcomes
  <2>3. \A d \in Commands \ {c} : command[d].step # "write"
    BY <1>3 DEF LocksAreHeld, ReleaseInv
  <2>4. /\ renderer'.lock # c /\ projection'.lock # c
        /\ \A d \in Commands \ {c} : renderer'.lock = d <=> renderer.lock = d
        /\ \A d \in Commands \ {c} : projection'.lock = d <=> projection.lock = d
    BY <1>1, <1>3, <2>1
  <2>5. ReleaseInv'
    <3>1. CASE Becomes(c, "render", "none", 0, {})
      BY <1>1, <1>2, <2>1, <2>2, <2>3, <2>4, <3>1, Commits DEF Projecting
    <3>2. CASE Becomes(c, "idle", "failed", 0, {})
      BY <1>1, <1>2, <2>1, <2>2, <2>3, <2>4, <3>2, Commits DEF Projecting
    <3> QED BY <2>2, <3>1, <3>2
  <2> QED BY <2>1, <2>5
<1>5. ASSUME (\E p \in batch : ~Release!Stale(p)) \/ renderer.cursor # command[c].cursor PROVE FALSE
  <2>1. \A p \in batch : Release!Stale(p)
    BY <1>1, BatchIsStale DEF StalePosts
  <2>2. renderer.cursor = command[c].cursor
    BY <1>1, BatchIsStale
  <2> QED BY <1>5, <2>1, <2>2
<1>6. CASE /\ Release!Fault /\ Release!Unlocked
           /\ Release!Retries(c, "render") \/ Release!Ends(c, "failed")
           /\ UNCHANGED <<posts, rendered>>
  <2>1. PostsStay /\ renderer'.lock = None
    <3>1. renderer' = [renderer EXCEPT !.lock = None] /\ UNCHANGED <<posts, ledger, rendered, vectored, projection>>
      BY <1>1, <1>6 DEF Release!Unlocked
    <3> QED BY <3>1, RendererLocked
  <2>2. /\ renderer'.lock # c /\ projection'.lock # c
        /\ \A d \in Commands \ {c} : renderer'.lock = d <=> renderer.lock = d
        /\ \A d \in Commands \ {c} : projection'.lock = d <=> projection.lock = d
    BY <1>1, <1>3, <2>1
  <2>3. Becomes(c, "render", command[c].outcome, 0, {}) \/ Becomes(c, "idle", "failed", 0, {})
    BY <1>6, Retried, Ended DEF ReleaseInv, Release!Steps, Release!Outcomes
  <2>4. CASE Becomes(c, "render", command[c].outcome, 0, {})
    BY <1>1, <1>2, <1>6, <2>1, <2>2, <2>4, GivesUp
  <2>5. CASE Becomes(c, "idle", "failed", 0, {})
    BY <1>1, <1>2, <1>6, <2>1, <2>2, <2>5, GivesUp
  <2> QED BY <2>3, <2>4, <2>5
<1> QED BY <1>4, <1>5, <1>6 DEF Release!WriteBatch

\* No stale post after the cursor is no stale post at all.
LEMMA NoneIsLeft ==
    ASSUME Release!ReleaseAssumption, ReleaseInv, AllGood, Release!Page({p \in Posts : Release!Stale(p)}, renderer.cursor) = {}
    PROVE  StalePosts = {} /\ \A p \in Posts : Release!Current(p) /\ ~Release!Stale(p)
<1>1. Release!Page(StalePosts, renderer.cursor) = {}
  BY DEF StalePosts
<1>2. \A p \in StalePosts : p <= renderer.cursor
  BY <1>1, StaleFacts, PageEnds
<1>3. \A p \in StalePosts : p > renderer.cursor /\ p \in Nat /\ renderer.cursor \in Nat
  BY StaleFacts DEF ReleaseInv, RendererIsTrue, StalePosts
<1>4. StalePosts = {}
  BY <1>2, <1>3
<1>5. \A p \in Posts : ~Release!Stale(p)
  BY <1>4 DEF StalePosts
<1>6. \A p \in Posts : Release!Current(p)
  BY <1>5 DEF AllGood, Good, Release!preflightPost, Release!Stale, Release!Current
<1> QED BY <1>4, <1>5, <1>6

LEMMA CompleteRendererKeeps ==
    ASSUME Release!ReleaseAssumption, ReleaseInv, NEW c \in Commands, Release!CompleteRenderer(c),
           UNCHANGED <<vectored, projection, serving>>
    PROVE  ReleaseInv' /\ Goes
<1>1. command[c].step = "render" /\ UNCHANGED <<posts, ledger, rendered, vectored, projection, serving>>
  BY DEF Release!CompleteRenderer
<1>2. /\ command[c].outcome # "refused" /\ AllGood /\ ledger = 2 /\ serving = "stopped"
      /\ faults \in 0..MaxFaults /\ (Release!Fault => faults' \in 0..MaxFaults)
  BY <1>1, AtWork DEF Preflighted, Release!Steps, Converting
<1>3. StalePosts = {} /\ \A p \in Posts : Release!Current(p) /\ ~Release!Stale(p)
  BY <1>2, NoneIsLeft DEF Release!CompleteRenderer
<1>4. renderer.lock # c /\ projection.lock # c /\ \A d \in Commands : None # d
  BY <1>1, Locks
<1>5. CASE /\ renderer' = [renderer EXCEPT !.completed = TRUE, !.validated = TRUE]
           /\ \/ Release!Proceeds(c, "render") /\ UNCHANGED faults
              \/ Release!Fault /\ Release!Ends(c, "failed")
  <2>1. /\ renderer' \in RendererRows /\ renderer'.completed = TRUE /\ renderer'.validated = TRUE
        /\ renderer'.cursor = renderer.cursor /\ renderer'.converted = renderer.converted
        /\ renderer'.lock = renderer.lock
    <3>1. renderer \in RendererRows
      BY DEF ReleaseInv, RendererIsTrue
    <3>2. renderer' \in RendererRows /\ renderer'.completed = TRUE /\ renderer'.validated = TRUE
      BY <1>5, <3>1, Zenon DEF RendererRows
    <3>3. /\ renderer'.cursor = renderer.cursor /\ renderer'.converted = renderer.converted
          /\ renderer'.lock = renderer.lock
      BY <1>5, <3>1, Zenon DEF RendererRows
    <3> QED BY <3>2, <3>3
  <2>2. \A p \in Posts : Good(p)' = Good(p)
    BY <1>1 DEF Good
  <2>3. StalePosts' = StalePosts /\ Done' = Done /\ WithVector' = WithVector /\ Release!readyState' = Release!readyState
    BY <1>1 DEF StalePosts, Release!Stale, Done, WithVector, Release!readyState
  <2>4. PostsAreTrue' /\ ProjectionIsTrue'
    BY <1>1, <2>1, <2>2, <2>3 DEF PostsAreTrue, AllGood, ProjectionIsTrue, Before, ReleaseInv
  <2>5. RendererIsTrue'
    BY <1>1, <1>2, <1>3, <2>1, <2>3 DEF RendererIsTrue, Release!Stale, ReleaseInv
  <2>6. Onward /\ RenderStays /\ ProjectStays /\ Goes
    <3>1. Exhausted' = Exhausted
      BY <1>1, <2>3 DEF Exhausted
    <3> QED BY <1>1, <1>3, <2>1, <2>2, <2>3, <3>1 DEF Onward, RenderStays, ProjectStays, Goes, RerenderGoes, ProjectGoes
  <2>7. /\ Becomes(c, "project", "none", 0, {}) \/ Becomes(c, "idle", "failed", 0, {})
        /\ faults' \in 0..MaxFaults
    BY <1>2, <1>5, Proceeded, Ended DEF ReleaseInv, Release!Outcomes
  <2>8. CASE Becomes(c, "project", "none", 0, {})
    BY <1>1, <1>2, <1>4, <2>1, <2>2, <2>4, <2>5, <2>6, <2>7, <2>8, Commits
  <2>9. CASE Becomes(c, "idle", "failed", 0, {})
    BY <1>1, <1>2, <1>4, <2>1, <2>2, <2>4, <2>5, <2>6, <2>7, <2>9, Commits DEF Projecting
  <2> QED BY <2>6, <2>7, <2>8, <2>9
<1>6. CASE /\ Release!Fault /\ UNCHANGED renderer
           /\ Release!Retries(c, "render") \/ Release!Ends(c, "failed")
  <2>1. UNCHANGED <<Release!stateVars, ledger, serving>> /\ faults' \in 0..MaxFaults
    BY <1>1, <1>2, <1>6 DEF Release!stateVars
  <2>2. Becomes(c, "render", command[c].outcome, 0, {}) \/ Becomes(c, "idle", "failed", 0, {})
    BY <1>6, Retried, Ended DEF ReleaseInv, Release!Steps, Release!Outcomes
  <2>3. CASE Becomes(c, "render", command[c].outcome, 0, {})
    BY <1>1, <1>2, <2>1, <2>3, OnlyEnds DEF Projecting
  <2>4. CASE Becomes(c, "idle", "failed", 0, {})
    BY <1>1, <1>2, <2>1, <2>4, OnlyEnds DEF Converting, Projecting
  <2> QED BY <2>2, <2>3, <2>4
<1> QED BY <1>3, <1>5, <1>6 DEF Release!CompleteRenderer

-----------------------------------------------------------------------------
(* The batches of the search projection. *)

\* Once the renderer's migration is complete, a post's HTML is one a vector is made of.
LEMMA HtmlIsKnown ==
    ASSUME ReleaseInv, AllGood, renderer.completed, NEW p \in Posts
    PROVE  posts[p] \in Release!PostRows /\ posts[p].html \in {"p1", "p2", "redaction"}
<1>1. posts[p] \in Release!PostRows
  BY DEF ReleaseInv, PostsAreTrue
<1>2. ~Release!Stale(p)
  BY DEF ReleaseInv, RendererIsTrue, StalePosts
<1>3. Good(p)
  BY DEF AllGood
<1> QED BY <1>1, <1>2, <1>3 DEF Good, Release!preflightPost, Release!Stale

\* What a command loaded is still the next of the rows, up to the last of it.
LEMMA BatchIsNext ==
    ASSUME Release!ReleaseAssumption, ReleaseInv, NEW c \in Commands, command[c].step = "vectors"
    PROVE  LET batch == command[c].seen IN
           /\ batch # {} /\ batch \subseteq Release!Rows /\ Release!IsFiniteSet(batch)
           /\ Release!Max(batch) \in batch /\ Release!Max(batch) \in Nat
           /\ batch \cap Before(Release!Rows, projection.cursor) = {}
           /\ Before(Release!Rows, Release!Max(batch)) = Before(Release!Rows, projection.cursor) \cup batch
           /\ command[c].cursor = projection.cursor /\ projection.phase \in {"topics", "posts"}
           /\ AllGood /\ ledger = 2 /\ renderer.completed
<1> DEFINE batch == command[c].seen
           last == Release!Max(batch)
<1>1. /\ batch # {} /\ batch = Release!Page(Release!Rows, projection.cursor) /\ command[c].cursor = projection.cursor
      /\ projection.phase # "complete"
  BY DEF ReleaseInv, CommandsKnow, Knows, Loaded
<1>2. Release!Rows \in SUBSET Nat /\ Release!IsFiniteSet(Release!Rows) /\ projection.cursor \in Nat
  BY StaleFacts
<1>3. batch \subseteq Release!Rows /\ Release!IsFiniteSet(batch)
  BY <1>1, <1>2, PageRows
<1>4. /\ last \in batch /\ last > projection.cursor
      /\ \A p \in Release!Rows : p \in batch <=> p > projection.cursor /\ p <= last
  BY <1>1, <1>2, PageEnds
<1>5. projection.phase \in {"topics", "posts"}
  BY <1>1 DEF ReleaseInv, ProjectionIsTrue, ProjectionRows
<1>6. AllGood /\ ledger = 2 /\ renderer.completed
  BY AtWork DEF Preflighted, Release!Steps, Converting, Projecting
<1> HIDE DEF batch, last
<1>7. last \in Nat
  BY <1>2, <1>3, <1>4
<1>8. \A p \in Release!Rows : /\ p <= last <=> p <= projection.cursor \/ p \in batch
                      /\ ~(p <= projection.cursor /\ p \in batch)
  BY <1>2, <1>4, <1>7
<1>9. batch \cap Before(Release!Rows, projection.cursor) = {}
  BY <1>8 DEF Before
<1>10. Before(Release!Rows, last) = Before(Release!Rows, projection.cursor) \cup batch
  BY <1>3, <1>8 DEF Before
<1> QED BY <1>1, <1>3, <1>4, <1>5, <1>6, <1>7, <1>9, <1>10 DEF batch, last

\* What a batch is added to, and the count of it.
LEMMA Counted ==
    ASSUME NEW S, NEW T, Release!IsFiniteSet(S), Release!IsFiniteSet(T), S \cap T = {}
    PROVE  Release!Cardinality(S \cup T) = Release!Cardinality(S) + Release!Cardinality(T) /\ Release!Cardinality(T) \in Nat /\ Release!Cardinality(S) \in Nat
<1>1. Release!Cardinality(S \cup T) = Release!Cardinality(S) + Release!Cardinality(T) - Release!Cardinality(S \cap T)
  BY CountingUnion
<1>2. Release!Cardinality(S \cap T) = 0 /\ Release!Cardinality(S) \in Nat /\ Release!Cardinality(T) \in Nat
  BY CountingEmptySet, CountingCardinalityType
<1> QED BY <1>1, <1>2

LEMMA BatchVectored ==
    ASSUME Release!ReleaseAssumption, ReleaseInv, NEW c \in Commands, command[c].step = "vectors",
           Release!vectorize(command[c].seen), Release!recordProjection(command[c].seen),
           UNCHANGED <<ledger, renderer, rendered>>
    PROVE  /\ PostsAreTrue' /\ RendererIsTrue' /\ ProjectionIsTrue' /\ Goes
           /\ Onward /\ RenderStays /\ \A p \in Posts : Good(p) => Good(p)'
           /\ projection'.lock = None
<1> DEFINE batch == command[c].seen
           last == Release!Max(batch)
           topics == IF projection.phase = "topics" THEN projection.topics + Release!Cardinality(batch) ELSE projection.topics
           counted == IF projection.phase = "posts" THEN projection.posts + Release!Cardinality(batch) ELSE projection.posts
<1>1. /\ batch # {} /\ batch \subseteq Release!Rows /\ Release!IsFiniteSet(batch)
      /\ last \in batch /\ last \in Nat
      /\ batch \cap Before(Release!Rows, projection.cursor) = {}
      /\ Before(Release!Rows, last) = Before(Release!Rows, projection.cursor) \cup batch
      /\ projection.phase \in {"topics", "posts"}
      /\ AllGood /\ ledger = 2 /\ renderer.completed
  BY BatchIsNext
<1>2. projection' = [projection EXCEPT !.topics = topics, !.posts = counted, !.cursor = last, !.lock = None]
  BY DEF Release!recordProjection
<1>3. IF projection.phase = "topics"
        THEN vectored' = vectored \cup batch /\ UNCHANGED posts
        ELSE /\ posts' = [p \in Posts |-> IF p \in batch THEN [posts[p] EXCEPT !.vector = posts[p].html]
                                          ELSE posts[p]]
             /\ UNCHANGED vectored
  BY DEF Release!vectorize
<1>4. projection \in ProjectionRows
  BY DEF ReleaseInv, ProjectionIsTrue
<1>5. topics \in Nat /\ counted \in Nat
  <2>1. Release!Cardinality(batch) \in Nat
    BY <1>1, CountingCardinalityType
  <2>2. projection.topics \in Nat /\ projection.posts \in Nat
    BY <1>4 DEF ProjectionRows
  <2> QED BY <2>1, <2>2
<1>6. /\ projection.phase = "topics" => topics = projection.topics + Release!Cardinality(batch) /\ counted = projection.posts
      /\ projection.phase = "posts" => counted = projection.posts + Release!Cardinality(batch) /\ topics = projection.topics
  OBVIOUS
<1> HIDE DEF batch, last, topics, counted
<1>7. /\ projection' \in ProjectionRows /\ projection'.topics = topics /\ projection'.posts = counted
      /\ projection'.cursor = last /\ projection'.lock = None /\ projection'.phase = projection.phase
  <2>1. projection' \in ProjectionRows /\ projection'.lock = None
    BY <1>1, <1>2, <1>4, <1>5, Zenon DEF ProjectionRows
  <2>2. /\ projection'.topics = topics /\ projection'.posts = counted
        /\ projection'.cursor = last /\ projection'.phase = projection.phase
    BY <1>2, <1>4, Zenon DEF ProjectionRows
  <2> QED BY <2>1, <2>2
<1>8. \A p \in Posts : posts[p] \in Release!PostRows /\ posts[p].html \in {"p1", "p2", "redaction"}
  BY <1>1, HtmlIsKnown
<1>9. \A p \in Posts : /\ posts'[p] \in Release!PostRows /\ posts'[p].fits = posts[p].fits /\ posts'[p].html = posts[p].html
                       /\ posts'[p].version = posts[p].version /\ posts'[p].redacted = posts[p].redacted
                       /\ posts'[p].vector = IF projection.phase = "posts" /\ p \in batch THEN posts[p].html
                                             ELSE posts[p].vector
  <2>1. CASE projection.phase = "topics"
    BY <1>3, <1>8, <2>1
  <2>2. CASE projection.phase = "posts"
    <3>1. ASSUME NEW p \in Posts, p \notin batch PROVE posts'[p] = posts[p]
      BY <1>3, <2>2, <3>1
    <3>2. ASSUME NEW p \in Posts, p \in batch
          PROVE  /\ posts'[p] \in Release!PostRows /\ posts'[p].fits = posts[p].fits /\ posts'[p].html = posts[p].html
                 /\ posts'[p].version = posts[p].version /\ posts'[p].redacted = posts[p].redacted
                 /\ posts'[p].vector = posts[p].html
      <4>1. posts'[p] = [posts[p] EXCEPT !.vector = posts[p].html]
        BY <1>3, <2>2, <3>2
      <4>2. posts[p].html \in {"none", "p1", "p2", "redaction"} /\ posts[p] \in Release!PostRows
        BY <1>8
      <4>3. posts'[p] \in Release!PostRows
        BY <4>1, <4>2, Zenon DEF Release!PostRows
      <4>4. /\ posts'[p].fits = posts[p].fits /\ posts'[p].html = posts[p].html
            /\ posts'[p].version = posts[p].version /\ posts'[p].redacted = posts[p].redacted
            /\ posts'[p].vector = posts[p].html
        BY <4>1, <4>2, Zenon DEF Release!PostRows
      <4> QED BY <4>3, <4>4
    <3> QED BY <1>8, <2>2, <3>1, <3>2
  <2> QED BY <1>1, <2>1, <2>2
<1>10. posts' \in [Posts -> Release!PostRows]
  <2>1. posts \in [Posts -> Release!PostRows]
    BY DEF ReleaseInv, PostsAreTrue
  <2> QED BY <1>1, <1>3, <1>9, <2>1
<1>11. \A p \in Posts : (Good(p)' <=> Good(p)) /\ (Release!Stale(p)' <=> Release!Stale(p))
  BY <1>9 DEF Good, Release!preflightPost, Release!Admitted, Release!Stale
<1>12. StalePosts' = StalePosts /\ Done' = Done /\ RenderStays
  <2>1. StalePosts' = StalePosts
    BY <1>11 DEF StalePosts
  <2> QED BY <2>1 DEF Done, RenderStays
<1>13. PostsAreTrue' /\ RendererIsTrue'
  <2>1. PostsAreTrue'
    BY <1>1, <1>10, <1>11 DEF PostsAreTrue, AllGood
  <2>2. RendererIsTrue'
    BY <1>11, <1>12 DEF RendererIsTrue, ReleaseInv
  <2> QED BY <2>1, <2>2
<1>14. Release!IsFiniteSet(Topics) /\ Release!IsFiniteSet(Posts) /\ Topics \in SUBSET Nat /\ Posts \in SUBSET Nat
  BY DEF Release!ReleaseAssumption
<1>15. CASE projection.phase = "topics"
  <2>1. Release!Rows = Topics /\ vectored = Before(Topics, projection.cursor) /\ WithVector = {}
    BY <1>15 DEF Release!Rows, ReleaseInv, ProjectionIsTrue
  <2>2. vectored' = vectored \cup batch /\ vectored' = Before(Topics, last)
    BY <1>1, <1>3, <1>15, <2>1
  <2>3. WithVector' = {} /\ projection.posts = Release!Cardinality(WithVector)
    BY <1>9, <1>15, <2>1 DEF WithVector, ReleaseInv, ProjectionIsTrue
  <2>4. projection'.topics = Release!Cardinality(vectored')
    <3>1. Release!IsFiniteSet(vectored) /\ vectored \cap batch = {} /\ projection.topics = Release!Cardinality(vectored)
      <4>1. vectored \subseteq Topics
        BY <2>1 DEF Before
      <4> QED BY <1>1, <1>14, <2>1, <4>1, CountingSubset DEF ReleaseInv, ProjectionIsTrue
    <3>2. Release!Cardinality(vectored \cup batch) = Release!Cardinality(vectored) + Release!Cardinality(batch)
      BY <1>1, <3>1, Counted
    <3> QED BY <1>6, <1>7, <1>15, <2>2, <3>1, <3>2
  <2>5. last \in Topics /\ vectored' \subseteq Topics
    BY <1>1, <2>1, <2>2 DEF Before
  <2>6. projection'.posts = Release!Cardinality(WithVector')
    BY <1>6, <1>7, <1>15, <2>1, <2>3
  <2>7. ProjectionIsTrue'
    BY <1>1, <1>7, <1>15, <2>2, <2>3, <2>4, <2>5, <2>6 DEF ProjectionIsTrue
  <2>8. Goes
    BY <1>7, <1>12, <2>1, <2>2, <2>3 DEF Goes, RerenderGoes, ProjectGoes, Release!readyState
  <2>9. Onward
    BY <1>7, <1>11, <1>15 DEF Onward, Exhausted, Release!readyState
  <2> QED BY <1>7, <1>11, <1>12, <1>13, <2>7, <2>8, <2>9
<1>16. CASE projection.phase = "posts"
  <2>1. Release!Rows = Posts /\ vectored = Topics /\ WithVector = Before(Posts, projection.cursor)
    BY <1>16 DEF Release!Rows, ReleaseInv, ProjectionIsTrue
  <2>2. vectored' = vectored
    BY <1>3, <1>16
  <2>3. WithVector' = WithVector \cup batch
    <3>1. \A p \in batch : p \in Posts /\ posts'[p].vector = posts[p].html /\ posts[p].html # "none"
      BY <1>1, <1>8, <1>9, <1>16, <2>1
    <3>2. \A p \in Posts \ batch : posts'[p].vector = posts[p].vector
      BY <1>9
    <3> QED BY <3>1, <3>2 DEF WithVector
  <2>4. WithVector' = Before(Posts, last)
    BY <1>1, <2>1, <2>3
  <2>5. projection'.posts = Release!Cardinality(WithVector')
    <3>1. Release!IsFiniteSet(WithVector) /\ WithVector \cap batch = {} /\ projection.posts = Release!Cardinality(WithVector)
      <4>1. WithVector \subseteq Posts
        BY DEF WithVector
      <4> QED BY <1>1, <1>14, <2>1, <4>1, CountingSubset DEF ReleaseInv, ProjectionIsTrue
    <3>2. Release!Cardinality(WithVector \cup batch) = Release!Cardinality(WithVector) + Release!Cardinality(batch)
      BY <1>1, <3>1, Counted
    <3> QED BY <1>6, <1>7, <1>16, <2>3, <3>1, <3>2
  <2>6. last \in Posts /\ projection'.topics = Release!Cardinality(vectored')
    BY <1>1, <1>6, <1>7, <1>16, <2>1, <2>2 DEF ReleaseInv, ProjectionIsTrue
  <2>7. \A p \in WithVector' : posts'[p].vector = posts'[p].html
    <3>1. ASSUME NEW p \in WithVector' PROVE posts'[p].vector = posts'[p].html
      <4>1. p \in Posts /\ (p \in batch \/ p \in WithVector)
        BY <2>3 DEF WithVector
      <4>2. p \in WithVector => posts[p].vector = posts[p].html
        BY DEF ReleaseInv, ProjectionIsTrue
      <4> QED BY <1>9, <1>16, <4>1, <4>2
    <3> QED BY <3>1
  <2>8. ProjectionIsTrue'
    BY <1>1, <1>7, <1>16, <2>1, <2>2, <2>4, <2>5, <2>6, <2>7 DEF ProjectionIsTrue
  <2>9. Goes
    BY <1>7, <1>12, <2>2, <2>3 DEF Goes, RerenderGoes, ProjectGoes, Release!readyState
  <2>10. Onward
    <3>1. Release!Page(Posts, projection.cursor) # {}
      BY <1>16, <2>1 DEF ReleaseInv, CommandsKnow, Knows, Loaded
    <3> QED BY <1>7, <1>11, <1>16, <3>1 DEF Onward, Exhausted, Release!readyState
  <2> QED BY <1>7, <1>11, <1>12, <1>13, <2>8, <2>9, <2>10
<1> QED BY <1>1, <1>15, <1>16

LEMMA ProjectBatchKeeps ==
    ASSUME Release!ReleaseAssumption, ReleaseInv, NEW c \in Commands, Release!ProjectBatch(c), UNCHANGED serving
    PROVE  ReleaseInv' /\ Goes
<1> DEFINE batch == command[c].seen
<1>1. command[c].step = "vectors" /\ UNCHANGED <<ledger, renderer, rendered, serving>>
  BY DEF Release!ProjectBatch
<1>2. /\ command[c].outcome # "refused" /\ AllGood /\ ledger = 2 /\ renderer.completed
      /\ faults \in 0..MaxFaults /\ (Release!Fault => faults' \in 0..MaxFaults)
  BY <1>1, AtWork DEF Preflighted, Release!Steps, Converting, Projecting
<1>3. projection.lock = c /\ renderer.lock # c /\ \A d \in Commands : None # d
  BY <1>1, Locks
<1>4. CASE /\ Release!vectorize(batch) /\ Release!recordProjection(batch)
           /\ \/ Release!Begins(c, "project") /\ UNCHANGED faults
              \/ Release!Fault /\ Release!Ends(c, "failed")
  <2>1. /\ PostsAreTrue' /\ RendererIsTrue' /\ ProjectionIsTrue' /\ Goes
        /\ Onward /\ RenderStays /\ \A p \in Posts : Good(p) => Good(p)'
        /\ projection'.lock = None
    BY <1>1, <1>4, BatchVectored
  <2>2. /\ Becomes(c, "project", "none", 0, {}) \/ Becomes(c, "idle", "failed", 0, {})
        /\ faults' \in 0..MaxFaults
    BY <1>2, <1>4, Began, Ended DEF ReleaseInv, Release!Steps, Release!Outcomes
  <2>3. \A d \in Commands \ {c} : command[d].step # "vectors"
    BY <1>3 DEF LocksAreHeld, ReleaseInv
  <2>4. /\ renderer'.lock # c /\ projection'.lock # c
        /\ \A d \in Commands \ {c} : renderer'.lock = d <=> renderer.lock = d
        /\ \A d \in Commands \ {c} : projection'.lock = d <=> projection.lock = d
    BY <1>1, <1>3, <2>1
  <2>5. ReleaseInv'
    <3>1. CASE Becomes(c, "project", "none", 0, {})
      BY <1>1, <1>2, <2>1, <2>2, <2>3, <2>4, <3>1, Commits
    <3>2. CASE Becomes(c, "idle", "failed", 0, {})
      BY <1>1, <1>2, <2>1, <2>2, <2>3, <2>4, <3>2, Commits DEF Projecting
    <3> QED BY <2>2, <3>1, <3>2
  <2> QED BY <2>1, <2>5
<1>5. projection.cursor = command[c].cursor
  BY <1>1, BatchIsNext
<1>6. CASE /\ Release!Fault /\ Release!Released
           /\ Release!Retries(c, "project") \/ Release!Ends(c, "failed")
           /\ UNCHANGED <<posts, vectored>>
  <2>1. PostsStay /\ projection'.lock = None
    <3>1. projection' = [projection EXCEPT !.lock = None] /\ UNCHANGED <<posts, ledger, rendered, vectored, renderer>>
      BY <1>1, <1>6 DEF Release!Released
    <3> QED BY <3>1, ProjectionLocked
  <2>2. /\ renderer'.lock # c /\ projection'.lock # c
        /\ \A d \in Commands \ {c} : renderer'.lock = d <=> renderer.lock = d
        /\ \A d \in Commands \ {c} : projection'.lock = d <=> projection.lock = d
    BY <1>1, <1>3, <2>1
  <2>3. Becomes(c, "project", command[c].outcome, 0, {}) \/ Becomes(c, "idle", "failed", 0, {})
    BY <1>6, Retried, Ended DEF ReleaseInv, Release!Steps, Release!Outcomes
  <2>4. CASE Becomes(c, "project", command[c].outcome, 0, {})
    BY <1>1, <1>2, <1>6, <2>1, <2>2, <2>4, GivesUp
  <2>5. CASE Becomes(c, "idle", "failed", 0, {})
    BY <1>1, <1>2, <1>6, <2>1, <2>2, <2>5, GivesUp
  <2> QED BY <2>3, <2>4, <2>5
<1> QED BY <1>4, <1>5, <1>6 DEF Release!ProjectBatch

LEMMA AdvancePhaseKeeps ==
    ASSUME Release!ReleaseAssumption, ReleaseInv, NEW c \in Commands, Release!AdvancePhase(c), UNCHANGED serving
    PROVE  ReleaseInv' /\ Goes
<1>1. /\ command[c].step = "project" /\ projection.lock = None /\ projection.phase = "topics"
      /\ Release!Page(Release!Rows, projection.cursor) = {} /\ projection' = [projection EXCEPT !.phase = "posts", !.cursor = 0]
      /\ UNCHANGED <<posts, ledger, renderer, rendered, vectored, faults, serving>>
  BY DEF Release!AdvancePhase, Release!lockState, Release!renderedVars
<1>2. AllGood /\ ledger = 2 /\ renderer.completed /\ faults' \in 0..MaxFaults
  BY <1>1, AtWork DEF Preflighted, Release!Steps, Converting, Projecting
<1>3. /\ projection \in ProjectionRows /\ projection' \in ProjectionRows
      /\ projection'.phase = "posts" /\ projection'.cursor = 0
      /\ projection'.topics = projection.topics /\ projection'.posts = projection.posts
      /\ projection'.lock = projection.lock
  <2>1. projection \in ProjectionRows
    BY DEF ReleaseInv, ProjectionIsTrue
  <2>2. projection' \in ProjectionRows /\ projection'.phase = "posts" /\ projection'.cursor = 0
    BY <1>1, <2>1, Zenon DEF ProjectionRows
  <2>3. /\ projection'.topics = projection.topics /\ projection'.posts = projection.posts
        /\ projection'.lock = projection.lock
    BY <1>1, <2>1, Zenon DEF ProjectionRows
  <2> QED BY <2>1, <2>2, <2>3
<1>4. vectored = Topics
  <2>1. Release!Rows = Topics /\ vectored = Before(Topics, projection.cursor)
    BY <1>1 DEF Release!Rows, ReleaseInv, ProjectionIsTrue
  <2>2. \A t \in Topics : t <= projection.cursor
    BY <1>1, <2>1, StaleFacts, PageEnds
  <2> QED BY <2>1, <2>2 DEF Before
<1>5. WithVector = {} /\ WithVector' = WithVector /\ Before(Posts, 0) = {}
  <2>1. \A p \in Posts : ~(p <= 0)
    BY DEF Release!ReleaseAssumption
  <2> QED BY <1>1, <2>1 DEF WithVector, ReleaseInv, ProjectionIsTrue, Before
<1>6. \A p \in Posts : Good(p)' = Good(p)
  BY <1>1 DEF Good
<1>7. StalePosts' = StalePosts /\ Done' = Done
  BY <1>1 DEF StalePosts, Release!Stale, Done
<1>8. PostsAreTrue' /\ RendererIsTrue'
  BY <1>1, <1>6, <1>7 DEF PostsAreTrue, AllGood, RendererIsTrue, Release!Stale, ReleaseInv
<1>9. ProjectionIsTrue'
  BY <1>1, <1>2, <1>3, <1>4, <1>5 DEF ProjectionIsTrue, ReleaseInv
<1>10. Onward /\ RenderStays /\ Goes
  BY <1>1, <1>3, <1>5, <1>6, <1>7
     DEF Onward, RenderStays, Goes, RerenderGoes, ProjectGoes, Exhausted, Release!readyState
<1>11. Becomes(c, "project", "none", 0, {})
  BY Began DEF Release!AdvancePhase, ReleaseInv, Release!Steps
<1>12. \A d \in Commands : command[d].step # "vectors" /\ None # d
  BY <1>1, Locks
<1>13. renderer.lock # c
  BY <1>1, Locks
<1> QED BY <1>1, <1>2, <1>3, <1>6, <1>8, <1>9, <1>10, <1>11, <1>12, <1>13, Commits

\* When the rows of the last phase are at their end, the counts and the cursor agree with them.
LEMMA OracleHolds ==
    ASSUME Release!ReleaseAssumption, ReleaseInv, projection.phase = "posts", Release!Page(Posts, projection.cursor) = {}
    PROVE  Release!completionOracle /\ WithVector = Posts /\ vectored = Topics
<1>1. Posts \in SUBSET Nat /\ Release!IsFiniteSet(Posts)
  BY DEF Release!ReleaseAssumption
<1>2. /\ vectored = Topics /\ WithVector = Before(Posts, projection.cursor) /\ projection.cursor \in Posts \cup {0}
      /\ projection.topics = Release!Cardinality(vectored) /\ projection.posts = Release!Cardinality(WithVector)
  BY DEF ReleaseInv, ProjectionIsTrue
<1>3. \A p \in Posts : p <= projection.cursor
  BY <1>1, StaleFacts, PageEnds
<1>4. WithVector = Posts
  BY <1>2, <1>3 DEF Before
<1>5. projection.cursor = Release!Max(Posts \cup {0})
  <2>1. Release!IsFiniteSet(Posts \cup {0}) /\ Posts \cup {0} \in SUBSET Nat
    BY <1>1, CountingAddElement
  <2>2. \A p \in Posts \cup {0} : p <= projection.cursor
    <3>1. 0 <= projection.cursor
      BY StaleFacts
    <3> QED BY <1>3, <3>1
  <2> QED BY <1>2, <2>1, <2>2, MaxIs
<1>6. \A p \in Posts : posts[p].vector # "none"
  BY <1>4 DEF WithVector
<1> QED BY <1>2, <1>4, <1>5, <1>6 DEF Release!completionOracle

LEMMA CompleteKeeps ==
    ASSUME Release!ReleaseAssumption, ReleaseInv, NEW c \in Commands, Release!complete(c), UNCHANGED serving
    PROVE  ReleaseInv' /\ Goes
<1>1. command[c].step = "analyze" /\ projection.lock = None /\ UNCHANGED <<posts, ledger, renderer, rendered, vectored, serving>>
  BY DEF Release!complete, Release!lockState, Release!renderedVars
<1>2. /\ AllGood /\ ledger = 2 /\ renderer.completed /\ serving = "stopped"
      /\ faults \in 0..MaxFaults /\ (Release!Fault => faults' \in 0..MaxFaults)
  BY <1>1, AtWork DEF Preflighted, Release!Steps, Converting, Projecting
<1>3. Release!readyState \/ (projection.phase = "posts" /\ Release!Page(Posts, projection.cursor) = {})
  BY <1>1 DEF ReleaseInv, CommandsKnow, Knows, Exhausted
<1>4. CASE projection.phase = "complete" /\ Release!Begins(c, "ready") /\ UNCHANGED <<projection, faults>>
  <2>1. Becomes(c, "ready", "none", 0, {})
    BY <1>4, Began DEF ReleaseInv, Release!Steps
  <2>2. UNCHANGED <<Release!stateVars, ledger, serving>> /\ faults' \in 0..MaxFaults
    BY <1>1, <1>2, <1>4 DEF Release!stateVars
  <2> QED BY <1>1, <1>2, <1>4, <2>1, <2>2, OnlyEnds DEF Release!readyState
<1>5. CASE /\ projection.phase = "posts" /\ projection' = [projection EXCEPT !.phase = "complete"]
           /\ \/ Release!Begins(c, "ready") /\ UNCHANGED faults
              \/ Release!Fault /\ Release!Ends(c, "failed")
  <2>1. WithVector = Posts /\ vectored = Topics
    BY <1>3, <1>5, OracleHolds DEF Release!readyState
  <2>2. /\ projection' \in ProjectionRows /\ projection'.phase = "complete"
        /\ projection'.cursor = projection.cursor
        /\ projection'.topics = projection.topics /\ projection'.posts = projection.posts
        /\ projection'.lock = projection.lock
    <3>1. projection \in ProjectionRows
      BY DEF ReleaseInv, ProjectionIsTrue
    <3>2. projection' \in ProjectionRows /\ projection'.phase = "complete"
      BY <1>5, <3>1, Zenon DEF ProjectionRows
    <3>3. /\ projection'.cursor = projection.cursor
          /\ projection'.topics = projection.topics /\ projection'.posts = projection.posts
          /\ projection'.lock = projection.lock
      BY <1>5, <3>1, Zenon DEF ProjectionRows
    <3> QED BY <3>2, <3>3
  <2>3. StalePosts' = StalePosts /\ Done' = Done /\ WithVector' = WithVector /\ Release!readyState'
    BY <1>1, <2>2 DEF StalePosts, Release!Stale, Done, WithVector, Release!readyState
  <2>4. \A p \in Posts : Good(p)' = Good(p)
    BY <1>1 DEF Good
  <2>5. PostsAreTrue' /\ RendererIsTrue'
    BY <1>1, <2>3, <2>4 DEF PostsAreTrue, AllGood, RendererIsTrue, Release!Stale, ReleaseInv
  <2>6. ProjectionIsTrue'
    BY <1>1, <1>2, <1>5, <2>1, <2>2, <2>3 DEF ProjectionIsTrue, ReleaseInv
  <2>7. Onward /\ RenderStays /\ Goes
    BY <1>1, <1>5, <2>1, <2>2, <2>3, <2>4
       DEF Onward, RenderStays, Goes, RerenderGoes, ProjectGoes, Exhausted, Release!readyState
  <2>8. /\ Becomes(c, "ready", "none", 0, {}) \/ Becomes(c, "idle", "failed", 0, {})
        /\ faults' \in 0..MaxFaults
    BY <1>2, <1>5, Began, Ended DEF ReleaseInv, Release!Steps, Release!Outcomes
  <2>9. \A d \in Commands : command[d].step # "vectors" /\ None # d
    BY <1>1, Locks
  <2>10. renderer.lock # c
    BY <1>1, Locks
  <2>11. ReleaseInv'
    <3>1. CASE Becomes(c, "ready", "none", 0, {})
      BY <1>1, <1>2, <2>2, <2>3, <2>4, <2>5, <2>6, <2>7, <2>8, <2>9, <2>10, <3>1, Commits
    <3>2. CASE Becomes(c, "idle", "failed", 0, {})
      BY <1>1, <1>2, <2>2, <2>4, <2>5, <2>6, <2>7, <2>8, <2>9, <2>10, <3>2, Commits DEF Projecting
    <3> QED BY <2>8, <3>1, <3>2
  <2> QED BY <2>7, <2>11
<1>6. CASE projection.phase = "posts" /\ ~Release!completionOracle
  BY <1>3, <1>6, OracleHolds DEF Release!readyState
<1>7. CASE Release!Fault /\ Release!Ends(c, "failed") /\ UNCHANGED projection
  <2>1. UNCHANGED <<Release!stateVars, ledger, serving>> /\ faults' \in 0..MaxFaults
    BY <1>1, <1>2, <1>7 DEF Release!stateVars
  <2> QED BY <1>1, <1>7, <2>1, OnlyFails
<1> QED BY <1>4, <1>5, <1>6, <1>7 DEF Release!complete

-----------------------------------------------------------------------------
(* The operator and the boards. *)

\* Commands that are idle know nothing that could become false.
LEMMA Rests ==
    ASSUME ReleaseInv, Release!Resting, UNCHANGED command,
           UNCHANGED <<renderer, projection>>
    PROVE  CommandsKnow' /\ LocksAreHeld'
<1>1. ASSUME NEW c \in Commands PROVE Knows(command[c])'
  <2>1. command[c] \in Release!CommandRows /\ command[c].outcome # "refused" /\ command[c].step = "idle"
    BY DEF Release!Resting, ReleaseInv, CommandsKnow, Knows
  <2> QED BY <2>1 DEF Knows, Preflighted, Converting, Projecting
<1> QED BY <1>1 DEF CommandsKnow, LocksAreHeld, ReleaseInv

LEMMA OperatorKeeps ==
    ASSUME Release!ReleaseAssumption, ReleaseInv, Release!Stop \/ Release!StartOld \/ Release!StartNew
    PROVE  ReleaseInv' /\ Goes
<1>1. UNCHANGED <<Release!stateVars, ledger, command, faults>>
  BY DEF Release!Stop, Release!StartOld, Release!StartNew
<1>2. /\ PostsAreTrue' /\ RendererIsTrue' /\ ProjectionIsTrue' /\ Goes /\ Onward /\ RenderStays /\ ProjectStays
      /\ \A p \in Posts : Good(p)' = Good(p)
  BY <1>1, NothingMoves, Stutters
<1>3. CommandsKnow' /\ LocksAreHeld'
  <2>1. ASSUME NEW c \in Commands PROVE Knows(command[c])'
    <3>1. PICK x : x = command[c]
      OBVIOUS
    <3>2. Knows(x) /\ x = command'[c]
      BY <1>1, <3>1 DEF ReleaseInv, CommandsKnow
    <3>3. Knows(x)'
      BY <1>2, <3>2, KnowsStays
    <3> QED BY <3>2, <3>3 DEF Knows, Selected, Loaded
  <2> QED BY <1>1, <2>1 DEF CommandsKnow, LocksAreHeld, ReleaseInv, Release!stateVars
<1>4. BoardsAreTrue'
  <2>1. CASE Release!Stop
    BY <1>1, <2>1 DEF Release!Stop, BoardsAreTrue, ReleaseInv
  <2>2. CASE Release!StartOld
    BY <1>1, <2>2 DEF Release!StartOld, BoardsAreTrue, ReleaseInv, Release!Resting
  <2>3. CASE Release!StartNew
    BY <1>1, <2>3 DEF Release!StartNew, Release!Check, Release!governanceInvariant, Release!readyState, Release!stateVars, BoardsAreTrue, ReleaseInv, Release!Resting
  <2> QED BY <2>1, <2>2, <2>3
<1> QED BY <1>2, <1>3, <1>4 DEF ReleaseInv

LEMMA OldWritesKeeps ==
    ASSUME Release!ReleaseAssumption, ReleaseInv, NEW p \in Posts, Release!OldWrites(p)
    PROVE  ReleaseInv' /\ Goes
<1>1. /\ serving = "old" /\ ~posts[p].redacted
      /\ UNCHANGED <<ledger, renderer, rendered, vectored, projection, command, faults, serving>>
  BY DEF Release!OldWrites
<1>2. PICK fits \in BOOLEAN : posts' = [posts EXCEPT ![p] = Release!Written(fits)]
  BY DEF Release!OldWrites
<1>3. posts \in [Posts -> Release!PostRows] /\ Posts \in SUBSET Nat \ {0}
  BY DEF ReleaseInv, PostsAreTrue, Release!ReleaseAssumption
<1>4. /\ Release!Written(fits) \in Release!PostRows /\ Release!Written(fits).version = "p1" /\ ~Release!Written(fits).redacted
      /\ Release!Written(fits).vector = "none"
  <2>1. Release!Written(fits) \in Release!PostRows
    BY Zenon DEF Release!Written, Release!PostRows
  <2>2. Release!Written(fits).version = "p1" /\ ~Release!Written(fits).redacted /\ Release!Written(fits).vector = "none"
    BY DEF Release!Written
  <2> QED BY <2>1, <2>2
<1>5. posts' \in [Posts -> Release!PostRows] /\ posts'[p] = Release!Written(fits) /\ \A q \in Posts \ {p} : posts'[q] = posts[q]
  BY <1>2, <1>3, <1>4
<1>6. ledger = 0 /\ Release!Resting /\ posts[p].version = "p1"
  BY <1>1 DEF ReleaseInv, BoardsAreTrue, PostsAreTrue
<1>7. Release!Stale(p) /\ Release!Stale(p)' /\ StalePosts' = StalePosts
  <2>1. Release!Stale(p) /\ Release!Stale(p)'
    BY <1>1, <1>4, <1>5, <1>6 DEF Release!Stale
  <2>2. \A q \in Posts \ {p} : Release!Stale(q)' <=> Release!Stale(q)
    BY <1>5 DEF Release!Stale
  <2> QED BY <2>1, <2>2 DEF StalePosts
<1>8. Done = {} /\ Done' = Done /\ ~renderer.completed
  BY <1>1, <1>6 DEF ReleaseInv, RendererIsTrue, Done
<1>9. WithVector = {} /\ WithVector' = {} /\ projection.phase = "topics"
  <2>1. WithVector = {} /\ projection.phase = "topics"
    BY <1>8 DEF ReleaseInv, ProjectionIsTrue
  <2>2. \A q \in Posts : posts'[q].vector = "none"
    BY <1>4, <1>5, <2>1 DEF WithVector
  <2> QED BY <2>1, <2>2 DEF WithVector
<1>10. PostsAreTrue'
  <2>1. \A q \in Posts : posts'[q].redacted \/ posts'[q].version = "p1"
    BY <1>4, <1>5, <1>6 DEF ReleaseInv, PostsAreTrue
  <2> QED BY <1>1, <1>5, <1>6, <2>1 DEF PostsAreTrue
<1>11. RendererIsTrue'
  <2>1. \A q \in Posts : Release!Stale(q)' => Release!Stale(q)
    BY <1>7 DEF StalePosts
  <2> QED BY <1>1, <1>8, <2>1 DEF RendererIsTrue, ReleaseInv
<1>12. ProjectionIsTrue'
  BY <1>1, <1>8, <1>9 DEF ProjectionIsTrue, ReleaseInv, Before
<1>13. CommandsKnow' /\ LocksAreHeld'
  BY <1>1, <1>6, Rests
<1>14. BoardsAreTrue'
  BY <1>1 DEF BoardsAreTrue, ReleaseInv, Release!Resting, Release!readyState
<1>15. Goes
  BY <1>1, <1>7, <1>9 DEF Goes, RerenderGoes, ProjectGoes, Release!readyState
<1> QED BY <1>10, <1>11, <1>12, <1>13, <1>14, <1>15 DEF ReleaseInv

\* What the new board makes of a post.
LEMMA NewRow ==
    ASSUME NEW p \in Posts, posts \in [Posts -> Release!PostRows], Release!NewWrites(p)
    PROVE  /\ posts'[p] \in Release!PostRows /\ posts'[p].vector = posts'[p].html /\ posts'[p].vector # "none"
           /\ ~Release!Stale(p)' /\ Good(p)' /\ \A q \in Posts \ {p} : posts'[q] = posts[q]
           /\ posts' \in [Posts -> Release!PostRows]
<1> DEFINE row == IF posts[p].version = "p2" THEN [Release!Redaction(posts[p]) EXCEPT !.vector = "redaction"]
                  ELSE [Release!Written(TRUE) EXCEPT !.html = "p2", !.version = "p2", !.vector = "p2"]
<1>1. posts[p] \in Release!PostRows /\ posts' = [posts EXCEPT ![p] = row]
  BY DEF Release!NewWrites
<1>2. CASE posts[p].version = "p2"
  <2>1. PICK x : x = Release!Redaction(posts[p])
    OBVIOUS
  <2>2. x \in Release!PostRows /\ x.html = "redaction" /\ x.version = "redaction" /\ x.redacted
    BY <1>1, <2>1, Zenon DEF Release!Redaction, Release!PostRows
  <2>3. row = [x EXCEPT !.vector = "redaction"]
    BY <1>2, <2>1
  <2> HIDE DEF row
  <2>4. /\ row \in Release!PostRows /\ row.html = "redaction" /\ row.version = "redaction" /\ row.redacted
        /\ row.vector = "redaction"
    BY <2>2, <2>3, Zenon DEF Release!PostRows
  <2>5. /\ posts'[p] = row /\ posts' \in [Posts -> Release!PostRows]
        /\ \A q \in Posts \ {p} : posts'[q] = posts[q]
    BY <1>1, <2>4
  <2> QED BY <2>4, <2>5 DEF Release!Stale, Good, Release!preflightPost
<1>3. CASE posts[p].version # "p2"
  <2>1. PICK x : x = Release!Written(TRUE)
    OBVIOUS
  <2>2. x \in Release!PostRows
    BY <2>1, Zenon DEF Release!Written, Release!PostRows
  <2>3. x.fits /\ ~x.redacted
    BY <2>1 DEF Release!Written
  <2>4. row = [x EXCEPT !.html = "p2", !.version = "p2", !.vector = "p2"]
    BY <1>3, <2>1
  <2> HIDE DEF row
  <2>5. row \in Release!PostRows /\ row.html = "p2" /\ row.version = "p2" /\ row.vector = "p2"
    BY <2>2, <2>4, Zenon DEF Release!PostRows
  <2>6. row.fits /\ ~row.redacted
    BY <2>2, <2>3, <2>4, Zenon DEF Release!PostRows
  <2>7. /\ posts'[p] = row /\ posts' \in [Posts -> Release!PostRows]
        /\ \A q \in Posts \ {p} : posts'[q] = posts[q]
    BY <1>1, <2>5
  <2> QED BY <2>5, <2>6, <2>7 DEF Release!Stale, Good, Release!preflightPost
<1> QED BY <1>2, <1>3

LEMMA NewWritesKeeps ==
    ASSUME Release!ReleaseAssumption, ReleaseInv, NEW p \in Posts, Release!NewWrites(p)
    PROVE  ReleaseInv' /\ Goes
<1>1. /\ serving = "new"
      /\ UNCHANGED <<ledger, renderer, rendered, vectored, projection, command, faults, serving>>
  BY DEF Release!NewWrites
<1>2. /\ posts'[p] \in Release!PostRows /\ posts'[p].vector = posts'[p].html /\ posts'[p].vector # "none"
      /\ ~Release!Stale(p)' /\ Good(p)' /\ \A q \in Posts \ {p} : posts'[q] = posts[q]
      /\ posts' \in [Posts -> Release!PostRows]
  BY NewRow DEF ReleaseInv, PostsAreTrue
<1>3. ledger = 2 /\ renderer.completed /\ projection.phase = "complete" /\ Release!Resting /\ AllGood
  BY <1>1 DEF ReleaseInv, BoardsAreTrue, PostsAreTrue, Release!readyState
<1>4. \A q \in Posts : Good(q)'
  BY <1>2, <1>3 DEF AllGood, Good
<1>5. StalePosts = {} /\ StalePosts' = {} /\ \A q \in Posts : ~Release!Stale(q)'
  <2>1. StalePosts = {} /\ \A q \in Posts : ~Release!Stale(q)
    BY <1>3 DEF ReleaseInv, RendererIsTrue, StalePosts
  <2>2. \A q \in Posts : ~Release!Stale(q)'
    BY <1>2, <2>1 DEF Release!Stale
  <2> QED BY <2>1, <2>2 DEF StalePosts
<1>6. WithVector = Posts /\ WithVector' = Posts /\ \A q \in Posts : posts'[q].vector = posts'[q].html
  <2>1. WithVector = Posts /\ \A q \in Posts : posts[q].vector = posts[q].html
    BY <1>3 DEF ReleaseInv, ProjectionIsTrue
  <2> QED BY <1>2, <2>1 DEF WithVector
<1>7. PostsAreTrue'
  BY <1>1, <1>2, <1>3, <1>4 DEF PostsAreTrue, AllGood
<1>8. RendererIsTrue'
  BY <1>1, <1>3, <1>5 DEF RendererIsTrue, ReleaseInv, Done
<1>9. ProjectionIsTrue'
  BY <1>1, <1>3, <1>6 DEF ProjectionIsTrue, ReleaseInv
<1>10. CommandsKnow' /\ LocksAreHeld'
  BY <1>1, <1>3, Rests
<1>11. BoardsAreTrue'
  BY <1>1 DEF BoardsAreTrue, ReleaseInv, Release!Resting, Release!readyState
<1>12. Goes
  BY <1>1, <1>5, <1>6 DEF Goes, RerenderGoes, ProjectGoes, Release!readyState
<1> QED BY <1>7, <1>8, <1>9, <1>10, <1>11, <1>12 DEF ReleaseInv

-----------------------------------------------------------------------------
(* The invariant is one. *)

LEMMA ReleaseBegins ==
    ASSUME Release!ReleaseAssumption, Release!Init
    PROVE  ReleaseInv
<1> USE DEF Release!Init
<1>1. posts \in [Posts -> Release!OldPosts] /\ ledger = 0 /\ rendered = [p \in Posts |-> 0] /\ faults = 0
      /\ renderer = [cursor |-> 0, converted |-> 0, completed |-> FALSE, validated |-> FALSE, lock |-> None]
      /\ command = [c \in Commands |-> Release!Idle]
  BY DEF Release!RendererInit
<1>2. /\ vectored = {} /\ serving = "old"
      /\ projection = [phase |-> "topics", cursor |-> 0, topics |-> 0, posts |-> 0, lock |-> None]
  BY DEF Release!ProjectionInit
<1>3. ASSUME NEW post \in Release!OldPosts
      PROVE  post \in Release!PostRows /\ (post.redacted \/ post.version = "p1") /\ post.vector = "none"
  <2>1. ASSUME NEW fits \in BOOLEAN
        PROVE  Release!Written(fits) \in Release!PostRows /\ Release!Written(fits).version = "p1" /\ Release!Written(fits).vector = "none"
    <3>1. Release!Written(fits) \in Release!PostRows
      BY Zenon DEF Release!Written, Release!PostRows
    <3> QED BY <3>1 DEF Release!Written
  <2>2. PICK x, y : x = Release!Written(TRUE) /\ y = Release!Written(FALSE)
    OBVIOUS
  <2>3. /\ x \in Release!PostRows /\ x.version = "p1" /\ x.vector = "none"
        /\ y \in Release!PostRows /\ y.version = "p1" /\ y.vector = "none"
    BY <2>1, <2>2
  <2>4. post \in {x, y, [y EXCEPT !.html = "other"],
                  [x EXCEPT !.html = "redaction", !.version = "redaction", !.redacted = TRUE],
                  [x EXCEPT !.redacted = TRUE]}
    BY <2>2 DEF Release!OldPosts, Release!Redaction
  <2>5. CASE post = x \/ post = y
    BY <2>3, <2>5
  <2>6. CASE post = [y EXCEPT !.html = "other"]
    BY <2>3, <2>6, Zenon DEF Release!PostRows
  <2>7. CASE post = [x EXCEPT !.html = "redaction", !.version = "redaction", !.redacted = TRUE]
    BY <2>3, <2>7, Zenon DEF Release!PostRows
  <2>8. CASE post = [x EXCEPT !.redacted = TRUE]
    BY <2>3, <2>8, Zenon DEF Release!PostRows
  <2> QED BY <2>4, <2>5, <2>6, <2>7, <2>8
<1>4. Posts \in SUBSET Nat /\ (\A p \in Posts : p # 0 /\ p > 0 /\ ~(p <= 0)) /\ \A t \in Topics : ~(t <= 0)
  BY DEF Release!ReleaseAssumption
<1>5. PostsAreTrue
  BY <1>1, <1>3 DEF PostsAreTrue
<1>6. Done = {} /\ WithVector = {}
  BY <1>1, <1>3 DEF Done, WithVector
<1>7. RendererIsTrue
  <2>1. renderer \in RendererRows
    BY <1>1, Zenon DEF RendererRows
  <2>2. Release!Max({} \cup {0}) = 0
    BY CountingAddElement, CountingEmptySet, MaxIs
  <2>3. Release!Cardinality({}) = 0
    BY CountingEmptySet
  <2>4. renderer.cursor = 0 /\ renderer.converted = 0 /\ ~renderer.completed
    BY <1>1
  <2>5. rendered \in [Posts -> {0, 1}] /\ \A p \in Posts : rendered[p] = 0
    BY <1>1
  <2> QED BY <1>4, <1>6, <2>1, <2>2, <2>3, <2>4, <2>5 DEF RendererIsTrue
<1>8. ProjectionIsTrue
  <2>1. projection \in ProjectionRows
    BY <1>2, Zenon DEF ProjectionRows
  <2>2. Release!Cardinality({}) = 0
    BY CountingEmptySet
  <2>3. projection.phase = "topics" /\ projection.cursor = 0 /\ projection.topics = 0 /\ projection.posts = 0
    BY <1>2
  <2>4. Before(Topics, 0) = {}
    BY <1>4 DEF Before
  <2> QED BY <1>2, <1>6, <2>1, <2>2, <2>3, <2>4 DEF ProjectionIsTrue
<1>9. CommandsKnow
  <2>1. Release!Idle \in Release!CommandRows
    <3>1. "idle" \in Release!Steps /\ "none" \in Release!Outcomes /\ 0 \in Nat /\ {} \in SUBSET Nat /\ 1 \in 1..maximumAttempts
      BY DEF Release!Steps, Release!Outcomes, Release!ReleaseAssumption
    <3> QED BY <3>1, Zenon DEF Release!Idle, Release!CommandRows
  <2>2. Release!Idle.step = "idle" /\ Release!Idle.outcome = "none"
    BY DEF Release!Idle
  <2>3. Knows(Release!Idle)
    BY <2>1, <2>2 DEF Knows, Preflighted, Converting, Projecting
  <2> QED BY <1>1, <2>3 DEF CommandsKnow
<1>10. LocksAreHeld
  <2>1. renderer.lock = None /\ projection.lock = None /\ \A c \in Commands : command[c].step = "idle"
    BY <1>1, <1>2 DEF Release!Idle
  <2> QED BY <2>1 DEF LocksAreHeld, Release!ReleaseAssumption
<1>11. BoardsAreTrue
  BY <1>1, <1>2 DEF BoardsAreTrue, Release!Resting, Release!Idle, Release!ReleaseAssumption
<1> QED BY <1>5, <1>7, <1>8, <1>9, <1>10, <1>11 DEF ReleaseInv

LEMMA ReleaseStep ==
    ASSUME Release!ReleaseAssumption, ReleaseInv, [Release!Next]_releaseVars
    PROVE  ReleaseInv' /\ Goes
<1>1. CASE UNCHANGED releaseVars
  <2>1. /\ UNCHANGED <<Release!stateVars, ledger, command, serving, faults>>
    BY <1>1 DEF releaseVars, Release!stateVars
  <2>2. Goes /\ PostsAreTrue' /\ RendererIsTrue' /\ ProjectionIsTrue'
    BY <2>1, NothingMoves, Stutters
  <2>3. CommandsKnow'
    BY <1>1 DEF releaseVars, ReleaseInv, CommandsKnow, Knows, AllGood, Good, Selected, Loaded, Exhausted,
                Release!readyState, StalePosts, Release!Stale, Release!Rows
  <2>4. LocksAreHeld' /\ BoardsAreTrue'
    BY <1>1 DEF releaseVars, ReleaseInv, LocksAreHeld, BoardsAreTrue, Release!Resting, Release!readyState
  <2> QED BY <2>2, <2>3, <2>4 DEF ReleaseInv
<1>2. CASE Release!Stop \/ Release!StartOld \/ Release!StartNew
  BY <1>2, OperatorKeeps
<1>3. ASSUME NEW c \in Commands, Release!StartCommand(c) \/ Release!CommandStep(c) \/ Release!Crash(c) PROVE ReleaseInv' /\ Goes
  <2>1. CASE Release!StartCommand(c)
    BY <2>1, StartCommandKeeps
  <2>2. CASE Release!Crash(c)
    BY <2>2, CrashKeeps
  <2>3. CASE Release!ApplyMigrations(c)
    BY <2>3, ApplyKeeps
  <2>4. CASE /\ \/ Release!inspectPreflightState(c) \/ Release!preflightBatch(c)
                \/ Release!SelectBatch(c) \/ Release!WriteBatch(c) \/ Release!CompleteRenderer(c)
             /\ UNCHANGED <<vectored, projection, serving>>
    BY <2>4, InspectKeeps, PreflightBatchKeeps, SelectBatchKeeps, WriteBatchKeeps, CompleteRendererKeeps
  <2>5. CASE /\ \/ Release!inspectServer(c) \/ Release!preflightKind(c)
                \/ Release!loadMutationCandidates(c) \/ Release!AdvancePhase(c) \/ Release!EndOfRows(c)
                \/ Release!ProjectBatch(c) \/ Release!complete(c) \/ Release!Ready(c)
             /\ UNCHANGED serving
    BY <2>5, InspectServerKeeps, PreflightKindKeeps, LoadKeeps, AdvancePhaseKeeps, EndOfRowsKeeps,
       ProjectBatchKeeps, CompleteKeeps, ReadyKeeps
  <2> QED BY <1>3, <2>1, <2>2, <2>3, <2>4, <2>5 DEF Release!CommandStep
<1>4. ASSUME NEW p \in Posts, Release!OldWrites(p) \/ Release!NewWrites(p) PROVE ReleaseInv' /\ Goes
  BY <1>4, OldWritesKeeps, NewWritesKeeps
<1> QED BY <1>1, <1>2, <1>3, <1>4 DEF Release!Next

-----------------------------------------------------------------------------
(* What follows from it. *)

LEMMA CountIsBounded ==
    ASSUME NEW S, NEW T, S \subseteq T, Release!IsFiniteSet(T)
    PROVE  Release!Cardinality(S) \in 0..Release!Cardinality(T)
<1>1. Release!IsFiniteSet(S) /\ Release!Cardinality(S) <= Release!Cardinality(T)
  BY CountingSubset
<1>2. Release!Cardinality(S) \in Nat /\ Release!Cardinality(T) \in Nat
  BY <1>1, CountingCardinalityType
<1> QED BY <1>1, <1>2

LEMMA ReleaseTypes ==
    ASSUME Release!ReleaseAssumption, ReleaseInv
    PROVE  Release!TypeOK
<1>1. Release!IsFiniteSet(Posts) /\ Release!IsFiniteSet(Topics) /\ Posts \in SUBSET Nat
  BY DEF Release!ReleaseAssumption
<1>2. Done \subseteq Posts /\ WithVector \subseteq Posts
  BY DEF Done, WithVector
<1>3. renderer.cursor \in Posts \cup {0}
  <2>1. Done \cup {0} \in SUBSET Nat /\ Release!IsFiniteSet(Done \cup {0})
    <3>1. Release!IsFiniteSet(Done)
      BY <1>1, <1>2, CountingSubset
    <3> QED BY <1>1, <1>2, <3>1, CountingAddElement
  <2>2. Release!Max(Done \cup {0}) \in Done \cup {0}
    BY <2>1, MaxIsGreatest
  <2> QED BY <1>2, <2>2 DEF ReleaseInv, RendererIsTrue
<1>4. renderer.converted \in 0..Release!Cardinality(Posts)
  <2>1. Release!Cardinality(Done) \in 0..Release!Cardinality(Posts)
    BY <1>1, <1>2, CountIsBounded
  <2> QED BY <2>1 DEF ReleaseInv, RendererIsTrue
<1>5. renderer.completed \in BOOLEAN /\ renderer.validated \in BOOLEAN /\ renderer.lock \in Commands \cup {None}
  BY Zenon DEF ReleaseInv, RendererIsTrue, RendererRows
<1>6. Release!RendererTypeOK
  BY <1>3, <1>4, <1>5 DEF Release!RendererTypeOK, ReleaseInv, PostsAreTrue, CommandsKnow, Knows, BoardsAreTrue
<1>7. projection.topics \in 0..Release!Cardinality(Topics) /\ projection.posts \in 0..Release!Cardinality(Posts)
  BY <1>1, <1>2, CountIsBounded DEF ReleaseInv, ProjectionIsTrue
<1>8. projection.phase \in {"topics", "posts", "complete"} /\ projection.lock \in Commands \cup {None}
  BY DEF ReleaseInv, ProjectionIsTrue, ProjectionRows
<1>9. projection.cursor \in Topics \cup Posts \cup {0}
  BY <1>8 DEF ReleaseInv, ProjectionIsTrue
<1>10. Release!ProjectionTypeOK
  BY <1>7, <1>8, <1>9 DEF Release!ProjectionTypeOK, ReleaseInv, ProjectionIsTrue
<1> QED BY <1>6, <1>10 DEF Release!TypeOK, ReleaseInv, BoardsAreTrue

LEMMA ReleaseHolds ==
    ASSUME Release!ReleaseAssumption, ReleaseInv
    PROVE  Release!ServedReleaseIsConverted /\ Release!ProgressIsTrue /\ Release!PreflightSuffices
<1>1. Release!ServedReleaseIsConverted
  <2>1. SUFFICES ASSUME serving = "new"
                 PROVE  /\ \A p \in Posts : ~Release!Stale(p) /\ Release!Current(p) /\ posts[p].vector = posts[p].html
                        /\ vectored = Topics
    BY DEF Release!ServedReleaseIsConverted
  <2>2. AllGood /\ renderer.completed /\ projection.phase = "complete"
    BY <2>1 DEF ReleaseInv, BoardsAreTrue, PostsAreTrue, Release!readyState
  <2>3. \A p \in Posts : ~Release!Stale(p)
    BY <2>2 DEF ReleaseInv, RendererIsTrue, StalePosts
  <2>4. \A p \in Posts : Release!Current(p)
    BY <2>2, <2>3 DEF AllGood, Good, Release!preflightPost, Release!Stale, Release!Current
  <2>5. vectored = Topics /\ \A p \in Posts : posts[p].vector = posts[p].html
    BY <2>2 DEF ReleaseInv, ProjectionIsTrue
  <2> QED BY <2>3, <2>4, <2>5
<1>2. Release!ProgressIsTrue
  <2>1. \A p \in Posts : rendered[p] <= 1
    BY DEF ReleaseInv, RendererIsTrue
  <2> QED BY <2>1 DEF Release!ProgressIsTrue, ReleaseInv, RendererIsTrue, ProjectionIsTrue, Done, WithVector
<1>3. Release!PreflightSuffices
  BY DEF Release!PreflightSuffices, ReleaseInv, CommandsKnow, Knows
<1> QED BY <1>1, <1>2, <1>3

\* A step of the release is a step of each conversion, or none.
LEMMA ReleaseConverts ==
    ASSUME Goes
    PROVE  /\ [Release!Rerender!Next]_<<{p \in Posts : Release!Stale(p)}, renderer.completed>>
           /\ [Release!Project!Next]_<<{<<"topic", t>> : t \in Topics \ vectored}
                                  \cup {<<"post", p>> : p \in {q \in Posts : posts[q].vector = "none"}},
                               Release!readyState>>
<1> DEFINE stale == {p \in Posts : Release!Stale(p)}
<1>1. stale = StalePosts /\ stale' = StalePosts'
  BY DEF StalePosts
<1>2. Release!Rerender!Next \/ UNCHANGED <<stale, renderer.completed>>
  <2>1. CASE StalePosts' \subseteq StalePosts /\ renderer'.completed = renderer.completed
    <3>1. stale' = stale \ (stale \ stale') /\ (stale \ stale') \in SUBSET stale
      BY <1>1, <2>1
    <3> QED BY <2>1, <3>1 DEF Release!Rerender!Next, Release!Rerender!Convert
  <2>2. CASE StalePosts = {} /\ StalePosts' = StalePosts /\ renderer'.completed = TRUE
    <3>1. stale = {} /\ stale' = stale
      BY <1>1, <2>2
    <3> QED BY <2>2, <3>1 DEF Release!Rerender!Next, Release!Rerender!Finish
  <2> QED BY <2>1, <2>2 DEF Goes, RerenderGoes
<1> DEFINE pending == {<<"topic", t>> : t \in Topics \ vectored}
                        \cup {<<"post", p>> : p \in {q \in Posts : posts[q].vector = "none"}}
<1>3. pending = {<<"topic", t>> : t \in Topics \ vectored} \cup {<<"post", p>> : p \in Posts \ WithVector}
  BY DEF WithVector
<1>4. Release!Project!Next \/ UNCHANGED <<pending, Release!readyState>>
  <2>1. CASE vectored \subseteq vectored' /\ WithVector \subseteq WithVector' /\ Release!readyState' = Release!readyState
    <3>1. pending' \subseteq pending
      <4>1. pending' = {<<"topic", t>> : t \in Topics \ vectored'} \cup {<<"post", p>> : p \in Posts \ WithVector'}
        BY DEF WithVector
      <4> QED BY <1>3, <2>1, <4>1
    <3>2. pending' = pending \ (pending \ pending') /\ (pending \ pending') \in SUBSET pending
      BY <3>1
    <3> QED BY <2>1, <3>2 DEF Release!Project!Next, Release!Project!Convert
  <2>2. CASE /\ vectored = Topics /\ WithVector = Posts /\ Release!readyState' = TRUE
             /\ vectored' = vectored /\ WithVector' = WithVector
    <3>1. pending = {}
      BY <1>3, <2>2
    <3>2. pending' = {<<"topic", t>> : t \in Topics \ vectored'} \cup {<<"post", p>> : p \in Posts \ WithVector'}
      BY DEF WithVector
    <3>3. pending' = pending
      BY <1>3, <2>2, <3>2
    <3> QED BY <2>2, <3>1, <3>3 DEF Release!Project!Next, Release!Project!Finish
  <2> QED BY <2>1, <2>2 DEF Goes, ProjectGoes
<1>5. [Release!Rerender!Next]_<<stale, renderer.completed>>
  BY <1>2
<1>6. [Release!Project!Next]_<<pending, Release!readyState>>
  BY <1>4
<1> QED BY <1>5, <1>6

LEMMA ReleaseInvariantly ==
    ASSUME Release!ReleaseAssumption
    PROVE  Release!Init /\ [][Release!Next]_releaseVars => []ReleaseInv
<1>1. Release!Init => ReleaseInv
  BY ReleaseBegins
<1>2. ReleaseInv /\ [Release!Next]_releaseVars => ReleaseInv'
  BY ReleaseStep
<1> QED BY <1>1, <1>2, PTL

-----------------------------------------------------------------------------
(* ReleaseCommand: what is proved about it alone. *)

\* The rows of the conversions and the commands are what their types say: the
\* counts and the cursors stay among the rows.
THEOREM ReleaseCommandTypes ==
    ASSUME Release!ReleaseAssumption
    PROVE  Release!Init /\ [][Release!Next]_releaseVars => []Release!TypeOK
<1>1. ReleaseInv => Release!TypeOK
  BY ReleaseTypes
<1> QED BY <1>1, ReleaseInvariantly, PTL

\* However often a release is run, fails or is killed, and whatever commits were
\* unknown: the new board serves converted rows only, progress counts each row
\* once, and no conversion meets a post that the preflight let through and it
\* has to refuse.
THEOREM ReleaseIsConvertedAlone ==
    ASSUME Release!ReleaseAssumption
    PROVE  Release!Init /\ [][Release!Next]_releaseVars => [](Release!ServedReleaseIsConverted /\ Release!ProgressIsTrue /\ Release!PreflightSuffices)
<1>1. ReleaseInv => Release!ServedReleaseIsConverted /\ Release!ProgressIsTrue /\ Release!PreflightSuffices
  BY ReleaseHolds
<1> QED BY <1>1, ReleaseInvariantly, PTL

\* Both conversions implement the abstract one: rows leave what waits and do not
\* come back, and the conversion is called finished when nothing waits.
THEOREM ConversionsRefineAlone ==
    ASSUME Release!ReleaseAssumption
    PROVE  Release!Init /\ [][Release!Next]_releaseVars => Release!RerenderIsAConversion /\ Release!ProjectionIsAConversion
<1> DEFINE stale == {p \in Posts : Release!Stale(p)}
           pending == {<<"topic", t>> : t \in Topics \ vectored}
                        \cup {<<"post", p>> : p \in {q \in Posts : posts[q].vector = "none"}}
<1>1. Release!Init => Release!Rerender!Init /\ Release!Project!Init
  <2>1. ASSUME Release!Init PROVE Release!Rerender!Init /\ Release!Project!Init
    <3>1. renderer.completed = FALSE /\ Release!readyState = FALSE
      BY <2>1 DEF Release!Init, Release!RendererInit, Release!ProjectionInit, Release!readyState
    <3> QED BY <3>1 DEF Release!Rerender!Init, Release!Project!Init
  <2> QED BY <2>1
<1>2. ReleaseInv /\ [Release!Next]_releaseVars =>
        [Release!Rerender!Next]_<<stale, renderer.completed>> /\ [Release!Project!Next]_<<pending, Release!readyState>>
  BY ReleaseStep, ReleaseConverts
<1>3. /\ Release!RerenderIsAConversion <=> Release!Rerender!Init /\ [][Release!Rerender!Next]_<<stale, renderer.completed>>
      /\ Release!ProjectionIsAConversion <=> Release!Project!Init /\ [][Release!Project!Next]_<<pending, Release!readyState>>
  BY DEF Release!RerenderIsAConversion, Release!ProjectionIsAConversion, Release!Rerender!Spec, Release!Project!Spec
<1> HIDE DEF stale, pending
<1> QED BY <1>1, <1>2, <1>3, ReleaseInvariantly, PTL

-----------------------------------------------------------------------------
(* RequestLimiter: the inductive invariant. *)

AdmitCalls == [step : {"admit"}, address : Addresses, now : 0..MaxClock]
CallRecords == {Limiter!Free} \cup AdmitCalls \cup [step : Limiter!Decisions]

\* What is remembered is not after the last window's end.
RememberedIsReal == earliestValid => \E a \in DOMAIN entries : earliest <= Limiter!Expiry(a)

WindowsAreBounded == Cardinality(DOMAIN entries) <= capacity

LimiterInv == Limiter!TypeOK /\ WindowsAreBounded /\ RememberedIsReal

\* The instance counts as this module does.
LEMMA Counting ==
    /\ \A S : Limiter!Cardinality(S) = Cardinality(S)
    /\ \A S : Limiter!IsFiniteSet(S) <=> IsFiniteSet(S)
<1>1. ASSUME NEW S PROVE Limiter!Cardinality(S) = Cardinality(S)
  BY DEF Limiter!Cardinality, Cardinality
<1>2. ASSUME NEW S PROVE Limiter!IsFiniteSet(S) <=> IsFiniteSet(S)
  BY DEF Limiter!IsFiniteSet, IsFiniteSet
<1> QED BY <1>1, <1>2

LEMMA CountsOfTables ==
    /\ Limiter!CapacityHolds <=> WindowsAreBounded
    /\ \A t : Limiter!Full(t) <=> Cardinality(DOMAIN t.entries) >= capacity
    /\ Limiter!LimiterAssumption => IsFiniteSet(Addresses)
  BY Counting DEF WindowsAreBounded, Limiter!CapacityHolds, Limiter!Full,
       Limiter!LimiterAssumption

\* The windows of a table are finitely many, and they have ends.
LEMMA WindowsAreFinite ==
    ASSUME Limiter!LimiterAssumption, Limiter!TypeOK
    PROVE  /\ IsFiniteSet(DOMAIN entries)
           /\ \A a \in DOMAIN entries : Limiter!Expiry(a) \in Nat /\ Limiter!Expiry(a) \in 0..MaxClock + window
<1>1. IsFiniteSet(DOMAIN entries)
  BY FS_Subset, CountsOfTables DEF Limiter!TypeOK
<1>2. ASSUME NEW a \in DOMAIN entries
      PROVE  Limiter!Expiry(a) \in Nat /\ Limiter!Expiry(a) \in 0..MaxClock + window
  <2>1. entries[a].started \in 0..MaxClock
    BY <1>2 DEF Limiter!TypeOK, Limiter!Windows
  <2> QED BY <2>1 DEF Limiter!Expiry, Limiter!LimiterAssumption
<1> QED BY <1>1, <1>2

LEMMA Numbers ==
    ASSUME Limiter!LimiterAssumption
    PROVE  /\ capacity \in Nat /\ capacity > 0 /\ limit \in Nat /\ limit > 0
           /\ window \in Nat /\ window > 0 /\ MaxClock \in Nat
  BY DEF Limiter!LimiterAssumption

-----------------------------------------------------------------------------
(* The tables that a request leaves. *)

\* A table as a request leaves or finds it.
IsTable(left) ==
    /\ DOMAIN left.entries \subseteq Addresses
    /\ \A a \in DOMAIN left.entries : left.entries[a] \in Limiter!Windows
    /\ left.earliest \in 0..MaxClock + window /\ left.valid \in BOOLEAN
    /\ Cardinality(DOMAIN left.entries) <= capacity
    /\ left.valid => \E a \in DOMAIN left.entries : left.earliest <= left.entries[a].started + window

LEMMA TableIsTable ==
    ASSUME LimiterInv
    PROVE  IsTable(Limiter!Table)
  BY DEF LimiterInv, Limiter!TypeOK, WindowsAreBounded, RememberedIsReal, Limiter!Expiry,
       IsTable, Limiter!Table

\* What is left of a table when expired windows go.
LEMMA ReclaimedIsTable ==
    ASSUME Limiter!LimiterAssumption, LimiterInv, NEW time \in 0..MaxClock
    PROVE  /\ IsTable(Limiter!reclaim(time))
           /\ DOMAIN Limiter!reclaim(time).entries = {a \in DOMAIN entries : Limiter!Live(a, time)}
           /\ \A a \in DOMAIN Limiter!reclaim(time).entries : Limiter!reclaim(time).entries[a] = entries[a]
<1> DEFINE kept == {a \in DOMAIN entries : Limiter!Live(a, time)}
           ends == {Limiter!Expiry(a) : a \in kept}
<1>1. /\ Limiter!reclaim(time).entries = [a \in kept |-> entries[a]]
      /\ Limiter!reclaim(time).earliest = (IF kept = {} THEN 0 ELSE Limiter!Min(ends))
      /\ Limiter!reclaim(time).valid = (kept # {})
  BY DEF Limiter!reclaim
<1>2. kept \subseteq DOMAIN entries /\ IsFiniteSet(kept)
  BY WindowsAreFinite, FS_Subset DEF LimiterInv
<1>3. Cardinality(kept) <= capacity
  <2>1. Cardinality(kept) <= Cardinality(DOMAIN entries)
    BY <1>2, WindowsAreFinite, FS_Subset DEF LimiterInv
  <2>2. Cardinality(kept) \in Nat /\ Cardinality(DOMAIN entries) \in Nat /\ capacity \in Nat
    BY <1>2, WindowsAreFinite, FS_CardinalityType DEF LimiterInv, Limiter!LimiterAssumption
  <2>3. Cardinality(DOMAIN entries) <= capacity
    BY DEF LimiterInv, WindowsAreBounded
  <2> HIDE DEF kept
  <2> QED BY <2>1, <2>2, <2>3
<1>4. ASSUME kept # {}
      PROVE  Limiter!Min(ends) \in ends
  <2>1. ends \in SUBSET Nat /\ ends # {}
    BY <1>4, <1>2, WindowsAreFinite DEF LimiterInv
  <2>2. IsFiniteSet(ends)
    <3>1. ends \subseteq 0..MaxClock + window
      BY <1>2, WindowsAreFinite DEF LimiterInv
    <3>2. IsFiniteSet(0..MaxClock + window)
      BY FS_Interval DEF Limiter!LimiterAssumption
    <3> HIDE DEF ends
    <3> QED BY <3>1, <3>2, FS_Subset
  <2>3. PICK n \in ends : \A m \in ends : n <= m
    <3> HIDE DEF ends
    <3> QED BY <2>1, <2>2, Least
  <2> HIDE DEF ends
  <2> QED BY <2>3 DEF Limiter!Min
<1>5. Limiter!reclaim(time).earliest \in 0..MaxClock + window
  <2>1. CASE kept = {}
    BY <1>1, <2>1 DEF Limiter!LimiterAssumption
  <2>2. CASE kept # {}
    <3>1. PICK a \in kept : Limiter!Min(ends) = Limiter!Expiry(a)
      BY <1>4, <2>2
    <3> QED BY <1>1, <2>2, <3>1, WindowsAreFinite DEF LimiterInv
  <2> QED BY <2>1, <2>2
<1>6. ASSUME Limiter!reclaim(time).valid
      PROVE  \E a \in kept : Limiter!reclaim(time).earliest <= entries[a].started + window
  <2>1. kept # {}
    BY <1>1, <1>6
  <2>2. PICK a \in kept : Limiter!Min(ends) = Limiter!Expiry(a)
    BY <1>4, <2>1
  <2>3. Limiter!Expiry(a) \in Nat /\ Limiter!Expiry(a) = entries[a].started + window
    BY <1>2, WindowsAreFinite DEF LimiterInv, Limiter!Expiry
  <2>4. Limiter!reclaim(time).earliest = Limiter!Expiry(a)
    BY <1>1, <2>1, <2>2
  <2> HIDE DEF kept, ends
  <2> QED BY <2>2, <2>3, <2>4
<1>7. DOMAIN Limiter!reclaim(time).entries = kept /\ \A a \in kept : Limiter!reclaim(time).entries[a] = entries[a]
  BY <1>1
<1>8. kept \subseteq Addresses /\ \A a \in kept : entries[a] \in Limiter!Windows
  BY <1>2 DEF LimiterInv, Limiter!TypeOK
<1>9. Limiter!reclaim(time).valid \in BOOLEAN
  BY <1>1
<1> HIDE DEF kept, ends
<1>10. IsTable(Limiter!reclaim(time))
  BY <1>3, <1>5, <1>6, <1>7, <1>8, <1>9 DEF IsTable
<1> QED BY <1>7, <1>10 DEF kept

\* A decision that leaves a table keeps the invariant.
LEMMA DecideKeeps ==
    ASSUME Limiter!LimiterAssumption, LimiterInv, NEW r \in Slots, NEW decision \in Limiter!Decisions, NEW left,
           IsTable(left), Limiter!Decide(r, decision, left)
    PROVE  LimiterInv'
<1>1. /\ entries' = left.entries /\ earliest' = left.earliest /\ earliestValid' = left.valid /\ clock' = clock
      /\ admission' = [admission EXCEPT ![r] = [step |-> decision]]
  BY DEF Limiter!Decide
<1>2. [step |-> decision] \in [step : Limiter!Decisions]
  OBVIOUS
<1>3. admission' \in [Slots -> CallRecords]
  BY <1>1, <1>2 DEF LimiterInv, Limiter!TypeOK, CallRecords, AdmitCalls
<1>4. Limiter!TypeOK'
  BY <1>1, <1>3 DEF LimiterInv, Limiter!TypeOK, IsTable, CallRecords, AdmitCalls
<1>5. WindowsAreBounded'
  BY <1>1 DEF WindowsAreBounded, IsTable
<1>6. RememberedIsReal'
  BY <1>1 DEF RememberedIsReal, IsTable, Limiter!Expiry
<1> QED BY <1>4, <1>5, <1>6 DEF LimiterInv

\* A new window enters a table that is not full.
LEMMA InsertKeeps ==
    ASSUME Limiter!LimiterAssumption, LimiterInv, NEW r \in Slots, admission[r] \in AdmitCalls, NEW left,
           IsTable(left), admission[r].address \notin DOMAIN left.entries, Limiter!Insert(r, left)
    PROVE  LimiterInv'
<1> DEFINE time == admission[r].now
           new == admission[r].address
           sooner == ~left.valid \/ time + window < left.earliest
           larger == [entries |-> [a \in DOMAIN left.entries \cup {new} |->
                                     IF a = new THEN [started |-> time, count |-> 1] ELSE left.entries[a]],
                      earliest |-> IF sooner THEN time + window ELSE left.earliest, valid |-> TRUE]
<1>1. Limiter!Decide(r, "allowed", larger) /\ ~Limiter!Full(left)
  BY DEF Limiter!Insert, Limiter!InsertAnyway
<1>2. time \in 0..MaxClock /\ new \in Addresses
  BY DEF AdmitCalls
<1>3. [started |-> time, count |-> 1] \in Limiter!Windows
  BY <1>2 DEF Limiter!Windows, Limiter!LimiterAssumption
<1>4. IsFiniteSet(DOMAIN left.entries)
  BY FS_Subset, CountsOfTables DEF IsTable
<1>5. Cardinality(DOMAIN larger.entries) <= capacity
  <2>1. Cardinality(DOMAIN left.entries \cup {new}) = Cardinality(DOMAIN left.entries) + 1
    BY <1>4, FS_AddElement
  <2>2. Cardinality(DOMAIN left.entries) < capacity
    <3>1. ~(Cardinality(DOMAIN left.entries) >= capacity)
      BY <1>1, CountsOfTables
    <3> QED BY <3>1, <1>4, FS_CardinalityType DEF Limiter!LimiterAssumption
  <2> QED BY <2>1, <2>2, <1>4, FS_CardinalityType DEF Limiter!LimiterAssumption
<1>6. larger.valid => \E a \in DOMAIN larger.entries : larger.earliest <= larger.entries[a].started + window
  <2>1. CASE sooner
    <3>1. new \in DOMAIN larger.entries /\ larger.entries[new].started = time
      OBVIOUS
    <3> QED BY <1>2, <2>1, <3>1 DEF Limiter!LimiterAssumption
  <2>2. CASE ~sooner
    <3>1. PICK a \in DOMAIN left.entries : left.earliest <= left.entries[a].started + window
      BY <2>2 DEF IsTable
    <3>2. a \in DOMAIN larger.entries /\ larger.entries[a] = left.entries[a]
      BY <3>1
    <3> QED BY <2>2, <3>1, <3>2
  <2> QED BY <2>1, <2>2
<1>7. /\ DOMAIN larger.entries \subseteq Addresses
      /\ \A a \in DOMAIN larger.entries : larger.entries[a] \in Limiter!Windows
  BY <1>2, <1>3 DEF IsTable
<1>8. larger.earliest \in 0..MaxClock + window /\ larger.valid \in BOOLEAN
  BY <1>2 DEF IsTable, Limiter!LimiterAssumption
<1> HIDE DEF larger
<1>9. IsTable(larger)
  BY <1>5, <1>6, <1>7, <1>8 DEF IsTable
<1> QED BY <1>1, <1>9, DecideKeeps DEF Limiter!Decisions

-----------------------------------------------------------------------------
(* RequestLimiter: every step keeps the invariant. *)

LEMMA AdmittingCall ==
    ASSUME Limiter!TypeOK, NEW r \in Slots, admission[r].step = "admit"
    PROVE  admission[r] \in AdmitCalls
<1>1. admission[r] \in {Limiter!Free} \cup AdmitCalls \cup [step : Limiter!Decisions]
  BY DEF Limiter!TypeOK, AdmitCalls
<1>2. admission[r] # Limiter!Free
  BY DEF Limiter!Free
<1>3. admission[r] \notin [step : Limiter!Decisions]
  BY DEF Limiter!Decisions
<1> QED BY <1>1, <1>2, <1>3

LEMMA ChargeKeeps ==
    ASSUME Limiter!LimiterAssumption, LimiterInv, NEW r \in Slots, Limiter!Charge(r)
    PROVE  LimiterInv'
<1> DEFINE a == admission[r].address
           time == admission[r].now
<1>1. admission[r] \in AdmitCalls /\ a \in DOMAIN entries
  BY AdmittingCall DEF Limiter!Charge, LimiterInv
<1>2. time \in 0..MaxClock
  BY <1>1 DEF AdmitCalls
<1>3. IsTable(Limiter!Table)
  BY TableIsTable
<1>4. CASE Limiter!Decide(r, "allowed", [entries |-> [entries EXCEPT ![a] = [started |-> time, count |-> 1]],
                                 earliest |-> earliest, valid |-> FALSE])
  <2> DEFINE left == [entries |-> [entries EXCEPT ![a] = [started |-> time, count |-> 1]],
                       earliest |-> earliest, valid |-> FALSE]
  <2>1. DOMAIN left.entries = DOMAIN entries
    OBVIOUS
  <2>2. \A b \in DOMAIN left.entries : left.entries[b] \in Limiter!Windows
    BY <1>2 DEF LimiterInv, Limiter!TypeOK, Limiter!Windows, Limiter!LimiterAssumption
  <2>3. left.earliest \in 0..MaxClock + window /\ left.valid = FALSE /\ DOMAIN entries \subseteq Addresses
        /\ Cardinality(DOMAIN entries) <= capacity
    BY DEF LimiterInv, Limiter!TypeOK, WindowsAreBounded
  <2> HIDE DEF left
  <2>4. IsTable(left)
    BY <2>1, <2>2, <2>3 DEF IsTable
  <2> QED BY <1>4, <2>4, DecideKeeps DEF left, Limiter!Decisions
<1>5. CASE Limiter!Decide(r, "rate limited", Limiter!Table)
  BY <1>3, <1>5, DecideKeeps DEF Limiter!Decisions
<1>6. CASE entries[a].count < limit /\ Limiter!Decide(r, "allowed", [Limiter!Table EXCEPT !.entries[a].count = @ + 1])
  <2> DEFINE left == [Limiter!Table EXCEPT !.entries[a].count = @ + 1]
  <2>1. left.entries = [entries EXCEPT ![a].count = @ + 1] /\ left.earliest = earliest /\ left.valid = earliestValid
    BY DEF Limiter!Table
  <2>2. entries[a] \in Limiter!Windows
    BY <1>1 DEF LimiterInv, Limiter!TypeOK
  <2>3. /\ DOMAIN left.entries = DOMAIN entries
        /\ \A b \in DOMAIN entries : left.entries[b].started = entries[b].started
    BY <2>1, <2>2 DEF Limiter!Windows
  <2>4. \A b \in DOMAIN entries : left.entries[b] \in Limiter!Windows
    BY <1>6, <2>1, <2>2 DEF LimiterInv, Limiter!TypeOK, Limiter!Windows, Limiter!LimiterAssumption
  <2> HIDE DEF left
  <2>5. IsTable(left)
    BY <1>3, <2>1, <2>3, <2>4 DEF IsTable, Limiter!Table
  <2> QED BY <1>6, <2>5, DecideKeeps DEF left, Limiter!Decisions
<1> QED BY <1>4, <1>5, <1>6 DEF Limiter!Charge

LEMMA AdmitKeeps ==
    ASSUME Limiter!LimiterAssumption, LimiterInv, NEW r \in Slots, Limiter!Admit(r)
    PROVE  LimiterInv'
<1>1. admission[r] \in AdmitCalls /\ admission[r].address \notin DOMAIN entries
  BY AdmittingCall DEF Limiter!Admit, LimiterInv
<1>2. admission[r].now \in 0..MaxClock
  BY <1>1 DEF AdmitCalls
<1>3. IsTable(Limiter!Table) /\ DOMAIN Limiter!Table.entries = DOMAIN entries
  BY TableIsTable DEF Limiter!Table
<1>4. /\ IsTable(Limiter!reclaim(admission[r].now))
      /\ admission[r].address \notin DOMAIN Limiter!reclaim(admission[r].now).entries
  BY <1>1, <1>2, ReclaimedIsTable
<1>5. CASE Limiter!Insert(r, Limiter!Table)
  BY <1>1, <1>3, <1>5, InsertKeeps
<1>6. CASE Limiter!Insert(r, Limiter!reclaim(admission[r].now))
  BY <1>1, <1>4, <1>6, InsertKeeps
<1>7. CASE \/ Limiter!Decide(r, "capacity limited", Limiter!Table)
           \/ Limiter!Decide(r, "capacity limited", Limiter!reclaim(admission[r].now))
  BY <1>3, <1>4, <1>7, DecideKeeps DEF Limiter!Decisions
<1> QED BY <1>5, <1>6, <1>7 DEF Limiter!Admit

LEMMA LimiterStep ==
    ASSUME Limiter!LimiterAssumption, LimiterInv, [Limiter!Next]_(Limiter!vars)
    PROVE  LimiterInv'
<1>1. ASSUME NEW r \in Slots, NEW request \in Limiter!HttpRequests, Limiter!NewRequestAdmissionHandler(r, request)
      PROVE  LimiterInv'
  <2> DEFINE address == Limiter!admittedClientAddress(request)
             record == IF address = Limiter!Refused THEN [step |-> "bad request"]
                       ELSE [step |-> "admit", address |-> address, now |-> clock]
  <2>1. address # Limiter!Refused => address \in Addresses
    BY DEF Limiter!HttpRequests, Limiter!admittedClientAddress, Limiter!LimiterAssumption
  <2>2. [step |-> "bad request"] \in [step : Limiter!Decisions]
    BY DEF Limiter!Decisions
  <2>3. record \in CallRecords
    BY <2>1, <2>2 DEF CallRecords, AdmitCalls, LimiterInv, Limiter!TypeOK
  <2>4. admission' = [admission EXCEPT ![r] = record] /\ UNCHANGED <<clock, entries, earliest, earliestValid>>
    BY <1>1 DEF Limiter!NewRequestAdmissionHandler
  <2> HIDE DEF record
  <2>5. admission' \in [Slots -> CallRecords]
    BY <2>3, <2>4 DEF LimiterInv, Limiter!TypeOK, CallRecords, AdmitCalls
  <2> QED BY <2>4, <2>5
     DEF LimiterInv, Limiter!TypeOK, WindowsAreBounded, RememberedIsReal, Limiter!Expiry,
          CallRecords, AdmitCalls
<1>2. ASSUME Limiter!Tick PROVE LimiterInv'
  BY <1>2 DEF Limiter!Tick, LimiterInv, Limiter!TypeOK, WindowsAreBounded, RememberedIsReal,
       Limiter!Expiry, Limiter!LimiterAssumption
<1>3. ASSUME UNCHANGED Limiter!vars PROVE LimiterInv'
  BY <1>3 DEF Limiter!vars, LimiterInv, Limiter!TypeOK, WindowsAreBounded, RememberedIsReal,
       Limiter!Expiry
<1> QED BY <1>1, <1>2, <1>3, ChargeKeeps, AdmitKeeps DEF Limiter!Next

LEMMA LimiterInit ==
    ASSUME Limiter!LimiterAssumption, Limiter!Init
    PROVE  LimiterInv
<1>1. DOMAIN entries = {} /\ Cardinality({}) = 0
  BY FS_EmptySet DEF Limiter!Init
<1>2. Limiter!TypeOK
  <2>1. admission \in [Slots -> {Limiter!Free} \cup AdmitCalls \cup [step : Limiter!Decisions]]
    BY DEF Limiter!Init
  <2>2. clock \in 0..MaxClock /\ earliest \in 0..MaxClock + window
    <3>1. clock = 0 /\ earliest = 0
      BY DEF Limiter!Init
    <3>2. window \in Nat /\ MaxClock \in Nat
      BY Numbers
    <3> QED BY <3>1, <3>2
  <2>3. earliestValid \in BOOLEAN
    BY DEF Limiter!Init
  <2> QED BY <1>1, <2>1, <2>2, <2>3, Zenon DEF Limiter!TypeOK, AdmitCalls
<1>3. WindowsAreBounded
  BY <1>1 DEF WindowsAreBounded, Limiter!LimiterAssumption
<1> QED BY <1>2, <1>3 DEF Limiter!Init, LimiterInv, RememberedIsReal

LEMMA LimiterInvariantly ==
    ASSUME Limiter!LimiterAssumption
    PROVE  Limiter!Init /\ [][Limiter!Next]_(Limiter!vars) => []LimiterInv
<1>1. Limiter!Init => LimiterInv
  BY LimiterInit
<1>2. LimiterInv /\ [Limiter!Next]_(Limiter!vars) => LimiterInv'
  BY LimiterStep
<1> QED BY <1>1, <1>2, PTL

-----------------------------------------------------------------------------
(* What a step may do to the windows. *)

\* A request that is decided leaves every enforced window as it was, or with one
\* charge more.
LEMMA EnforcedWindowsStay ==
    ASSUME Limiter!LimiterAssumption, LimiterInv, [Limiter!Next]_(Limiter!vars),
           NEW r \in Slots, admission[r].step = "admit", admission'[r] # admission[r],
           NEW a \in DOMAIN entries, Limiter!Live(a, admission[r].now)
    PROVE  /\ a \in DOMAIN entries' /\ entries'[a].started = entries[a].started
           /\ entries'[a].count >= entries[a].count
<1> DEFINE time == admission[r].now
<1>1. Limiter!Charge(r) \/ Limiter!Admit(r)
  <2>1. ASSUME NEW s \in Slots, s # r, admission'[s] # admission[s], NEW x, admission' = [admission EXCEPT ![s] = x]
        PROVE  FALSE
    BY <2>1 DEF LimiterInv, Limiter!TypeOK
  <2>2. ASSUME NEW s \in Slots, NEW x, admission' = [admission EXCEPT ![s] = x] PROVE s = r
    BY <2>2 DEF LimiterInv, Limiter!TypeOK
  <2>3. ~UNCHANGED admission
    OBVIOUS
  <2>4. ASSUME NEW s \in Slots, NEW request \in Limiter!HttpRequests, Limiter!NewRequestAdmissionHandler(s, request)
        PROVE  FALSE
    BY <2>2, <2>4 DEF Limiter!NewRequestAdmissionHandler
  <2>5. ASSUME NEW s \in Slots, Limiter!Charge(s) \/ Limiter!Admit(s) PROVE s = r
    BY <2>2, <2>5 DEF Limiter!Charge, Limiter!Admit, Limiter!Insert, Limiter!InsertAnyway,
         Limiter!Decide
  <2> QED BY <2>3, <2>4, <2>5 DEF Limiter!Next, Limiter!Tick, Limiter!vars
<1>2. admission[r] \in AdmitCalls
  BY AdmittingCall DEF LimiterInv
<1>3. time \in 0..MaxClock
  BY <1>2 DEF AdmitCalls
<1>4. entries[a] \in Limiter!Windows /\ entries[a].count \in Nat
  BY DEF LimiterInv, Limiter!TypeOK, Limiter!Windows
<1>5. CASE UNCHANGED entries
  BY <1>4, <1>5
<1>6. ASSUME NEW left, a \in DOMAIN left.entries, left.entries[a] = entries[a],
             admission[r].address # a, Limiter!Insert(r, left)
      PROVE  a \in DOMAIN entries' /\ entries'[a] = entries[a]
  BY <1>6 DEF Limiter!Insert, Limiter!InsertAnyway, Limiter!Decide
<1>7. CASE Limiter!Admit(r)
  <2>1. admission[r].address # a
    BY <1>7 DEF Limiter!Admit
  <2>2. /\ a \in DOMAIN Limiter!reclaim(time).entries /\ Limiter!reclaim(time).entries[a] = entries[a]
    BY <1>3, ReclaimedIsTable
  <2>3. CASE Limiter!Insert(r, Limiter!Table)
    BY <1>4, <1>6, <2>1, <2>3 DEF Limiter!Table
  <2>4. CASE Limiter!Insert(r, Limiter!reclaim(time))
    BY <1>4, <1>6, <2>1, <2>2, <2>4
  <2>5. CASE Limiter!Decide(r, "capacity limited", Limiter!Table) \/ Limiter!Decide(r, "capacity limited", Limiter!reclaim(time))
    <3>1. entries' = entries \/ entries' = Limiter!reclaim(time).entries
      BY <2>5 DEF Limiter!Decide, Limiter!Table
    <3> QED BY <1>4, <2>2, <3>1
  <2> QED BY <1>7, <2>3, <2>4, <2>5 DEF Limiter!Admit
<1>8. CASE Limiter!Charge(r)
  <2> DEFINE b == admission[r].address
  <2>1. CASE ~Limiter!Live(b, time) /\ entries' = [entries EXCEPT ![b] = [started |-> time, count |-> 1]]
    BY <1>4, <2>1
  <2>2. CASE entries' = entries
    BY <1>5, <2>2
  <2>3. CASE entries' = [entries EXCEPT ![b].count = @ + 1]
    <3>1. CASE a = b
      <4>1. entries'[a] = [entries[a] EXCEPT !.count = @ + 1] /\ a \in DOMAIN entries'
        BY <2>3, <3>1
      <4> QED BY <1>4, <4>1 DEF Limiter!Windows
    <3>2. CASE a # b
      BY <1>4, <2>3, <3>2
    <3> QED BY <3>1, <3>2
  <2> QED BY <1>8, <2>1, <2>2, <2>3 DEF Limiter!Charge, Limiter!Decide, Limiter!Table
<1> QED BY <1>1, <1>7, <1>8

\* A time before what is remembered is before the end of a window.
LEMMA RememberedIsAhead ==
    ASSUME Limiter!LimiterAssumption, LimiterInv, NEW time \in 0..MaxClock, earliestValid, time < earliest
    PROVE  \E a \in DOMAIN entries : Limiter!Live(a, time)
<1>1. PICK a \in DOMAIN entries : earliest <= Limiter!Expiry(a)
  BY DEF LimiterInv, RememberedIsReal
<1>2. Limiter!Expiry(a) \in Nat
  BY WindowsAreFinite DEF LimiterInv
<1>3. earliest \in 0..MaxClock + window
  BY DEF LimiterInv, Limiter!TypeOK
<1>4. window \in Nat /\ MaxClock \in Nat
  BY Numbers
<1>5. time < Limiter!Expiry(a)
  BY <1>1, <1>2, <1>3, <1>4
<1> QED BY <1>5 DEF Limiter!Live

\* A full table has windows.
LEMMA FullIsNotEmpty ==
    ASSUME Limiter!LimiterAssumption, NEW S, Cardinality(S) >= capacity
    PROVE  S # {}
<1>1. Cardinality({}) = 0
  BY FS_EmptySet
<1>2. capacity \in Nat /\ capacity > 0
  BY Numbers
<1> QED BY <1>1, <1>2

\* A refusal for capacity leaves at least one window that is enforced.
LEMMA RefusalsHaveAReason ==
    ASSUME Limiter!LimiterAssumption, LimiterInv, [Limiter!Next]_(Limiter!vars),
           NEW r \in Slots, admission[r].step = "admit", admission'[r].step = "capacity limited"
    PROVE  \E a \in DOMAIN entries : Limiter!Live(a, admission[r].now)
<1> DEFINE time == admission[r].now
<1>2. admission[r] \in AdmitCalls
  BY AdmittingCall DEF LimiterInv
<1>3. time \in 0..MaxClock
  BY <1>2 DEF AdmitCalls
<1>4. ASSUME NEW s \in Slots, NEW x, admission' = [admission EXCEPT ![s] = x]
      PROVE  s = r /\ x.step = "capacity limited"
  <2>1. admission'[r] # admission[r]
    OBVIOUS
  <2>2. s = r
    BY <1>4, <2>1 DEF LimiterInv, Limiter!TypeOK
  <2> QED BY <1>4, <2>2 DEF LimiterInv, Limiter!TypeOK
<1>5. ASSUME NEW s \in Slots, NEW request \in Limiter!HttpRequests, Limiter!NewRequestAdmissionHandler(s, request)
      PROVE  FALSE
  BY <1>4, <1>5 DEF Limiter!NewRequestAdmissionHandler
<1>6. ASSUME NEW s \in Slots, NEW decision, NEW left, Limiter!Decide(s, decision, left)
      PROVE  s = r /\ decision = "capacity limited"
  BY <1>4, <1>6 DEF Limiter!Decide
<1>7. ASSUME NEW s \in Slots, Limiter!Charge(s) PROVE FALSE
  <2>1. \E d \in {"allowed", "rate limited"} : \E left : Limiter!Decide(s, d, left)
    BY <1>7, Zenon DEF Limiter!Charge
  <2> QED BY <1>6, <2>1
<1>8. ASSUME NEW s \in Slots, NEW left, Limiter!Insert(s, left) PROVE FALSE
  <2>1. Limiter!InsertAnyway(s, left)
    BY <1>8 DEF Limiter!Insert
  <2>2. \E d \in {"allowed"} : \E x : Limiter!Decide(s, d, x)
    BY <2>1, Zenon DEF Limiter!InsertAnyway
  <2> QED BY <1>6, <2>2
<1>9. ~UNCHANGED admission
  OBVIOUS
<1>10. PICK s \in Slots : Limiter!Admit(s)
  BY <1>5, <1>7, <1>9 DEF Limiter!Next, Limiter!Tick, Limiter!vars
<1>11. CASE earliestValid /\ admission[s].now < earliest /\ Limiter!Decide(s, "capacity limited", Limiter!Table)
  <2>1. s = r
    BY <1>6, <1>11
  <2> QED BY <1>3, <1>11, <2>1, RememberedIsAhead
<1>12. CASE Limiter!Full(Limiter!reclaim(admission[s].now)) /\ Limiter!Decide(s, "capacity limited", Limiter!reclaim(admission[s].now))
  <2>1. s = r
    BY <1>6, <1>12
  <2>2. Cardinality(DOMAIN Limiter!reclaim(time).entries) >= capacity
    BY <1>12, <2>1, CountsOfTables
  <2>3. DOMAIN Limiter!reclaim(time).entries # {}
    BY <2>2, FullIsNotEmpty
  <2> QED BY <1>3, <2>3, ReclaimedIsTable
<1> QED BY <1>8, <1>10, <1>11, <1>12 DEF Limiter!Admit

\* However many addresses come, in whatever order their requests get the mutex,
\* the table stays within its capacity, and a request takes away no window that
\* is still enforced.
THEOREM LimiterHoldsAlone ==
    ASSUME Limiter!LimiterAssumption
    PROVE  Limiter!Init /\ [][Limiter!Next]_(Limiter!vars) => []Limiter!CapacityHolds /\ Limiter!NoEnforcedWindowIsLost
<1>1. LimiterInv => Limiter!CapacityHolds
  BY CountsOfTables DEF LimiterInv
<1>2. LimiterInv /\ [Limiter!Next]_(Limiter!vars) =>
        [\A r \in Slots : admission[r].step = "admit" /\ admission'[r] # admission[r] =>
           \A a \in DOMAIN entries : Limiter!Live(a, admission[r].now) =>
               /\ a \in DOMAIN entries' /\ entries'[a].started = entries[a].started
               /\ entries'[a].count >= entries[a].count]_(Limiter!vars)
  BY EnforcedWindowsStay
<1> QED BY <1>1, <1>2, LimiterInvariantly, PTL DEF Limiter!NoEnforcedWindowIsLost

\* A request is refused for capacity only while some window is enforced.
THEOREM RefusalsEndAlone ==
    ASSUME Limiter!LimiterAssumption
    PROVE  Limiter!Init /\ [][Limiter!Next]_(Limiter!vars) => Limiter!CapacityRefusalsEnd
<1>1. LimiterInv /\ [Limiter!Next]_(Limiter!vars) =>
        [\A r \in Slots : admission[r].step = "admit" /\ admission'[r].step = "capacity limited" =>
           \E a \in DOMAIN entries : Limiter!Live(a, admission[r].now)]_(Limiter!vars)
  BY RefusalsHaveAReason
<1> QED BY <1>1, LimiterInvariantly, PTL DEF Limiter!CapacityRefusalsEnd

-----------------------------------------------------------------------------
(* The parts side by side.  In a behaviour of PartSpec each module sees its  *)
(* own steps and stutters at those of the others, so that what is proved     *)
(* about the module alone holds.                                             *)

LEMMA PartsAreTheirOwn ==
    PartSpec => /\ Init /\ [][Next]_vars
                /\ Schema!Init /\ [][Schema!Next]_(Schema!vars)
                /\ Limiter!Init /\ [][Limiter!Next]_(Limiter!vars)
                /\ Release!Init /\ [][Release!Next]_releaseVars
<1>1. PartInit => Init /\ Schema!Init /\ Limiter!Init /\ Release!Init
  BY DEF PartInit
<1>2. [PartNext]_partVars => [Next]_vars
  BY DEF PartNext, partVars
<1>3. [PartNext]_partVars => [Schema!Next]_(Schema!vars)
  BY DEF PartNext, partVars, schemaVars, Schema!vars
<1>4. [PartNext]_partVars => [Limiter!Next]_(Limiter!vars)
  BY DEF PartNext, partVars, limiterVars, Limiter!vars
<1>5. [PartNext]_partVars => [Release!Next]_releaseVars
  BY DEF PartNext, partVars
<1> QED
  BY <1>1, <1>2, <1>3, <1>4, <1>5, PTL DEF PartSpec

LEMMA PartsHaveParameters ==
    Parameters /\ SchemaParameters /\ Limiter!LimiterAssumption /\ Release!ReleaseAssumption
  BY PartsAssumption DEF PartsAssumption, Parameters, SchemaParameters, Release!ReleaseAssumption

\* In the behaviours of the operations each module's state is what its types say.
THEOREM PartTypeOKAlways == PartSpec => []PartTypeOK
<1>1. Init /\ [][Next]_vars => []TypeOK
  BY PartsHaveParameters, ControlPlaneTypes
<1>2. Schema!Init /\ [][Schema!Next]_(Schema!vars) => []Schema!TypeOK
  BY PartsHaveParameters, SchemaMigrationTypes
<1>3. Limiter!Init /\ [][Limiter!Next]_(Limiter!vars) => []Limiter!TypeOK
  <2>1. LimiterInv => Limiter!TypeOK
    BY DEF LimiterInv
  <2>2. Limiter!Init /\ [][Limiter!Next]_(Limiter!vars) => []LimiterInv
    BY PartsHaveParameters, LimiterInvariantly
  <2> QED BY <2>1, <2>2, PTL
<1>4. Release!Init /\ [][Release!Next]_releaseVars => []Release!TypeOK
  BY PartsHaveParameters, ReleaseCommandTypes
<1>5. TypeOK /\ Schema!TypeOK /\ Limiter!TypeOK /\ Release!TypeOK => PartTypeOK
  BY DEF PartTypeOK
<1> QED BY <1>1, <1>2, <1>3, <1>4, <1>5, PartsAreTheirOwn, PTL

\* However often a release is run, fails or is killed, and whatever commits were
\* unknown: the new board serves converted rows only, progress counts each row
\* once, and no conversion meets a post that the preflight let through and it
\* has to refuse.
THEOREM ReleaseIsConvertedAlways == PartSpec => []ReleaseIsConverted
<1> DEFINE Converted == Release!ServedReleaseIsConverted /\ Release!ProgressIsTrue /\ Release!PreflightSuffices
<1>1. Release!Init /\ [][Release!Next]_releaseVars => []Converted
  BY PartsHaveParameters, ReleaseIsConvertedAlone
<1>2. Converted => ReleaseIsConverted
  BY DEF ReleaseIsConverted
<1> HIDE DEF Converted
<1> QED BY <1>1, <1>2, PartsAreTheirOwn, PTL

\* The two conversions of a release implement the abstract one: rows leave what
\* waits and do not come back, and nothing waits when it is called finished.
THEOREM ConversionsRefineAlways == PartSpec => ConversionsRefine
<1>1. /\ Release!Init /\ [][Release!Next]_releaseVars
      => Release!RerenderIsAConversion /\ Release!ProjectionIsAConversion
  BY PartsHaveParameters, ConversionsRefineAlone
<1> QED BY <1>1, PartsAreTheirOwn, PTL DEF ConversionsRefine

\* In the behaviours of the operations every file took effect once and in order,
\* and a report of success is about the release of the ledger.
THEOREM SchemaIsItsLedgerAlways == PartSpec => []SchemaIsItsLedger
<1>1. Schema!Init /\ [][Schema!Next]_(Schema!vars) => []Schema!SchemaIsItsLedger
  BY PartsHaveParameters, SchemaIsItsLedgerAlone
<1>2. Schema!SchemaIsItsLedger => SchemaIsItsLedger
  BY DEF SchemaIsItsLedger
<1> QED BY <1>1, <1>2, PartsAreTheirOwn, PTL

\* The windows of the limiter stay within its capacity, and no request evicts or
\* eases one that is still enforced.
THEOREM LimiterHoldsAlways == PartSpec => LimiterHolds
<1>1. /\ Limiter!Init /\ [][Limiter!Next]_(Limiter!vars)
      => []Limiter!CapacityHolds /\ Limiter!NoEnforcedWindowIsLost
  BY PartsHaveParameters, LimiterHoldsAlone
<1> QED BY <1>1, PartsAreTheirOwn, PTL DEF LimiterHolds
=============================================================================
