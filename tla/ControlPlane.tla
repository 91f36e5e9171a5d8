----------------------------- MODULE ControlPlane -----------------------------
(***************************************************************************)
(* The settings that administrators change while the board runs: control   *)
(* and site settings, two forms on one row with one revision, and the mail *)
(* transport, whose settings the board and Authentik both use.  The board  *)
(* hands new transport settings to Authentik while it holds its rows and   *)
(* commits afterwards; a test message, sent between two transactions,      *)
(* verifies the revision it was made for; registration may be opened only  *)
(* when the transport is verified.                                         *)
(***************************************************************************)
EXTENDS Naturals, FiniteSets

CONSTANTS
    Administrators,
    Calls,           \* slots for the requests of administrators
    Transports, Disabled, \* settings of the mail transport
    Shells,          \* names, themes and rules of the site
    Period,          \* between two tests of one administrator (five minutes)
    MaxRevision, MaxTime, MaxTests, MaxInterrupts  \* bounds

VARIABLES
    authorized,   \* administrators who still are, accepted and in good standing
    site,         \* the row of site_settings
    smtp,         \* the row of smtp_settings
    test,         \* rows of email_test_state
    remote,       \* the email stage of Authentik
    call,         \* what each request is doing
    accepted,     \* history: revisions with which a test was accepted
    now, tests, interrupts  \* consumed parts of the bounds

vars == <<authorized, site, smtp, test, remote, call, accepted, now, tests, interrupts>>
bounds == <<now, tests, interrupts>>

Modes == {"closed", "open"}  \* open: any mode that mails or verifies addresses
Unverified == 0

SiteRows == [registration : Modes, maintenance : BOOLEAN, shell : Shells, revision : 1..MaxRevision]
SmtpRows == [transport : Transports \cup {Disabled}, revision : 1..MaxRevision,
             verified : 0..MaxRevision]
TestRows == [status : {"none", "requested", "accepted", "failed", "unknown"}, key : 0..MaxTests,
             revision : 0..MaxRevision, next_allowed_at : 0..MaxTime + Period]
Controls == [registration : Modes, maintenance : BOOLEAN]

Free == [kind |-> "free"]
FormCalls(kinds, wishes) ==
    [kind : kinds, step : {"form", "ready"}, actor : Administrators, seen : SiteRows, wish : wishes]
SmtpCalls ==
    [kind : {"smtp"}, step : {"form", "configure", "save"}, actor : Administrators,
     expected : 1..MaxRevision, wish : Transports]
TestCalls ==
    [kind : {"test"}, step : {"begin", "reserve", "load", "send", "complete"}, actor : Administrators,
     revision : 0..MaxRevision, key : 0..MaxTests, status : {"unknown", "failed", "accepted"},
     requestedAt : 0..MaxTime, connected : BOOLEAN]

TypeOK ==
    /\ authorized \subseteq Administrators
    /\ site \in SiteRows /\ smtp \in SmtpRows
    /\ test \in [Administrators -> TestRows]
    /\ remote \in Transports \cup {Disabled}
    /\ call \in [Calls -> {Free} \cup FormCalls({"control"}, Controls)
                            \cup FormCalls({"site"}, Shells) \cup SmtpCalls \cup TestCalls]
    /\ accepted \subseteq 1..MaxRevision
    /\ now \in 0..MaxTime /\ tests \in 0..MaxTests /\ interrupts \in 0..MaxInterrupts

Init ==
    /\ authorized = Administrators
    /\ \E s \in Shells :
         site = [registration |-> "closed", maintenance |-> FALSE, shell |-> s, revision |-> 1]
    /\ smtp = [transport |-> Disabled, revision |-> 1, verified |-> Unverified]
    /\ test = [a \in Administrators |-> [status |-> "none", key |-> 0, revision |-> 0, next_allowed_at |-> 0]]
    /\ remote = Disabled
    /\ call = [c \in Calls |-> Free]
    /\ accepted = {} /\ now = 0 /\ tests = 0 /\ interrupts = 0

-----------------------------------------------------------------------------
(* Locks: only a change of the transport holds rows for several steps, its *)
(* actor's, the site's and the transport's.                                *)

Holds(c) == call[c].kind = "smtp" /\ call[c].step \in {"configure", "save"}
RowsFree == \A c \in Calls : ~Holds(c)

LockControlSettingsAdministrator(a) == a \in authorized
LockRuntimeControlSettings == RowsFree
LockSiteSettings == RowsFree
LockRuntimeSMTPSettings == RowsFree

Ends(c) == call' = [call EXCEPT ![c] = Free]

SMTPReady == smtp.transport # Disabled /\ smtp.verified = smtp.revision

\* What the process reports of its settings.
Ready == site.registration # "closed" => SMTPReady

-----------------------------------------------------------------------------
(* The two forms of the site's row. *)

\* The rows that the pages of an administrator show, none for anyone else.
LoadEditableControlSettings(a) == {row \in {site} : a \in authorized}
LoadEditableSiteSettings(a) == {row \in {site} : a \in authorized}
LoadEditableSMTPSettings(a) == {row \in {smtp} : a \in authorized}

\* The page and what is filled in.
LoadEditable(c, a, wish) ==
    /\ call[c] = Free
    /\ \E row \in LoadEditableControlSettings(a) :
         call' = [call EXCEPT ![c] = [kind |-> "control", step |-> "form", actor |-> a, seen |-> row, wish |-> wish]]
    /\ UNCHANGED <<authorized, site, smtp, test, remote, accepted, bounds>>

LoadEditableSite(c, a, wish) ==
    /\ call[c] = Free
    /\ \E row \in LoadEditableSiteSettings(a) :
         call' = [call EXCEPT ![c] = [kind |-> "site", step |-> "ready", actor |-> a, seen |-> row, wish |-> wish]]
    /\ UNCHANGED <<authorized, site, smtp, test, remote, accepted, bounds>>

\* The handler looks at the transport before the service does.
CheckReadiness(c) ==
    /\ call[c].kind = "control" /\ call[c].step = "form"
    /\ call' = [call EXCEPT ![c] = IF call[c].wish.registration = "closed" \/ SMTPReady
                                     THEN [call[c] EXCEPT !.step = "ready"] ELSE Free]
    /\ UNCHANGED <<authorized, site, smtp, test, remote, accepted, bounds>>

Current(c) == site.revision = call[c].seen.revision /\ site.revision < MaxRevision

sameSettings(c) == [registration |-> site.registration, maintenance |-> site.maintenance] = call[c].wish

MayUpdateControl(c) ==
    /\ LockControlSettingsAdministrator(call[c].actor)
    /\ ~sameSettings(c)
    /\ call[c].wish.registration # "closed" => SMTPReady

UpdateControlSettingsAndAudit(c) ==
    site' = [site EXCEPT !.registration = call[c].wish.registration,
                         !.maintenance = call[c].wish.maintenance, !.revision = @ + 1]

\* Mutation of Update: the revision of the page is not compared.
UpdateStale(c) ==
    /\ call[c].kind = "control" /\ call[c].step = "ready" /\ LockRuntimeControlSettings
    /\ IF MayUpdateControl(c) /\ site.revision < MaxRevision
         THEN UpdateControlSettingsAndAudit(c) ELSE UNCHANGED site
    /\ Ends(c)
    /\ UNCHANGED <<authorized, smtp, test, remote, accepted, bounds>>

\* Mutation of Update: the handler's look at the transport is enough.
UpdateUnverified(c) ==
    /\ call[c].kind = "control" /\ call[c].step = "ready" /\ LockRuntimeControlSettings
    /\ IF Current(c) /\ LockControlSettingsAdministrator(call[c].actor) /\ ~sameSettings(c)
         THEN UpdateControlSettingsAndAudit(c) ELSE UNCHANGED site
    /\ Ends(c)
    /\ UNCHANGED <<authorized, smtp, test, remote, accepted, bounds>>

Update(c) ==
    /\ call[c].kind = "control" /\ call[c].step = "ready" /\ LockRuntimeControlSettings
    /\ IF Current(c) /\ MayUpdateControl(c) THEN UpdateControlSettingsAndAudit(c) ELSE UNCHANGED site
    /\ Ends(c)
    /\ UNCHANGED <<authorized, smtp, test, remote, accepted, bounds>>

UpdateSiteSettingsAndAudit(c) == site' = [site EXCEPT !.shell = call[c].wish, !.revision = @ + 1]

UpdateSettings(c) ==
    /\ call[c].kind = "site" /\ LockSiteSettings
    /\ IF Current(c) /\ call[c].actor \in authorized /\ site.shell # call[c].wish
         THEN UpdateSiteSettingsAndAudit(c) ELSE UNCHANGED site
    /\ Ends(c)
    /\ UNCHANGED <<authorized, smtp, test, remote, accepted, bounds>>

-----------------------------------------------------------------------------
(* The transport: lock, hand to Authentik, save. *)

LoadSMTPSettings(c, a, wish) ==
    /\ call[c] = Free
    /\ \E row \in LoadEditableSMTPSettings(a) :
         call' = [call EXCEPT ![c] = [kind |-> "smtp", step |-> "form", actor |-> a,
                                      expected |-> row.revision, wish |-> wish]]
    /\ UNCHANGED <<authorized, site, smtp, test, remote, accepted, bounds>>

MayUpdateTransport(c) ==
    /\ LockControlSettingsAdministrator(call[c].actor)
    /\ site.registration = "closed"
    /\ smtp.revision = call[c].expected /\ smtp.revision < MaxRevision
    /\ smtp.transport # call[c].wish

UpdateSMTPSettings(c) ==
    /\ call[c].kind = "smtp" /\ call[c].step = "form"
    /\ LockRuntimeControlSettings /\ LockRuntimeSMTPSettings
    /\ call' = [call EXCEPT ![c] = IF MayUpdateTransport(c) THEN [call[c] EXCEPT !.step = "configure"] ELSE Free]
    /\ UNCHANGED <<authorized, site, smtp, test, remote, accepted, bounds>>

\* The call succeeds, or it fails before or after it took effect.
ConfigureEmail(c) ==
    /\ call[c].kind = "smtp" /\ call[c].step = "configure"
    /\ \/ remote' = call[c].wish /\ call' = [call EXCEPT ![c].step = "save"] /\ UNCHANGED interrupts
       \/ /\ interrupts < MaxInterrupts /\ interrupts' = interrupts + 1
          /\ remote' \in {remote, call[c].wish} /\ Ends(c)
    /\ UNCHANGED <<authorized, site, smtp, test, accepted, now, tests>>

\* What was verified was the transport before.
UpdateSMTPSettingsAndAudit(wish) ==
    smtp' = [transport |-> wish, revision |-> smtp.revision + 1, verified |-> Unverified]

SaveTransport(c) ==
    /\ call[c].kind = "smtp" /\ call[c].step = "save"
    /\ UpdateSMTPSettingsAndAudit(call[c].wish)
    /\ Ends(c)
    /\ UNCHANGED <<authorized, site, test, remote, accepted, bounds>>

-----------------------------------------------------------------------------
(* The test message. *)

\* The mailer is made anew from the row for every message.
LoadRuntimeSMTPSettings == {row \in {smtp} : row.transport # Disabled}

StartTest(c, a) ==
    /\ call[c] = Free /\ a \in authorized
    /\ call' = [call EXCEPT ![c] = [kind |-> "test", step |-> "begin", actor |-> a, revision |-> 0, key |-> 0,
                                    status |-> "unknown", requestedAt |-> now, connected |-> TRUE]]
    /\ UNCHANGED <<authorized, site, smtp, test, remote, accepted, bounds>>

SMTPRevision(c) ==
    /\ call[c].kind = "test" /\ call[c].step = "begin"
    /\ call' = [call EXCEPT ![c] = IF LoadRuntimeSMTPSettings = {} THEN Free
                                   ELSE [call[c] EXCEPT !.step = "reserve", !.revision = smtp.revision]]
    /\ UNCHANGED <<authorized, site, smtp, test, remote, accepted, bounds>>

LockEmailTestAdministrator(c) ==
    /\ call[c].actor \in authorized
    /\ \A d \in Calls : Holds(d) => call[d].actor # call[c].actor

\* A row is taken over when its time has come.
ReserveEmailTestAndAudit(a, key, revision, at) ==
    /\ test[a].next_allowed_at <= at
    /\ test' = [test EXCEPT ![a] = [status |-> "requested", key |-> key, revision |-> revision,
                                    next_allowed_at |-> at + Period]]

\* The first transaction of a test, with a fresh key.
ReserveTest(c) ==
    /\ call[c].kind = "test" /\ call[c].step = "reserve" /\ call[c].connected /\ tests < MaxTests
    /\ LockEmailTestAdministrator(c)
    /\ ReserveEmailTestAndAudit(call[c].actor, tests + 1, call[c].revision, call[c].requestedAt)
    /\ tests' = tests + 1
    /\ call' = [call EXCEPT ![c].step = "load", ![c].key = tests + 1]
    /\ UNCHANGED <<authorized, site, smtp, remote, accepted, now, interrupts>>

RefuseTest(c) ==
    /\ call[c].kind = "test" /\ call[c].step = "reserve"
    /\ \/ call[c].actor \notin authorized \/ ~call[c].connected \/ tests = MaxTests
       \/ test[call[c].actor].next_allowed_at > call[c].requestedAt
    /\ Ends(c)
    /\ UNCHANGED <<authorized, site, smtp, test, remote, accepted, bounds>>

\* The mailer of this moment, if it is still the one of the reservation.
LoadMailer(c) ==
    /\ call[c].kind = "test" /\ call[c].step = "load"
    /\ call' = [call EXCEPT ![c] =
         IF call[c].connected /\ \E row \in LoadRuntimeSMTPSettings : row.revision = call[c].revision
           THEN [call[c] EXCEPT !.step = "send"]
         ELSE [call[c] EXCEPT !.step = "complete", !.status = "failed"]]
    /\ UNCHANGED <<authorized, site, smtp, test, remote, accepted, bounds>>

\* The server takes the message and says so, does not, or its answer is lost.
SendTest(c) ==
    /\ call[c].kind = "test" /\ call[c].step = "send"
    /\ \E status \in {"accepted", "failed", "unknown"} :
         /\ status = "accepted" => call[c].connected
         /\ call' = [call EXCEPT ![c].step = "complete", ![c].status = status]
         /\ accepted' = IF status = "accepted" THEN accepted \cup {call[c].revision} ELSE accepted
    /\ UNCHANGED <<authorized, site, smtp, test, remote, bounds>>

\* Mutation of the statement: any reservation of the administrator.
CompleteAny(a, key, status) == test' = [test EXCEPT ![a].status = status] /\ UNCHANGED smtp

\* Mutation of the statement: whatever revision there is now is verified.
CompleteForCurrent(a, key, status) ==
    IF test[a].status = "requested" /\ test[a].key = key
      THEN /\ test' = [test EXCEPT ![a].status = status]
           /\ smtp' = IF status = "accepted" THEN [smtp EXCEPT !.verified = smtp.revision] ELSE smtp
      ELSE UNCHANGED <<test, smtp>>

\* The outcome of a reservation that still waits for it, and with a message
\* accepted the revision it was sent with, if it is still the current one.
CompleteEmailTestAndAudit(a, key, status) ==
    IF test[a].status = "requested" /\ test[a].key = key
      THEN /\ test' = [test EXCEPT ![a].status = status]
           /\ smtp' = IF status = "accepted" /\ test[a].revision = smtp.revision /\ smtp.transport # Disabled
                        THEN [smtp EXCEPT !.verified = smtp.revision] ELSE smtp
      ELSE UNCHANGED <<test, smtp>>

\* Mutation of the second transaction: it uses the request's own context.
CompleteWhileConnected(c) ==
    /\ call[c].kind = "test" /\ call[c].step = "complete"
    /\ call[c].status = "accepted" => RowsFree
    /\ IF call[c].connected THEN CompleteEmailTestAndAudit(call[c].actor, call[c].key, call[c].status)
       ELSE UNCHANGED <<test, smtp>>
    /\ Ends(c)
    /\ UNCHANGED <<authorized, site, remote, accepted, bounds>>

\* The second transaction of a test; only to verify does it take the transport's row.
CompleteTest(c) ==
    /\ call[c].kind = "test" /\ call[c].step = "complete"
    /\ call[c].status = "accepted" => RowsFree
    /\ CompleteEmailTestAndAudit(call[c].actor, call[c].key, call[c].status)
    /\ Ends(c)
    /\ UNCHANGED <<authorized, site, remote, accepted, bounds>>

-----------------------------------------------------------------------------
(* What else happens. *)

\* The browser goes away: the context of the request is cancelled.
Disconnect(c) ==
    /\ call[c].kind = "test" /\ call[c].connected
    /\ call' = [call EXCEPT ![c].connected = FALSE]
    /\ UNCHANGED <<authorized, site, smtp, test, remote, accepted, bounds>>

\* A crash, or a transaction that is rolled back at its commit.
Interrupt(c) ==
    /\ call[c] # Free /\ interrupts < MaxInterrupts
    /\ interrupts' = interrupts + 1 /\ Ends(c)
    /\ UNCHANGED <<authorized, site, smtp, test, remote, accepted, now, tests>>

\* A demotion, a suspension or a mute, which takes the account's row.
LoseAuthority(a) ==
    /\ a \in authorized /\ \A c \in Calls : Holds(c) => call[c].actor # a
    /\ authorized' = authorized \ {a}
    /\ UNCHANGED <<site, smtp, test, remote, call, accepted, bounds>>

Tick ==
    /\ now < MaxTime /\ now' = now + 1
    /\ UNCHANGED <<authorized, site, smtp, test, remote, call, accepted, tests, interrupts>>

CallStep(c) ==
    \/ CheckReadiness(c) \/ Update(c) \/ UpdateSettings(c)
    \/ UpdateSMTPSettings(c) \/ ConfigureEmail(c) \/ SaveTransport(c)
    \/ SMTPRevision(c) \/ ReserveTest(c) \/ RefuseTest(c) \/ LoadMailer(c)
    \/ SendTest(c) \/ CompleteTest(c)

Next ==
    \/ \E c \in Calls :
         \/ CallStep(c) \/ Disconnect(c) \/ Interrupt(c)
         \/ \E a \in Administrators :
              \/ \E wish \in Controls : LoadEditable(c, a, wish)
              \/ \E wish \in Shells : LoadEditableSite(c, a, wish)
              \/ \E wish \in Transports : LoadSMTPSettings(c, a, wish)
              \/ StartTest(c, a)
    \/ \E a \in Administrators : LoseAuthority(a)
    \/ Tick

\* A handler that is not interrupted goes on.
Fairness == \A c \in Calls : WF_vars(CallStep(c))

Spec == Init /\ [][Next]_vars /\ Fairness

-----------------------------------------------------------------------------
(* Properties. *)

\* Registration is open only on a transport whose current revision is
\* verified, in whatever order the two forms and the test are committed.
OpenNeedsVerified == Ready

\* A revision is called verified only if a test sent with it was accepted.
VerifiedWasAccepted == smtp.verified # Unverified => smtp.verified \in accepted

\* Both: registration opens on what a test has shown to work.
MailIsVerified == OpenNeedsVerified /\ VerifiedWasAccepted

\* A form changes the row only if it is the row its page showed, for an
\* administrator who still is one; the two forms count as one.
FormsAreFresh ==
    [][site' # site =>
         \E c \in Calls : call[c].kind \in {"control", "site"} /\ call[c].seen = site
                          /\ call[c].actor \in authorized]_vars

\* The outcome of a test is recorded once, by the call that reserved it.
OutcomeIsOfItsTest ==
    [][\A a \in Administrators : test'[a].status # test[a].status /\ test'[a].status # "requested" =>
         /\ test[a].status = "requested"
         /\ \E c \in Calls : call[c].kind = "test" /\ call[c].key = test[a].key /\ call[c].actor = a]_vars

\* Both: what is committed is about what was read or reserved.
SettingsAreCurrent == FormsAreFresh /\ OutcomeIsOfItsTest

\* A reserved test is not left requested because the browser went away.
ReservedTestEnds ==
    \A a \in Administrators :
      (test[a].status = "requested" /\ interrupts = 0) ~> (test[a].status # "requested" \/ interrupts > 0)

\* What the documents say of opening registration: it needs a transport that is
\* applied, in Authentik as in the board.
OpenNeedsApplied == site.registration # "closed" => remote = smtp.transport

=============================================================================
