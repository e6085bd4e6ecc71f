-------------------------------- MODULE Inbox --------------------------------
(***************************************************************************)
(* The notifications of notification-service: the events that make them,   *)
(* the template that words them, the preferences that suppress them, and   *)
(* their marks as read.  Events come from Kafka, where they may come more  *)
(* than once, and from the REST endpoint.                                  *)
(*                                                                         *)
(* An event is handled in one transaction, which looks at each recipient   *)
(* with queries of its own; what it writes is visible when it commits.     *)
(* All events are of one type; another type has a template and             *)
(* preferences of its own.                                                 *)
(***************************************************************************)
EXTENDS Naturals, Sequences, FiniteSets

CONSTANTS
    Recipient,     \* profiles
    Notice,        \* identifiers of the events that notify somebody
    Handler,       \* consumers and requests that handle an event
    Opener,        \* requests about a notification or the template
    MaxHandlings,  \* bound on how often an event is handled
    MaxEdits       \* bound on the changes of the template, preferences and marks

ASSUME InboxAssumption == {MaxHandlings, MaxEdits} \subseteq Nat /\ IsFiniteSet(Recipient)

VARIABLES
    audience,     \* the recipients named by the payload of each event
    template,     \* the row of the event type for in-app notifications
    preference,   \* whether a recipient wants them on a channel
    inbox,        \* the rows of notifications, in the order of their commits
    announced,    \* events for which NotificationEventProcessed was sent
    handler,      \* what each handler is doing
    opener,       \* what each request is doing
    handlings, edits,
    overlapped,   \* history: events handled by two handlers at a time
    wanted,       \* history: <<event, recipient>> with the preference on ...
    declined      \* history: ... or off at a moment of handling the event

inboxRows == <<audience, template, preference, inbox, announced>>
inboxHistory == <<overlapped, wanted, declined>>
inboxVars == <<inboxRows, handler, opener, handlings, edits, inboxHistory>>

Channel == {"in_app", "email"}
Wording == {"default", "custom"}
Template == [active : BOOLEAN, wording : Wording]
NoTemplate == [active |-> FALSE, wording |-> "none"]

Default == [active |-> TRUE, wording |-> "default"]

Notification == [to : Recipient, notice : Notice, read : BOOLEAN]

NoWork == [pc |-> "idle"]

HandlerState ==
    {NoWork}
    \cup [pc : {"find", "prefer", "announce"}, notice : Notice, rest : BOOLEAN,
          todo : SUBSET Recipient, to : Recipient \cup {"nobody"},
          found : SUBSET Recipient, made : SUBSET Recipient,
          restores : BOOLEAN, seen : Template \cup {NoTemplate}]

OpenerState ==
    {NoWork}
    \cup [pc : {"note"}, note : Nat \ {0}, seen : BOOLEAN, mark : BOOLEAN]
    \cup [pc : {"template"}, copy : Template]

InboxTypeOK ==
    /\ audience \in [Notice -> SUBSET Recipient]
    /\ template \in Template \cup {NoTemplate}
    /\ preference \in [Recipient \X Channel -> BOOLEAN]
    /\ inbox \in Seq(Notification)
    /\ announced \subseteq Notice
    /\ handler \in [Handler -> HandlerState]
    /\ opener \in [Opener -> OpenerState]
    /\ {handlings, edits} \subseteq Nat
    /\ overlapped \subseteq Notice
    /\ wanted \subseteq Notice \X Recipient /\ declined \subseteq Notice \X Recipient

InboxInit ==
    /\ audience \in [Notice -> SUBSET Recipient]
    /\ template = NoTemplate
    /\ preference = [rc \in Recipient \X Channel |-> TRUE]
    /\ inbox = <<>> /\ announced = {}
    /\ handler = [h \in Handler |-> NoWork]
    /\ opener = [r \in Opener |-> NoWork]
    /\ handlings = 0 /\ edits = 0
    /\ overlapped = {} /\ wanted = {} /\ declined = {}

Rest(h) == handler' = [handler EXCEPT ![h] = NoWork]

CloseRequest(r) == opener' = [opener EXCEPT ![r] = NoWork]

-----------------------------------------------------------------------------
(* ingest_notification_event *)

\* preference_enabled, of in-app notifications: without a row they are on.
Enabled(p) == preference[<<p, "in_app">>]

Note(n) ==
    /\ wanted' = wanted \cup {<<n, p>> : p \in {q \in audience[n] : preference'[<<q, "in_app">>]}}
    /\ declined' = declined \cup {<<n, p>> : p \in {q \in audience[n] : ~preference'[<<q, "in_app">>]}}

\* The event arrives.  One whose payload names no recipient raises.
BeginNotice(h, n, rest) ==
    /\ handler[h] = NoWork
    /\ handlings < MaxHandlings
    /\ audience[n] # {}
    /\ handlings' = handlings + 1
    /\ handler' = [handler EXCEPT ![h] =
          [pc |-> "find", notice |-> n, rest |-> rest, todo |-> audience[n], to |-> "nobody",
           found |-> {}, made |-> {}, restores |-> FALSE, seen |-> NoTemplate]]
    /\ overlapped' = IF \E g \in Handler : handler[g] # NoWork /\ handler[g].notice = n
                     THEN overlapped \cup {n} ELSE overlapped
    /\ UNCHANGED <<inboxRows, opener, edits>>
    /\ Note(n)

\* find_existing_notification
Existing(n, p) == {i \in DOMAIN inbox : inbox[i].notice = n /\ inbox[i].to = p}

\* The next recipient: whoever has the notification already is a duplicate.
FindRecipient(h, p) ==
    LET w == handler[h] IN
    /\ w.pc = "find" /\ p \in w.todo
    /\ handler' = [handler EXCEPT ![h] =
          IF Existing(w.notice, p) # {}
          THEN [w EXCEPT !.todo = @ \ {p}, !.found = @ \cup {p}]
          ELSE [w EXCEPT !.pc = "prefer", !.to = p]]
    /\ UNCHANGED <<inboxRows, opener, handlings, edits, inboxHistory>>

\* A template of the event type that is active.
Usable(t) == t # NoTemplate /\ t.active

\* The preference is read, and the template: without an active one, the default
\* is to be written over it.  The transaction sees its own write.
WordRecipient(h) ==
    LET w == handler[h]
        next == [w EXCEPT !.pc = "find", !.to = "nobody", !.todo = @ \ {w.to}]
    IN  /\ w.pc = "prefer"
        /\ handler' = [handler EXCEPT ![h] =
              IF ~Enabled(w.to) THEN next
              ELSE IF w.restores \/ Usable(template)
              THEN [next EXCEPT !.made = @ \cup {w.to}]
              ELSE [next EXCEPT !.made = @ \cup {w.to}, !.restores = TRUE, !.seen = template]]
        /\ UNCHANGED <<inboxRows, opener, handlings, edits, inboxHistory>>

\* Each notification, with its delivery attempt.
NewRows(n, made) ==
    {s \in [1 .. Cardinality(made) -> [to : made, notice : {n}, read : {FALSE}]] :
        {s[i].to : i \in DOMAIN s} = made}

\* The commit.  Over Kafka the result is then announced, unless all were found.
CommitNotice(h) ==
    LET w == handler[h] IN
    /\ w.pc = "find" /\ w.todo = {}
    /\ \E rows \in NewRows(w.notice, w.made) : inbox' = inbox \o rows
    /\ template' = IF w.restores THEN Default ELSE template
    /\ handler' = [handler EXCEPT ![h] =
          IF w.rest \/ w.found = audience[w.notice] THEN NoWork
          ELSE [w EXCEPT !.pc = "announce"]]
    /\ UNCHANGED <<audience, preference, announced, opener, handlings, edits, inboxHistory>>

\* publish_notification_event
Announce(h) ==
    /\ handler[h].pc = "announce"
    /\ announced' = announced \cup {handler[h].notice}
    /\ Rest(h)
    /\ UNCHANGED <<audience, template, preference, inbox, opener, handlings, edits, inboxHistory>>

\* Mutation of FailNotice: the failure is logged and the event announced.
SwallowedFailNotice(h) ==
    /\ handler[h] # NoWork
    /\ handler' = [handler EXCEPT ![h].pc = "announce"]
    /\ UNCHANGED <<inboxRows, opener, handlings, edits, inboxHistory>>

\* The handler raises or its process stops: the transaction is rolled back.
FailNotice(h) ==
    /\ handler[h] # NoWork
    /\ Rest(h)
    /\ UNCHANGED <<inboxRows, opener, handlings, edits, inboxHistory>>

-----------------------------------------------------------------------------
(* Templates and preferences *)

Edit == edits < MaxEdits /\ edits' = edits + 1

\* create_notification_template writes over the row of its event type.
CreateTemplate(active) ==
    /\ Edit
    /\ template' = [active |-> active, wording |-> "custom"]
    /\ UNCHANGED <<audience, preference, inbox, announced, handler, opener, handlings, inboxHistory>>

LoadTemplate(r) ==
    /\ opener[r] = NoWork
    /\ template # NoTemplate
    /\ opener' = [opener EXCEPT ![r] = [pc |-> "template", copy |-> template]]
    /\ UNCHANGED <<inboxRows, handler, handlings, edits, inboxHistory>>

\* What a PATCH gives: some of the fields.
TemplatePatch == {[active |-> TRUE], [active |-> FALSE], [wording |-> "custom"]}

\* update_notification_template saves every column of the copy.
SaveTemplate(r, patch) ==
    LET copy == opener[r].copy IN
    /\ opener[r].pc = "template"
    /\ Edit
    /\ template' = [f \in DOMAIN copy |-> IF f \in DOMAIN patch THEN patch[f] ELSE copy[f]]
    /\ CloseRequest(r)
    /\ UNCHANGED <<audience, preference, inbox, announced, handler, handlings, inboxHistory>>

\* upsert_user_notification_preference, by the owner or an administrator.
SetPreference(p, c, on) ==
    /\ Edit
    /\ preference' = [preference EXCEPT ![<<p, c>>] = on]
    /\ wanted' = wanted \cup {<<n, p>> : n \in {m \in Notice : on /\ c = "in_app" /\
                    \E h \in Handler : handler[h] # NoWork /\ handler[h].notice = m}}
    /\ declined' = declined \cup {<<n, p>> : n \in {m \in Notice : ~on /\ c = "in_app" /\
                    \E h \in Handler : handler[h] # NoWork /\ handler[h].notice = m}}
    /\ UNCHANGED <<audience, template, inbox, announced, handler, opener, handlings, overlapped>>

-----------------------------------------------------------------------------
(* Reading *)

\* The view loads the notification and asks user-service whose it is.
OpenNote(r, i, mark) ==
    /\ opener[r] = NoWork
    /\ i \in DOMAIN inbox
    /\ Edit
    /\ opener' = [opener EXCEPT ![r] =
          [pc |-> "note", note |-> i, seen |-> inbox[i].read, mark |-> mark]]
    /\ UNCHANGED <<inboxRows, handler, handlings, inboxHistory>>

\* mark_notification_read, mark_notification_unread: nothing is written if the
\* copy is marked already.
MarkNote(r) ==
    LET o == opener[r] IN
    /\ o.pc = "note"
    /\ inbox' = IF o.seen = o.mark THEN inbox ELSE [inbox EXCEPT ![o.note].read = o.mark]
    /\ CloseRequest(r)
    /\ UNCHANGED <<audience, template, preference, announced, handler, handlings, edits, inboxHistory>>

\* mark_all_notifications_read
ReadAll(p) ==
    /\ \E i \in DOMAIN inbox : inbox[i].to = p /\ ~inbox[i].read
    /\ Edit
    /\ inbox' = [i \in DOMAIN inbox |->
          IF inbox[i].to = p THEN [inbox[i] EXCEPT !.read = TRUE] ELSE inbox[i]]
    /\ UNCHANGED <<audience, template, preference, announced, handler, opener, handlings, inboxHistory>>

InboxNext ==
    \/ \E h \in Handler :
        \/ \E n \in Notice, rest \in BOOLEAN : BeginNotice(h, n, rest)
        \/ \E p \in Recipient : FindRecipient(h, p)
        \/ WordRecipient(h) \/ CommitNotice(h) \/ Announce(h) \/ FailNotice(h)
    \/ \E active \in BOOLEAN : CreateTemplate(active)
    \/ \E r \in Opener :
        \/ LoadTemplate(r) \/ MarkNote(r)
        \/ \E patch \in TemplatePatch : SaveTemplate(r, patch)
        \/ \E i \in 1 .. Len(inbox), mark \in BOOLEAN : OpenNote(r, i, mark)
    \/ \E p \in Recipient, c \in Channel, on \in BOOLEAN : SetPreference(p, c, on)
    \/ \E p \in Recipient : ReadAll(p)

-----------------------------------------------------------------------------
(* Properties *)

\* However often an event comes, each recipient is notified of it once, as long
\* as two handlers do not have it at the same time.
NotifiedOnce ==
    \A n \in Notice \ overlapped, p \in Recipient :
        Cardinality({i \in DOMAIN inbox : inbox[i].notice = n /\ inbox[i].to = p}) <= 1

\* Nobody is notified of an event whose in-app preference was off all the time
\* that the event was handled.
OptOutRespected ==
    \A i \in DOMAIN inbox : <<inbox[i].notice, inbox[i].to>> \in wanted

\* An event is announced as processed only when each of its recipients has the
\* notification or declined it while the event was handled.
AnnouncedIsSettled ==
    \A n \in announced, p \in Recipient :
        p \in audience[n] =>
            \/ \E i \in DOMAIN inbox : inbox[i].notice = n /\ inbox[i].to = p
            \/ <<n, p>> \in declined

\* The wording of an active template of an administrator gives way to the default
\* only if it changed after whoever writes the default, an event or a request
\* that saves its copy, looked at it.
ActiveTemplateKept ==
    [][template.active /\ template'.wording = "default" /\ template.wording # "default"
        => \/ \E h \in Handler :
                handler[h] # NoWork /\ handler[h].restores /\ handler[h].seen # template
           \/ \E r \in Opener :
                opener[r].pc = "template" /\ opener[r].copy # template]_inboxVars

\* Notifications, preferences, templates and announcements tell the same, although events
\* come again, handlers overlap and one recipient of several may fail.
NoticesAgree ==
    /\ [](InboxTypeOK /\ NotifiedOnce /\ OptOutRespected /\ AnnouncedIsSettled)
    /\ ActiveTemplateKept

=============================================================================
