---------------------------- MODULE AccessConsent ---------------------------
(***************************************************************************)
(* The runtime consent of execution/consent.rs: what a user of one session *)
(* agreed to for one draft or conversation under one exact choice of       *)
(* execution settings, and the handlers that ask for it, give it, use it   *)
(* and withdraw it while the settings change under other tabs.             *)
(*                                                                         *)
(* The store has five maps with a lock each, and a withdrawal visits them  *)
(* one after the other.  A token stands for its binding: a map holds a     *)
(* binding at most once, so a form that shows an older token of a binding  *)
(* is refused by the code and not told apart here.                         *)
(***************************************************************************)
EXTENDS Naturals, FiniteSets

CONSTANTS
    Session, Draft, Conversation,
    Grant,          \* sensitive directories with their access
    Host,           \* the target of consent to unrestricted host tools
    RunId,
    Handler,
    NoOne,          \* no session, no run
    Capacity,       \* MAXIMUM_RUNTIME_RECORDS
    MaxRevision,    \* bound: changes of the settings of a conversation
    MaxAgreed       \* bound: what the users agree to

ASSUME ConsentAssumption ==
    /\ NoOne \notin Session \union RunId \union Conversation
    /\ Conversation \intersect (Draft \union RunId) = {}

VARIABLES
    saved,          \* Conversation -> its row: state, settings, revision, work
    pending,        \* bindings that wait for the user's decision
    approved,       \* bindings the user approved
    consumed,       \* drafts that became a conversation
    previews,       \* workflow launches shown for review
    launches,       \* approved launches, one for each run
    live,           \* sessions in memory
    agreed,         \* history: every binding a user agreed to, for a draft
                    \* also as the binding of the conversation it became
    served,         \* history: <<session, draft, conversation>> of what a draft
                    \* became since its user last agreed to something for it
    at              \* Handler -> where its request is, and what it read

consentVars == <<saved, pending, approved, consumed, previews, launches, live,
                 agreed, served, at>>
maps == <<pending, approved, consumed, previews, launches>>
history == <<agreed, served>>

Settings == [dirs : SUBSET Grant, host : BOOLEAN]
Forms == {x \in Settings : x.host => x.dirs = {}}     \* bound: drafts filled in
Untouched == [dirs |-> {}, host |-> FALSE]
Away == [pc |-> "away", session |-> NoOne, subject |-> NoOne,
         settings |-> Untouched, revision |-> 0, target |-> NoOne, run |-> NoOne]
NewRow == [state |-> "new", settings |-> Untouched, revision |-> 0,
           work |-> NoOne, run |-> NoOne]

(* The digest of a binding covers every execution setting, for a draft     *)
(* through the nonce that hashes the submitted form.                       *)
Binding(session, subject, settings, target) ==
    [session |-> session, subject |-> subject, digest |-> settings,
     target |-> target]
Launch(session, conversation, settings) ==
    [session |-> session, conversation |-> conversation, settings |-> settings]
(* The work locations of a host conversation need no consent of their own. *)
Needs(settings) ==
    IF settings.host THEN {Host} ELSE settings.dirs

ConsentInit ==
    /\ saved = [c \in Conversation |-> NewRow]
    /\ pending = {} /\ approved = {} /\ consumed = {}
    /\ previews = {} /\ launches = {}
    /\ live = Session
    /\ agreed = {} /\ served = {}
    /\ at = [h \in Handler |-> Away]

Move(h, pc) == at' = [at EXCEPT ![h].pc = pc]
Return(h) == at' = [at EXCEPT ![h] = Away]

-----------------------------------------------------------------------------
(* request and approve hold the pending map while they look at the others. *)
Admits(map, b) == Cardinality(map \ {b}) < Capacity

Ask(b) ==
    /\ <<b.session, b.subject>> \notin consumed
    /\ Admits(pending, b)
    /\ pending' = pending \union {b}

(* The request is used up also when the approved map is full.              *)
Approve(b) ==
    /\ b \in pending
    /\ Cardinality(agreed) < MaxAgreed
    /\ pending' = pending \ {b}
    /\ approved' = IF Admits(approved, b) THEN approved \union {b} ELSE approved
    /\ agreed' = agreed \union {b}

-----------------------------------------------------------------------------
(* The form of a new conversation: every field travels with the request,   *)
(* so nothing is read but the maps.                                        *)
AskForDraft(s, d) ==
    /\ s \in live
    /\ \E settings \in Forms : \E target \in Needs(settings) :
          Ask(Binding(s, d, settings, target))
    /\ UNCHANGED <<saved, approved, consumed, previews, launches, live,
                   history, at>>

ApproveForDraft(s, d) ==
    /\ s \in live
    /\ \E b \in pending : b.session = s /\ b.subject = d /\ Approve(b)
    /\ served' = {x \in served : x[1] # s \/ x[2] # d}
    /\ UNCHANGED <<saved, consumed, previews, launches, live, at>>

CancelRequest(s) ==
    /\ s \in live
    /\ \E b \in pending :
          b.session = s /\ b.target \in Grant /\ pending' = pending \ {b}
    /\ UNCHANGED <<saved, approved, consumed, previews, launches, live,
                   history, at>>

AgreedAs(s, d, c, settings) ==     \* what agreed gains when d becomes c
    {Binding(s, c, settings, target) :
        target \in {t \in Needs(settings) : Binding(s, d, settings, t) \in agreed}}

AuthorisedDraft(s, d, settings) ==
    \A target \in Needs(settings) : Binding(s, d, settings, target) \in approved

(* create checks the consent, waits for its preflight and takes a fresh    *)
(* identifier.                                                             *)
OpenDraft(h, s, d) ==
    /\ at[h] = Away
    /\ s \in live
    /\ \E settings \in Forms, c \in Conversation :
          /\ Needs(settings) # {}
          /\ AuthorisedDraft(s, d, settings)
          /\ saved[c].state = "new"
          /\ \A other \in Handler : at[other].run # c
          /\ at' = [at EXCEPT ![h] =
                       [pc |-> "consume", session |-> s, subject |-> d,
                        settings |-> settings, revision |-> 0,
                        target |-> NoOne, run |-> c]]
    /\ UNCHANGED <<saved, maps, live, history>>

(* consume_draft holds three maps together: it refuses a draft that served *)
(* already, moves the approvals to the conversation and forgets all others *)
(* of the draft.                                                           *)
ConsumeDraft(h) ==
    LET s == at[h].session  d == at[h].subject  c == at[h].run
        ofDraft(b) == b.session = s /\ b.subject = d
    IN  /\ at[h].pc = "consume"
        /\ IF /\ <<s, d>> \notin consumed
              /\ Cardinality(consumed) < Capacity
              /\ AuthorisedDraft(s, d, at[h].settings)
           THEN /\ pending' = {b \in pending : ~ofDraft(b)}
                /\ approved' = {b \in approved : ~ofDraft(b)}
                      \union {Binding(s, c, at[h].settings, target) :
                                 target \in Needs(at[h].settings)}
                /\ consumed' = consumed \union {<<s, d>>}
                /\ served' = served \union {<<s, d, c>>}
                /\ agreed' = agreed \union AgreedAs(s, d, c, at[h].settings)
                /\ Move(h, "create")
           ELSE Return(h) /\ UNCHANGED <<pending, approved, consumed, history>>
        /\ UNCHANGED <<saved, previews, launches, live>>

(* create_saved stores the row, or fails and its consent is withdrawn.     *)
StoreDraft(h) ==
    LET c == at[h].run IN
    /\ at[h].pc = "create"
    /\ \/ /\ saved' = [saved EXCEPT ![c].state = "stored",
                                    ![c].settings = at[h].settings,
                                    ![c].revision = 1]
          /\ at' = [at EXCEPT ![h].pc = "read", ![h].subject = c,
                              ![h].revision = 1, ![h].run = NoOne]
       \/ /\ saved' = [saved EXCEPT ![c].state = "gone"]
          /\ at' = [at EXCEPT ![h].pc = "approved", ![h].subject = c,
                              ![h].run = NoOne]
    /\ UNCHANGED <<maps, live, history>>

(* A first message that cannot start deletes what create stored.           *)
FailFirstMessage(h) ==
    LET c == at[h].subject IN
    /\ at[h].pc = "read" /\ at[h].revision = 1
    /\ saved[c].state = "stored" /\ saved[c].revision = 1
    /\ saved[c].work = NoOne
    /\ saved' = [saved EXCEPT ![c].state = "gone"]
    /\ Move(h, "approved")
    /\ UNCHANGED <<maps, live, history>>

-----------------------------------------------------------------------------
(* The handlers of a conversation load its row first.                      *)
ReadRow(h, s, c) ==
    /\ at[h] = Away
    /\ s \in live
    /\ saved[c].state = "stored"
    /\ at' = [at EXCEPT ![h] =
                 [pc |-> "read", session |-> s, subject |-> c,
                  settings |-> saved[c].settings,
                  revision |-> saved[c].revision,
                  target |-> NoOne, run |-> saved[c].run]]
    /\ UNCHANGED <<saved, maps, live, history>>

(* pick_saved and request_saved bind the request to the directories as     *)
(* they will be with the new one; request_host to the settings as they are.*)
Projected(h, target) ==
    IF target = Host THEN at[h].settings
    ELSE [at[h].settings EXCEPT !.dirs = @ \union {target}]

Wanted(h, target) ==
    IF target = Host THEN at[h].settings.host ELSE ~at[h].settings.host

AskForRow(h) ==
    /\ at[h].pc = "read"
    /\ \E target \in Grant \union {Host} :
          /\ Wanted(h, target)
          /\ Ask(Binding(at[h].session, at[h].subject, Projected(h, target), target))
    /\ Return(h)
    /\ UNCHANGED <<saved, approved, consumed, previews, launches, live,
                   history>>

(* approve_saved and approve_host approve what the row they read leads to. *)
ApproveForRow(h) ==
    /\ at[h].pc = "read"
    /\ \E target \in Grant \union {Host} :
          LET b == Binding(at[h].session, at[h].subject, Projected(h, target), target)
          IN  /\ Wanted(h, target)
              /\ target \in Grant => at[h].run = NoOne
              /\ Approve(b)
              /\ IF Admits(approved, b)
                 THEN at' = [at EXCEPT ![h].pc = "others", ![h].target = target,
                                       ![h].settings = Projected(h, target)]
                 ELSE Return(h)
    /\ UNCHANGED <<saved, consumed, previews, launches, live, served>>

(* approve_conversation forgets approvals of other settings and every      *)
(* request; approve_host_conversation only those for the host.             *)
Touches(h, b) ==
    b.subject = at[h].subject /\ (at[h].target = Host => b.target = Host)

ForgetOthers(h) ==
    /\ at[h].pc = "others"
    /\ approved' = {b \in approved : Touches(h, b) => b.digest = at[h].settings}
    /\ Move(h, "requests")
    /\ UNCHANGED <<saved, pending, consumed, previews, launches, live, history>>

ForgetRequests(h) ==
    /\ at[h].pc = "requests"
    /\ pending' = {b \in pending : ~Touches(h, b)}
    /\ IF at[h].target = Host THEN Return(h) ELSE Move(h, "commit")
    /\ UNCHANGED <<saved, approved, consumed, previews, launches, live, history>>

CommittedAnyway(h) == saved[at[h].subject].state = "stored"     \* a mutated Unmoved

Unmoved(h) ==
    LET row == saved[at[h].subject] IN
    /\ row.state = "stored"
    /\ row.revision = at[h].revision
    /\ row.work = NoOne

Commits(h, settings) ==
    /\ Unmoved(h)
    /\ at[h].revision < MaxRevision
    /\ saved' = [saved EXCEPT ![at[h].subject].settings = settings,
                              ![at[h].subject].revision = @ + 1]

(* The directory is added after its approval; whatever keeps it from being *)
(* stored withdraws the approval again.                                    *)
CommitDirectory(h) ==
    /\ at[h].pc = "commit"
    /\ \/ Commits(h, at[h].settings) /\ Return(h)
       \/ UNCHANGED saved /\ Move(h, "approved")
    /\ UNCHANGED <<maps, live, history>>

(* Every other change of the settings withdraws the consent there was: of  *)
(* where and how tools run, of the directories, of everything by a preset. *)
Withdraws(h, settings) ==
    /\ at[h].pc = "read"
    /\ settings # at[h].settings
    /\ Commits(h, settings)
    /\ Move(h, "approved")
    /\ UNCHANGED <<maps, live, history>>

SwitchMode(h) == Withdraws(h, [at[h].settings EXCEPT !.host = ~@])
ChangeDirectories(h) ==
    \E dirs \in SUBSET at[h].settings.dirs :
        Withdraws(h, [at[h].settings EXCEPT !.dirs = dirs])
ApplyPreset(h) == \E settings \in Forms : Withdraws(h, settings)

(* stop_and_switch_environment stops the work of the row it read, waits    *)
(* and goes on only if the settings are still the same.                    *)
StopForSwitch(h) ==
    /\ at[h].pc = "read"
    /\ saved[at[h].subject].work # NoOne
    /\ Move(h, "stopping")
    /\ UNCHANGED <<saved, maps, live, history>>

Stopped(h) ==
    LET row == saved[at[h].subject] IN
    /\ at[h].pc = "stopping"
    /\ row.work = NoOne
    /\ IF row.state = "stored" /\ row.settings = at[h].settings
       THEN at' = [at EXCEPT ![h].pc = "read", ![h].revision = row.revision,
                             ![h].run = NoOne]
       ELSE Return(h)
    /\ UNCHANGED <<saved, maps, live, history>>

Abandon(h) ==
    /\ at[h].pc = "read"
    /\ Return(h)
    /\ UNCHANGED <<saved, maps, live, history>>

(* invalidate_conversation, lock by lock.                                  *)
ForgetApproved(h) ==
    /\ at[h].pc = "approved"
    /\ approved' = {b \in approved : b.subject # at[h].subject}
    /\ Move(h, "previews")
    /\ UNCHANGED <<saved, pending, consumed, previews, launches, live, history>>

ForgetPreviews(h) ==
    /\ at[h].pc = "previews"
    /\ previews' = {p \in previews : p.conversation # at[h].subject}
    /\ Move(h, "launches")
    /\ UNCHANGED <<saved, pending, approved, consumed, launches, live, history>>

ForgetLaunches(h) ==
    /\ at[h].pc = "launches"
    /\ launches' = {l \in launches : l.binding.conversation # at[h].subject}
    /\ Move(h, "pending")
    /\ UNCHANGED <<saved, pending, approved, consumed, previews, live, history>>

ForgetPending(h) ==
    /\ at[h].pc = "pending"
    /\ pending' = {b \in pending : b.subject # at[h].subject}
    /\ Return(h)
    /\ UNCHANGED <<saved, approved, consumed, previews, launches, live, history>>

-----------------------------------------------------------------------------
(* preflight_execution looks the consent up; the durable start comes after *)
(* an await and is refused when the row moved.                             *)
Authorised(h) ==
    /\ at[h].session \in live
    /\ \A target \in Needs(at[h].settings) :
          Binding(at[h].session, at[h].subject, at[h].settings, target) \in approved

Preflight(h) ==
    /\ at[h].pc = "read"
    /\ Authorised(h)
    /\ Move(h, "begin")
    /\ UNCHANGED <<saved, maps, live, history>>

BeginWork(h) ==
    /\ at[h].pc = "begin"
    /\ IF Unmoved(h) /\ at[h].session \in live
       THEN saved' = [saved EXCEPT ![at[h].subject].work = at[h].session]
       ELSE UNCHANGED saved
    /\ Return(h)
    /\ UNCHANGED <<maps, live, history>>

(* A launch is previewed with the settings of its phases, and started only *)
(* with the preview of exactly the settings the row has then.              *)
PreviewLaunch(h) ==
    /\ at[h].pc = "read"
    /\ Cardinality(previews) < Capacity
    /\ previews' = previews \union
                      {Launch(at[h].session, at[h].subject, at[h].settings)}
    /\ Return(h)
    /\ UNCHANGED <<saved, pending, approved, consumed, launches, live, history>>

UsedRuns == {l.run : l \in launches} \union {saved[c].run : c \in Conversation}

ApproveLaunch(h) ==
    LET p == Launch(at[h].session, at[h].subject, at[h].settings) IN
    /\ at[h].pc = "read" /\ at[h].run = NoOne
    /\ at[h].session \in live
    /\ p \in previews
    /\ Cardinality(agreed) < MaxAgreed
    /\ Cardinality(launches) < Capacity
    /\ \E r \in RunId \ UsedRuns :
          /\ previews' = previews \ {p}
          /\ launches' = launches \union {[run |-> r, binding |-> p]}
          /\ agreed' = agreed \union {p}
          /\ at' = [at EXCEPT ![h].pc = "launch", ![h].run = r]
    /\ UNCHANGED <<saved, pending, approved, consumed, live, served>>

StartRun(h) ==
    /\ at[h].pc = "launch"
    /\ IF Unmoved(h) /\ at[h].session \in live
       THEN saved' = [saved EXCEPT ![at[h].subject].work = at[h].session,
                                   ![at[h].subject].run = at[h].run]
       ELSE UNCHANGED saved
    /\ Return(h)
    /\ UNCHANGED <<maps, live, history>>

EndRowWork(c) ==
    /\ saved[c].work # NoOne
    /\ saved' = [saved EXCEPT ![c].work = NoOne, ![c].run = NoOne]
    /\ UNCHANGED <<maps, live, history, at>>

-----------------------------------------------------------------------------
ExpireSession(s) ==
    /\ s \in live
    /\ live' = live \ {s}
    /\ UNCHANGED <<saved, maps, history, at>>

(* retain_sessions.  Its five locks are one step here: what a dead session *)
(* has in one map gives nothing in another, except to a request of that    *)
(* session that is still on its way.                                       *)
Retain ==
    /\ pending' = {b \in pending : b.session \in live}
    /\ approved' = {b \in approved : b.session \in live}
    /\ consumed' = {d \in consumed : d[1] \in live}
    /\ previews' = {p \in previews : p.session \in live}
    /\ launches' = {l \in launches : l.binding.session \in live}
    /\ UNCHANGED <<saved, history, at>>

Purge == Retain /\ UNCHANGED live

(* A restored cookie starts a new lifetime: its consent goes first.        *)
RestoreLifetime(s) ==
    /\ s \notin live
    /\ Retain
    /\ live' = live \union {s}

-----------------------------------------------------------------------------
ConsentNext ==
    \/ \E s \in Session : \/ CancelRequest(s)
                          \/ ExpireSession(s)
                          \/ RestoreLifetime(s)
                          \/ \E d \in Draft : AskForDraft(s, d) \/ ApproveForDraft(s, d)
    \/ \E h \in Handler :
          \/ \E s \in Session : \/ \E d \in Draft : OpenDraft(h, s, d)
                                \/ \E c \in Conversation : ReadRow(h, s, c)
          \/ ConsumeDraft(h) \/ StoreDraft(h) \/ FailFirstMessage(h)
          \/ AskForRow(h) \/ ApproveForRow(h) \/ ForgetOthers(h) \/ ForgetRequests(h)
          \/ CommitDirectory(h) \/ Abandon(h)
          \/ SwitchMode(h) \/ ChangeDirectories(h) \/ ApplyPreset(h)
          \/ StopForSwitch(h) \/ Stopped(h)
          \/ ForgetApproved(h) \/ ForgetPreviews(h) \/ ForgetLaunches(h)
          \/ ForgetPending(h)
          \/ Preflight(h) \/ BeginWork(h)
          \/ PreviewLaunch(h) \/ ApproveLaunch(h) \/ StartRun(h)
    \/ \E c \in Conversation : EndRowWork(c)
    \/ Purge

ConsentSpec == ConsentInit /\ [][ConsentNext]_consentVars

-----------------------------------------------------------------------------
(* What a user agreed to is what happens (execution/consent.rs).  Work     *)
(* runs only on what its own session agreed to, for the settings it        *)
(* really has, although the settings, the maps and the session change at   *)
(* every await between the look at the consent and the durable start.      *)
WorkIsConsented ==
    \A c \in Conversation :
        LET s == saved[c].work IN
        s # NoOne =>
            IF saved[c].run # NoOne
            THEN Launch(s, c, saved[c].settings) \in agreed
            ELSE \A target \in Needs(saved[c].settings) :
                    Binding(s, c, saved[c].settings, target) \in agreed

(* What the user agreed to for a draft serves one conversation, also when  *)
(* two tabs send the draft at the same time or the session is lost and     *)
(* restored in between.                                                    *)
DraftServesOnce ==
    \A x, y \in served : x[1] = y[1] /\ x[2] = y[2] => x[3] = y[3]

ConsentIsHonoured == WorkIsConsented /\ DraftServesOnce
=============================================================================
