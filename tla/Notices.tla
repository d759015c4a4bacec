------------------------------- MODULE Notices -------------------------------
(***************************************************************************)
(* What boxerd tells, and whom.  Events are polled by the desktop notifier,*)
(* a process of its own, and project notices ride on the replies to the    *)
(* calls of their repository: one repository here, since a call reads only *)
(* its own.  The lease scan writes both when it has forced a VM off.       *)
(*                                                                         *)
(* A timestamp is taken before the connection to the database is opened,   *)
(* and calls of one repository overlap, as each has a connection.          *)
(***************************************************************************)
EXTENDS Naturals, FiniteSets

CONSTANTS
  Call,          \* calls of the repository's agents at a time
  Event,         \* events that handlers, watchers and the lease scan add
  Warn, Error,   \* those of level WARN and of level ERROR, the rest are INFO
  Forced,        \* those about a VM the lease scan forced off
  NoEvent,
  NoticeLimit,   \* 5 of list_pending_project_notifications
  PollLimit,     \* 50 of the notifier's event.poll
  Faults         \* subset of {"crash", "connection", "notifier"}

ASSUME EventAssumption ==
  /\ IsFiniteSet(Event) /\ NoEvent \notin Event
  /\ Warn \subseteq Event /\ Error \subseteq Event /\ Forced \subseteq Warn
ASSUME LimitAssumption == NoticeLimit \in Nat \ {0} /\ PollLimit \in Nat \ {0}

VARIABLES
  clock,       \* created_at of the last event
  stamp,       \* created_at of each, 0 before it has one
  writing,     \* events that are being added,
  stored,      \* and those in the table
  scan,        \* the event and notice the lease scan is writing
  created,     \* project notices so far, numbered in the order of their created_at
  pending,     \* those not marked delivered
  pc,          \* what each call awaits
  picked,      \* the notices it put into its reply
  received,    \* history: notices that reached an agent,
  again,       \* those that did more than once,
  lost,        \* those on a reply that did not arrive
  overlap,     \* and those two calls had read before either marked them
  since,       \* the notifier's
  shown,       \* how often it has shown each event
  excused      \* history: events it could not see when it passed them

events   == <<clock, stamp, writing, stored, scan>>
notices  == <<created, pending, pc, picked, received, again, lost, overlap>>
notifier == <<since, shown, excused>>
vars     == <<events, notices, notifier>>

Notice == 1..created

\* One type invariant for the module.
TypeOK ==
  /\ clock \in Nat /\ stamp \in [Event -> 0..clock]
  /\ writing \subseteq Event /\ stored \subseteq Event
  /\ scan \in Forced \cup {NoEvent}
  /\ created \in Nat /\ pending \subseteq Notice
  /\ pc \in [Call -> {"idle", "handler", "mark", "reply"}]
  /\ picked \in [Call -> SUBSET Notice]
  /\ received \subseteq Notice /\ again \subseteq received
  /\ lost \subseteq Notice /\ overlap \subseteq Notice
  /\ since \in 0..clock /\ shown \in [Event -> Nat] /\ excused \subseteq Event

Init ==
  /\ clock = 0 /\ stamp = [e \in Event |-> 0] /\ writing = {} /\ stored = {} /\ scan = NoEvent
  /\ created = 0 /\ pending = {}
  /\ pc = [c \in Call |-> "idle"] /\ picked = [c \in Call |-> {}]
  /\ received = {} /\ again = {} /\ lost = {} /\ overlap = {}
  /\ since = 0 /\ shown = [e \in Event |-> 0] /\ excused = {}

-----------------------------------------------------------------------------
(***************************************************************************)
(* add_event and add_project_notification.                                 *)
(***************************************************************************)
\* _now(): two events may share a timestamp
Stamp(e) ==
  /\ stamp[e] = 0 /\ (e \in Forced => scan = NoEvent)
  /\ clock' \in {clock, clock + 1} \ {0} /\ stamp' = [stamp EXCEPT ![e] = clock']
  /\ scan' = IF e \in Forced THEN e ELSE scan
  /\ writing' = writing \cup {e}
  /\ UNCHANGED <<stored, notices, notifier>>

\* the notifier may have seen a later one by now
Store(e) ==
  /\ e \in writing /\ writing' = writing \ {e}
  /\ stored' = stored \cup {e}
  /\ excused' = IF stamp[e] <= since THEN excused \cup {e} ELSE excused
  /\ UNCHANGED <<clock, stamp, scan, notices, since, shown>>

\* at the end of a forced shutdown
AddNotice ==
  /\ scan \in stored /\ scan' = NoEvent
  /\ created' = created + 1 /\ pending' = pending \cup {created + 1}
  /\ UNCHANGED <<clock, stamp, writing, stored, pc, picked, received, again, lost, overlap, notifier>>

-----------------------------------------------------------------------------
(***************************************************************************)
(* _with_project_activity, around every handler.                           *)
(***************************************************************************)
Goto(c, p) == pc' = [pc EXCEPT ![c] = p]

Begin(c) ==
  /\ pc[c] = "idle" /\ Goto(c, "handler")
  /\ UNCHANGED <<events, created, pending, picked, received, again, lost, overlap, notifier>>

\* a list, or an exception other than IPCError, carries no notices
Plain(c) ==
  /\ pc[c] = "handler" /\ Goto(c, "idle")
  /\ UNCHANGED <<events, created, pending, picked, received, again, lost, overlap, notifier>>

\* mutant: ORDER BY created_at DESC
Oldest_Newest(S) == {n \in S : Cardinality({m \in S : m >= n}) <= NoticeLimit}

Oldest(S) == {n \in S : Cardinality({m \in S : m <= n}) <= NoticeLimit}

\* a dict or an IPCError
Collect(c) ==
  /\ pc[c] = "handler"
  /\ picked' = [picked EXCEPT ![c] = Oldest(pending)]
  /\ Goto(c, IF pending = {} THEN "idle" ELSE "mark")
  /\ overlap' = overlap \cup UNION {picked[k] \cap Oldest(pending) : k \in Call}
  /\ UNCHANGED <<events, created, pending, received, again, lost, notifier>>

\* mutant: WHERE project_id=?
Mark_WholeProject(c) ==
  /\ pc[c] = "mark" /\ Goto(c, "reply") /\ pending' = {}
  /\ UNCHANGED <<events, created, picked, received, again, lost, overlap, notifier>>

\* mutant: the connection is closed without a commit
Mark_Uncommitted(c) ==
  /\ pc[c] = "mark" /\ Goto(c, "reply") /\ pending' = pending
  /\ UNCHANGED <<events, created, picked, received, again, lost, overlap, notifier>>

\* WHERE id IN (...)
Mark(c) ==
  /\ pc[c] = "mark" /\ Goto(c, "reply") /\ pending' = pending \ picked[c]
  /\ UNCHANGED <<events, created, picked, received, again, lost, overlap, notifier>>

\* the server writes the reply, which arrives, unless the client has gone
Reply(c) ==
  /\ pc[c] = "reply" /\ Goto(c, "idle") /\ picked' = [picked EXCEPT ![c] = {}]
  /\ \/ /\ again' = again \cup (received \cap picked[c])
        /\ received' = received \cup picked[c] /\ UNCHANGED lost
     \/ /\ "connection" \in Faults
        /\ lost' = lost \cup picked[c] /\ UNCHANGED <<received, again>>
  /\ UNCHANGED <<events, created, pending, overlap, notifier>>

-----------------------------------------------------------------------------
(***************************************************************************)
(* boxer_notifier.  A poll that fails changes nothing.                     *)
(***************************************************************************)
Newer == {e \in stored : stamp[e] > since}

\* mutant: only warnings
Announced_WarnOnly == Warn

Announced == Warn \cup Error

\* the newest events, as many as the limit allows
Poll ==
  \E answer \in SUBSET Newer :
    /\ answer # {} /\ Cardinality(answer) <= PollLimit
    /\ (Cardinality(answer) < PollLimit => answer = Newer)
    /\ \A e \in answer, f \in Newer \ answer : stamp[e] >= stamp[f]
    /\ shown' = [e \in Event |-> IF e \in answer \cap Announced THEN shown[e] + 1 ELSE shown[e]]
    /\ \E last \in answer : (\A e \in answer : stamp[e] <= stamp[last]) /\ since' = stamp[last]
    /\ excused' = excused \cup (Newer \ answer)
    /\ UNCHANGED <<events, notices>>

\* mutant: the time of day, rounded up
NotifierRestart_RoundedUp ==
  /\ "notifier" \in Faults
  /\ since' = clock + 1 /\ excused' = excused \cup Newer /\ UNCHANGED shown
  /\ UNCHANGED <<events, notices>>

\* it starts with the time of day
NotifierRestart ==
  /\ "notifier" \in Faults
  /\ since' = clock /\ excused' = excused \cup Newer /\ UNCHANGED shown
  /\ UNCHANGED <<events, notices>>

\* What a reply under way carries is lost, and so is what was not yet stored; an event
\* without its notice stays without
Crash ==
  /\ "crash" \in Faults
  /\ pc' = [c \in Call |-> "idle"] /\ picked' = [c \in Call |-> {}]
  /\ lost' = lost \cup UNION {picked[c] : c \in {k \in Call : pc[k] = "reply"}}
  /\ writing' = {} /\ scan' = NoEvent
  /\ UNCHANGED <<clock, stamp, stored, created, pending, received, again, overlap, notifier>>

-----------------------------------------------------------------------------
CallStep(c) == Plain(c) \/ Collect(c) \/ Mark(c) \/ Reply(c)

Next ==
  \/ \E e \in Event : Stamp(e) \/ Store(e)
  \/ AddNotice
  \/ \E c \in Call : Begin(c) \/ CallStep(c)
  \/ Poll \/ NotifierRestart \/ Crash

\* boxerd runs its calls to their end, and the repository goes on making calls that
\* return an object, as vm.request, vm.get and most others do
Fairness ==
  /\ \A c \in Call : WF_vars(Begin(c)) /\ SF_vars(Collect(c)) /\ SF_vars(Mark(c)) /\ WF_vars(Reply(c))

Spec == Init /\ [][Next]_vars /\ Fairness

-----------------------------------------------------------------------------
(***************************************************************************)
(* Properties.                                                             *)
(***************************************************************************)
\* A notice marked delivered is on a reply that has yet to be written, or it has arrived,
\* or its reply was lost with the connection or with boxerd (_with_project_activity marks
\* before the reply is written).
NoticeAccounted ==
  Notice \ pending \subseteq
    received \cup lost \cup UNION {picked[c] : c \in {k \in Call : pc[k] = "reply"}}

\* An agent hears of the same thing twice only from two calls that had both read the notice
\* before either marked it (list_pending and mark are separate awaits).
TwiceOnlyOverlapping == again \subseteq overlap

Box == INSTANCE Mailbox WITH Limit <- NoticeLimit, made <- created, waiting <- pending,
                             told <- received

\* Notices are marked in the order they were made, a limit of them at a time, and heard of
\* only then, across replies, overlapping calls and restarts (ORDER BY created_at ASC LIMIT
\* ?; what two calls mark that had read the same must be the front of the queue still).
TakenInOrder == Box!Spec

\* The notifier shows no event twice, and every warning and error it passes, but those it
\* could not see: older ones of a burst beyond the limit, those stored only after it saw one
\* as late, and what was there when it started (event.poll and its created_at > since).
AllShown ==
  /\ \A e \in Event : shown[e] <= 1
  /\ \A e \in (Warn \cup Error) \cap stored :
       stamp[e] <= since => shown[e] > 0 \/ e \in excused

\* Every notice is marked delivered in the end, while the repository makes calls that can
\* carry it (five at a time).
NoticeDelivered == \A n \in 1..Cardinality(Forced) : n \in pending ~> n \notin pending

=============================================================================
