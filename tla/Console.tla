------------------------------ MODULE Console ------------------------------
(* The operators' console: the queue of moderation cases, read page by page   *)
(* through a keyset cursor (server-match/src/reports/reports.service.ts), one  *)
(* case with its two actions, the audit log and the player lookup             *)
(* (admin/player-lookup.service.ts), and the page that shows them             *)
(* (client/src/pages/AdminPage.tsx, components/admin/AdminInspect.tsx).        *)
(*                                                                           *)
(* Between two pages of a list players report and other operators act. An     *)
(* answer may be lost, or arrive after its dialog was closed.                *)
EXTENDS Naturals, Sequences, FiniteSets, SequencesExt

CONSTANTS Case,          \* cases by id, 1 .. n: ids are ordered
          GuestCase,     \* those whose target has no account
          QueueLimit,    \* rows of a page of the queue, at least one
          AuditPage,     \* rows of a page of the audit log
          MaxReports,    \* bound: reports of a case
          MaxNow,        \* bound: time, two instants to the millisecond
          MaxLogged,     \* bound: rows of the audit log
          MaxLookups,    \* bound: requests of the inspection tab under way
          MaxMoves       \* bound: what other operators do, and answers lost

ASSUME ConsoleAssumption ==
  /\ Case \subseteq Nat \ {0} /\ IsFiniteSet(Case) /\ GuestCase \subseteq Case
  /\ {QueueLimit, AuditPage} \subseteq Nat \ {0}
  /\ {MaxReports, MaxNow, MaxLogged, MaxLookups, MaxMoves} \subseteq Nat

VARIABLES rows,       \* moderation_cases: status, report_count, updated_at
          instant,    \* the time
          punished,   \* sanctions that came from each case
          logged,     \* rows of admin_audit_log, numbered from 1
          tab,        \* the open tab
          overview,   \* the overview: what is shown, and whether a load is under way
          queue,      \* the list on the page
          load,       \* the page of the queue on its way
          moved,      \* history: cases that changed since the first page was read
          blurred,    \* history: cases the cursor passed over
          setBack,    \* history: cases whose updated_at an operator's act set back
          casefile,     \* the open case
          acts,       \* the requests of its dialog on their way
          audit,      \* the audit log on the page
          auditLoads, \* pages of it on their way
          moves

consoleVars == <<rows, instant, punished, logged, tab, overview, queue, load, moved, blurred,
                 setBack, casefile, acts, audit, auditLoads, moves>>

NoLoad == [kind |-> "none"]
NoCursor == [count |-> 0, ms |-> 0, id |-> 0]
Unread == "unread"
NoDialog == [id |-> 0, shown |-> Unread, next |-> "TRIAGED", busy |-> {},
             foreign |-> FALSE, stamp |-> 0, crossed |-> FALSE]
EmptyQueue == [items |-> <<>>, cursor |-> NoCursor, initialized |-> FALSE, loading |-> FALSE, failed |-> FALSE]
EmptyAudit == [ids |-> <<>>, before |-> 0, busy |-> TRUE, mixed |-> FALSE]

\* A number no request on its way has.
NewNumber(requests) == Min((1 .. Cardinality(requests) + 1) \ {q.n : q \in requests})

ConsoleInit ==
  /\ rows = [c \in Case |-> [status |-> "OPEN", count |-> 0, at |-> 0]]
  /\ instant = 0 /\ punished = [c \in Case |-> 0] /\ logged = 0
  /\ tab = "overview" /\ overview = [kind |-> "loading", busy |-> FALSE]
  /\ queue = EmptyQueue /\ load = NoLoad /\ moved = {} /\ blurred = {} /\ setBack = {}
  /\ casefile = NoDialog /\ acts = {}
  /\ audit = EmptyAudit /\ auditLoads = {} /\ moves = 0

caseTables == <<rows, punished, logged, setBack>>
queueVars == <<queue, load>>
auditVars == <<audit, auditLoads>>
consolePage == <<tab, overview, queue, load, casefile, acts, audit, auditLoads>>

-----------------------------------------------------------------------------
(* The cases.                                                               *)

ALLOWED_TRANSITIONS ==
  [OPEN |-> <<"TRIAGED", "DISMISSED">>, TRIAGED |-> <<"REVIEWING", "DISMISSED">>,
   REVIEWING |-> <<"ACTIONED", "DISMISSED">>, ACTIONED |-> <<"CLOSED">>,
   DISMISSED |-> <<"CLOSED">>, CLOSED |-> <<>>]
ReportStatus == DOMAIN ALLOWED_TRANSITIONS
DEFAULT_QUEUE_STATUSES == {"OPEN", "TRIAGED", "REVIEWING"}

Exists(c) == rows[c].count > 0

\* A JavaScript Date has milliseconds, the column microseconds.
Ms(at) == at \div 2
JsNow == 2 * Ms(instant)

TimePasses ==
  /\ instant < MaxNow /\ instant' = instant + 1
  /\ UNCHANGED <<caseTables, consolePage, moved, blurred, moves>>

\* create: the case, one more report, updated_at = now().
create(c) ==
  /\ rows[c].count < MaxReports
  /\ rows' = [rows EXCEPT ![c].count = @ + 1, ![c].at = instant]
  /\ moved' = moved \cup {c}
  /\ UNCHANGED <<instant, punished, logged, setBack, consolePage, blurred, moves>>

MayMove(c, s) == s \in Range(ALLOWED_TRANSITIONS[rows[c].status])
\* Mutant: the check for a case that already has its sanction is gone.
SanctionAgain(c) == rows[c].status # "CLOSED" /\ c \notin GuestCase
MaySanction(c) == rows[c].status \notin {"CLOSED", "ACTIONED"} /\ c \notin GuestCase

\* updated_at of a case an operator acts on: new Date(), earlier within its
\* millisecond than the now() a report has left there.
stampCase(c, s) ==
  /\ rows' = [rows EXCEPT ![c].status = s, ![c].at = JsNow]
  /\ setBack' = IF JsNow < rows[c].at THEN setBack \cup {c} ELSE setBack

\* updateStatus and sanction, each one transaction that holds the row. A
\* sanction writes two rows of the audit log, its own and the case's.
updateStatus(c, s) ==
  /\ stampCase(c, s)
  /\ logged' = logged + 1
  /\ UNCHANGED punished

sanction(c) ==
  /\ stampCase(c, "ACTIONED")
  /\ punished' = [punished EXCEPT ![c] = @ + 1]
  /\ logged' = logged + 2

\* Another operator acts on a case.
OtherOperator(c) ==
  /\ moves < MaxMoves /\ moves' = moves + 1 /\ Exists(c) /\ logged + 2 <= MaxLogged
  /\ \/ \E s \in ReportStatus : MayMove(c, s) /\ updateStatus(c, s)
     \/ MaySanction(c) /\ sanction(c)
  /\ moved' = moved \cup {c}
  /\ casefile' = [casefile EXCEPT !.foreign = @ \/ casefile.id = c]
  /\ UNCHANGED <<instant, tab, overview, queueVars, blurred, acts, auditVars>>

-----------------------------------------------------------------------------
(* getQueue.                                                                *)

\* Rows in the order of the queue: more reports first, then the later, then the greater id.
Before(c, d) ==
  \/ rows[c].count > rows[d].count
  \/ rows[c].count = rows[d].count /\ rows[c].at > rows[d].at
  \/ rows[c].count = rows[d].count /\ rows[c].at = rows[d].at /\ c > d

\* cursorCondition, with the time the cursor carries.
PastCursor(c, cursor) ==
  \/ cursor = NoCursor
  \/ rows[c].count < cursor.count
  \/ rows[c].count = cursor.count /\ rows[c].at < 2 * cursor.ms
  \/ rows[c].count = cursor.count /\ rows[c].at = 2 * cursor.ms /\ c < cursor.id

InQueue(cursor) ==
  {c \in Case : Exists(c) /\ rows[c].status \in DEFAULT_QUEUE_STATUSES /\ PastCursor(c, cursor)}

\* Rows as ORDER BY gives them.
Ordered(some) ==
  CHOOSE found \in [1 .. Cardinality(some) -> some] :
    \A i, j \in DOMAIN found : i < j => Before(found[i], found[j])

\* One row more than a page tells whether there is another page; the cursor is
\* the last row of this one, its time cut to the millisecond.
getQueue(cursor) ==
  LET found == Ordered(InQueue(cursor))
      page  == SubSeq(found, 1, IF Len(found) > QueueLimit THEN QueueLimit ELSE Len(found))
      tail  == rows[page[Len(page)]]
  IN  [items  |-> [i \in DOMAIN page |-> [id |-> page[i], status |-> rows[page[i]].status]],
       cursor |-> IF Len(found) > QueueLimit
                  THEN [count |-> tail.count, ms |-> Ms(tail.at), id |-> page[Len(page)]]
                  ELSE NoCursor]

\* A page of the audit log, or a lookup, asked for.
AuditLoad(before, looking, others) ==
  [n |-> NewNumber(others), before |-> before, page |-> <<>>, served |-> FALSE, looking |-> looking]

\* A request of the dialog. Of a closed dialog only those remain that change the case.
CaseRequest(kind, id, to) == [n |-> NewNumber(acts), kind |-> kind, id |-> id, to |-> to, open |-> TRUE,
                              served |-> FALSE, stamp |-> 0]
Orphaned == {[a EXCEPT !.open = FALSE] : a \in {b \in acts : b.kind # "read"}}

-----------------------------------------------------------------------------
(* AdminPage: the overview and the list.                                      *)

Denied == overview.kind = "denied"

\* load: at the mount, by the button, and by the interval while the tab is open.
LoadOverview ==
  /\ ~overview.busy
  /\ overview.kind = "loading" \/ tab = "overview"
  /\ overview' = [overview EXCEPT !.busy = TRUE]
  /\ UNCHANGED <<caseTables, instant, tab, queueVars, moved, blurred, casefile, acts, auditVars, moves>>

\* An operator who has lost the role sees nothing of this page until a later load, of
\* the interval of the overview's tab, is answered; its dialog and lookups are gone.
OverviewArrives(answer) ==
  /\ overview.busy
  /\ overview' = [kind |-> answer, busy |-> FALSE]
  /\ IF answer = "denied"
     THEN casefile' = NoDialog /\ acts' = Orphaned /\ audit' = EmptyAudit /\ auditLoads' = {}
     ELSE UNCHANGED <<casefile, acts, auditVars>>
  /\ UNCHANGED <<caseTables, instant, tab, queueVars, moved, blurred, moves>>

\* loadReports, one at a time: the first page, or the one after the cursor.
loadReports(reset) ==
  IF load # NoLoad THEN UNCHANGED queueVars
  ELSE /\ queue' = [queue EXCEPT !.loading = TRUE, !.failed = FALSE]
       /\ load' = [kind |-> "asked", reset |-> reset, cursor |-> IF reset THEN NoCursor ELSE queue.cursor]

\* The tabs: the first visit reads the queue, every visit of the other the log.
OpenTab(t) ==
  /\ ~Denied /\ casefile.id = 0 /\ tab # t /\ tab' = t
  /\ IF t = "reports" /\ ~queue.initialized THEN loadReports(TRUE) ELSE UNCHANGED queueVars
  /\ audit' = EmptyAudit
  /\ auditLoads' = IF t = "inspect" THEN {AuditLoad(0, FALSE, {})} ELSE {}
  /\ UNCHANGED <<caseTables, instant, overview, moved, blurred, casefile, acts, moves>>

\* The next page while there is one, or the first again after a failure.
NextPage ==
  /\ ~Denied /\ tab = "reports" /\ casefile.id = 0
  /\ IF queue.failed THEN loadReports(TRUE)
     ELSE queue.cursor # NoCursor /\ ~queue.loading /\ loadReports(FALSE)
  /\ UNCHANGED <<caseTables, instant, tab, overview, moved, blurred, casefile, acts, auditVars, moves>>

\* The server reads a page. A row that follows the cursor's row in the order,
\* within its millisecond, does not pass the condition.
ServeQueue ==
  /\ load.kind = "asked"
  /\ load' = [kind |-> "served", reset |-> load.reset, page |-> getQueue(load.cursor)]
  /\ moved' = IF load.reset THEN {} ELSE moved
  /\ blurred' = IF load.reset THEN {}
                ELSE blurred \cup {c \in Case : /\ rows[c].count = load.cursor.count
                                               /\ Ms(rows[c].at) = load.cursor.ms
                                               /\ ~PastCursor(c, load.cursor)}
  /\ UNCHANGED <<caseTables, instant, tab, overview, queue, casefile, acts, auditVars, moves>>

QueueArrives ==
  /\ load.kind = "served" /\ load' = NoLoad
  /\ queue' = [items |-> IF load.reset THEN load.page.items ELSE queue.items \o load.page.items,
               cursor |-> load.page.cursor,
               initialized |-> TRUE, loading |-> FALSE, failed |-> FALSE]
  /\ UNCHANGED <<caseTables, instant, tab, overview, moved, blurred, casefile, acts, auditVars, moves>>

QueueFails ==
  /\ load # NoLoad /\ load' = NoLoad
  /\ moves < MaxMoves /\ moves' = moves + 1
  /\ queue' = [queue EXCEPT !.initialized = TRUE, !.loading = FALSE, !.failed = TRUE]
  /\ UNCHANGED <<caseTables, instant, tab, overview, moved, blurred, casefile, acts, auditVars>>

-----------------------------------------------------------------------------
(* ReportCaseDialog. A request of an older dialog has no dialog to answer to; *)
(* of the older ones only what they still do on the server and to the list    *)
(* matters.                                                                 *)

FirstAllowed(s) == IF ALLOWED_TRANSITIONS[s] = <<>> THEN s ELSE ALLOWED_TRANSITIONS[s][1]

OpenCase(i) ==
  /\ ~Denied /\ tab = "reports" /\ casefile.id = 0 /\ i \in DOMAIN queue.items
  /\ casefile' = [NoDialog EXCEPT !.id = queue.items[i].id]
  /\ acts' = acts \cup {CaseRequest("read", queue.items[i].id, Unread)}
  /\ UNCHANGED <<caseTables, instant, tab, overview, queueVars, moved, blurred, auditVars, moves>>

CloseCase ==
  /\ casefile.id # 0 /\ casefile' = NoDialog
  /\ acts' = Orphaned
  /\ UNCHANGED <<caseTables, instant, tab, overview, queueVars, moved, blurred, auditVars, moves>>

\* The menu holds what the shown status allows.
PickStatus(s) ==
  /\ casefile.shown \in ReportStatus /\ s \in Range(ALLOWED_TRANSITIONS[casefile.shown]) \ {casefile.next}
  /\ casefile' = [casefile EXCEPT !.next = s]
  /\ UNCHANGED <<caseTables, instant, tab, overview, queueVars, moved, blurred, acts, auditVars, moves>>

\* applyStatus and applySanction each wait for their own answer only.
Act(kind, to) ==
  /\ casefile.shown \in ReportStatus /\ kind \notin casefile.busy
  /\ casefile' = [casefile EXCEPT !.busy = @ \cup {kind}]
  /\ acts' = acts \cup {CaseRequest(kind, casefile.id, to)}
  /\ UNCHANGED <<caseTables, instant, tab, overview, queueVars, moved, blurred, auditVars, moves>>

applyStatus == casefile.next # casefile.shown /\ Act("status", casefile.next)
applySanction == casefile.id \notin GuestCase /\ Act("sanction", "ACTIONED")

\* The server answers: getCase reads, the others move the case or refuse.
Obeyed(a) == IF a.kind = "status" THEN MayMove(a.id, a.to) ELSE MaySanction(a.id)

ServeAct(a) ==
  /\ a \in acts /\ ~a.served /\ logged + 2 <= MaxLogged
  /\ IF a.kind = "read" THEN UNCHANGED caseTables
     ELSE IF ~Obeyed(a) THEN UNCHANGED caseTables
     ELSE IF a.kind = "status" THEN updateStatus(a.id, a.to) ELSE sanction(a.id)
  /\ moved' = IF a.kind # "read" /\ Obeyed(a) THEN moved \cup {a.id} ELSE moved
  /\ acts' = (acts \ {a}) \cup
             {[a EXCEPT !.served = TRUE, !.stamp = logged',
                        !.to = CASE a.kind = "read" -> rows[a.id].status
                                 [] a.kind # "read" /\ Obeyed(a) -> a.to
                                 [] OTHER -> Unread]}
  /\ casefile' = [casefile EXCEPT !.foreign =
       CASE a.kind = "read" -> FALSE
         [] a.kind # "read" /\ ~Obeyed(a) -> casefile.foreign
         [] OTHER -> IF a.open THEN FALSE ELSE casefile.foreign \/ casefile.id = a.id]
  /\ UNCHANGED <<instant, tab, overview, queueVars, blurred, auditVars, moves>>

\* The answer: the dialog shows it if it is still this dialog; a change reads the
\* list again, whoever waits for it. Unread stands for a refusal. Two answers
\* may arrive in the other order than they were given.
ActArrives(a) ==
  /\ a \in acts /\ a.served /\ acts' = acts \ {a}
  /\ casefile' = IF ~a.open THEN casefile
               ELSE IF a.to = Unread THEN [casefile EXCEPT !.busy = @ \ {a.kind}]
               ELSE [casefile EXCEPT !.busy = @ \ {a.kind}, !.shown = a.to, !.next = FirstAllowed(a.to),
                                   !.crossed = a.stamp < casefile.stamp,
                                   !.stamp = IF a.stamp < @ THEN @ ELSE a.stamp]
  /\ IF a.kind # "read" /\ a.to # Unread THEN loadReports(TRUE) ELSE UNCHANGED queueVars
  /\ UNCHANGED <<caseTables, instant, tab, overview, moved, blurred, auditVars, moves>>

ActLost(a) ==
  /\ a \in acts /\ moves < MaxMoves /\ moves' = moves + 1
  /\ acts' = acts \ {a}
  /\ casefile' = IF ~a.open THEN casefile
               ELSE [casefile EXCEPT !.busy = @ \ {a.kind},
                                   !.shown = IF a.kind = "read" THEN "failed" ELSE @,
                                   !.foreign = @ \/ (a.served /\ a.to # Unread)]
  /\ UNCHANGED <<caseTables, instant, tab, overview, queueVars, moved, blurred, auditVars>>

-----------------------------------------------------------------------------
(* AdminInspect. Rows are only added to the log; 0 stands for no cursor.       *)

\* auditLog: the ids below the cursor, the greatest first.
auditLog(before) ==
  LET top  == IF before = 0 THEN logged ELSE before - 1
      size == IF top > AuditPage THEN AuditPage ELSE top
  IN  [ids |-> [i \in 1 .. size |-> top - i + 1],
       before |-> IF top > AuditPage THEN top - size + 1 ELSE 0]

LoadMore ==
  /\ ~Denied /\ tab = "inspect" /\ audit.before # 0 /\ ~audit.busy
  /\ audit' = [audit EXCEPT !.busy = TRUE]
  /\ auditLoads' = auditLoads \cup {AuditLoad(audit.before, FALSE, auditLoads)}
  /\ UNCHANGED <<caseTables, instant, tab, overview, queueVars, moved, blurred, casefile, acts, moves>>

\* search: the lookup leaves a row, and its answer has the log read again.
search ==
  /\ ~Denied /\ tab = "inspect" /\ Cardinality(auditLoads) < MaxLookups
  /\ auditLoads' = auditLoads \cup {AuditLoad(0, TRUE, auditLoads)}
  /\ UNCHANGED <<caseTables, instant, tab, overview, queueVars, moved, blurred, casefile, acts, audit, moves>>

lookup(l) ==
  /\ l \in auditLoads /\ l.looking /\ ~l.served /\ logged < MaxLogged
  /\ logged' = logged + 1
  /\ auditLoads' = (auditLoads \ {l}) \cup {[l EXCEPT !.served = TRUE]}
  /\ UNCHANGED <<rows, punished, setBack, instant, tab, overview, queueVars, moved, blurred, casefile, acts,
                 audit, moves>>

LookupArrives(l) ==
  /\ l \in auditLoads /\ l.looking /\ l.served
  /\ audit' = [audit EXCEPT !.busy = TRUE]
  /\ auditLoads' = (auditLoads \ {l}) \cup {AuditLoad(0, FALSE, auditLoads)}
  /\ UNCHANGED <<caseTables, instant, tab, overview, queueVars, moved, blurred, casefile, acts, moves>>

ServeAudit(l) ==
  /\ l \in auditLoads /\ ~l.looking /\ ~l.served
  /\ auditLoads' = (auditLoads \ {l}) \cup {[l EXCEPT !.served = TRUE, !.page = auditLog(l.before)]}
  /\ UNCHANGED <<caseTables, instant, tab, overview, queueVars, moved, blurred, casefile, acts, audit, moves>>

AuditArrives(l) ==
  /\ l \in auditLoads /\ ~l.looking /\ l.served
  /\ auditLoads' = auditLoads \ {l}
  /\ audit' = [ids |-> IF l.before = 0 THEN l.page.ids ELSE audit.ids \o l.page.ids,
               before |-> l.page.before, busy |-> FALSE,
               mixed |-> l.before # 0 /\ (audit.mixed \/ l.before # audit.before)]
  /\ UNCHANGED <<caseTables, instant, tab, overview, queueVars, moved, blurred, casefile, acts, moves>>

AuditFails(l) ==
  /\ l \in auditLoads /\ moves < MaxMoves /\ moves' = moves + 1
  /\ auditLoads' = auditLoads \ {l}
  /\ audit' = [audit EXCEPT !.busy = IF l.looking THEN @ ELSE FALSE]
  /\ UNCHANGED <<caseTables, instant, tab, overview, queueVars, moved, blurred, casefile, acts>>

-----------------------------------------------------------------------------
ConsoleNext ==
  \/ TimePasses
  \/ \E c \in Case : create(c) \/ OtherOperator(c)
  \/ LoadOverview \/ \E answer \in {"ready", "failed", "denied"} : OverviewArrives(answer)
  \/ \E t \in {"overview", "reports", "inspect"} : OpenTab(t)
  \/ NextPage \/ ServeQueue \/ QueueArrives \/ QueueFails
  \/ \E i \in DOMAIN queue.items : OpenCase(i)
  \/ CloseCase \/ applyStatus \/ applySanction
  \/ \E s \in ReportStatus : PickStatus(s)
  \/ \E a \in acts : ServeAct(a) \/ ActArrives(a) \/ ActLost(a)
  \/ LoadMore \/ search
  \/ \E l \in auditLoads : lookup(l) \/ LookupArrives(l) \/ ServeAudit(l) \/ AuditArrives(l) \/ AuditFails(l)

ConsoleSpec == ConsoleInit /\ [][ConsoleNext]_consoleVars

-----------------------------------------------------------------------------
(* The parts of ConsoleIsHonest.                                             *)

\* No case stands in the queue twice, though the rows move while the pages are
\* read: they move towards the front, but for those that an operator's act set
\* back within their millisecond. A list that has reached its end holds every
\* open case that stood still since its first page, except those that lie in
\* the millisecond of a cursor.
QueueIsWhole ==
  LET listed == {queue.items[i].id : i \in DOMAIN queue.items}
  IN  /\ \A i, j \in DOMAIN queue.items :
           queue.items[i].id = queue.items[j].id => i = j \/ queue.items[i].id \in setBack
      /\ queue.initialized /\ ~queue.failed /\ load = NoLoad /\ queue.cursor = NoCursor
         => InQueue(NoCursor) \subseteq listed \cup moved \cup blurred

\* A case at rest in the dialog is shown as it stands, unless someone else, or a
\* request whose answer was lost, moved it, or the answers to the dialog's own
\* two actions overtook one another; and no case is sanctioned twice.
CaseIsShownAsItStands ==
  /\ casefile.shown \in ReportStatus /\ casefile.busy = {} /\ ~casefile.foreign /\ ~casefile.crossed
     => casefile.shown = rows[casefile.id].status
  /\ \A c \in Case : punished[c] <= 1

\* The audit log is shown without a gap or a repetition, down to its first row
\* once there is no more to load, unless an older page met a list that meanwhile
\* ended elsewhere.
AuditIsInOrder ==
  ~audit.mixed =>
    /\ \A i \in 1 .. Len(audit.ids) - 1 : audit.ids[i + 1] = audit.ids[i] - 1
    /\ audit.ids # <<>> => audit.ids[Len(audit.ids)] = IF audit.before = 0 THEN 1 ELSE audit.before

\* What the operators see is what happened: getQueue's keyset and the page that
\* strings its answers together, the dialog's status and the single sanction of
\* a case, and the audit log (reports.service.ts:230, AdminPage.tsx:86,
\* AdminInspect.tsx:37).
ConsoleIsHonest == QueueIsWhole /\ CaseIsShownAsItStands /\ AuditIsInOrder

=============================================================================
