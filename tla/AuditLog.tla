------------------------------ MODULE AuditLog ------------------------------
(***************************************************************************)
(* The log: the rows that handlers emit (logs.py) after their effect, and  *)
(* the clients that read them page by page (GET /_twin/logs) while other   *)
(* requests append more.  The handlers are those whose effect the rest of  *)
(* the project leaves out: the creation of a tenant, feedback, and paths   *)
(* the data plane does not know.  As elsewhere one storage call is a step, *)
(* and between two calls a request is a frame; a storage call may raise    *)
(* and the process may die.                                                *)
(***************************************************************************)
EXTENDS Integers, Sequences, FiniteSets

CONSTANTS TenantId, FeedbackId, Worker, None,
          Bootstrapped,  \* the tenants that exist before any request
          Anonymous,     \* the tenant_id "__anonymous__"
          Client,        \* the clients that read the log
          MaxLimit,      \* the 1000 of list_logs
          Asked,         \* bound: the values of limit that clients ask for
          MaxLogs        \* bound: rows that are appended

ASSUME BootstrappedAssumption == Bootstrapped \subseteq TenantId
ASSUME LimitsAssumption == MaxLimit \in Nat \ {0} /\ Asked \subseteq Int /\ MaxLogs \in Nat
ASSUME NamesAssumption ==
  /\ None \notin TenantId \cup FeedbackId \cup Client
  /\ Anonymous \notin TenantId \cup {None}
  /\ TenantId \cap FeedbackId = {}

VARIABLES
  tenants,       \* the external tenant store
  feedback,      \* the tenant_id column of the feedback table, None if absent
  logs,          \* the logs table; a row's AUTOINCREMENT id is its place
  frames,        \* the request each worker is serving
  acknowledged,  \* the tenants and feedback whose 201 has been sent
  lost,          \* those whose request failed after they were committed
  clients        \* what each client of the log has read

vars == << tenants, feedback, logs, frames, acknowledged, lost, clients >>

Place == {"create_feedback", "get_feedback", "append_log"}
Operation == {"twin.tenant.create", "twin.feedback.submit", "data.unknown.path"}

\* A client of the log: the tenant it reads as (None: the administrator), and what
\* the properties compare: how many rows there were when it began, and the rows it
\* has got.
Reader == [ tenant : TenantId \cup {None}, limit : Asked, offset : Nat,
            upto : Nat, seen : SUBSET Nat, done : BOOLEAN ]

ASSUME NoneIsNoPlace ==
  /\ None \notin Place \cup Operation
  /\ None \notin Reader

\* about is the id of the tenant or feedback the request creates.
Frame ==
  [ at : Place \cup {None}, operation : Operation \cup {None},
    tenant_id : TenantId \cup {Anonymous, None},
    about : TenantId \cup FeedbackId \cup {None} ]

LogRow ==
  [ tenant_id : TenantId \cup {Anonymous}, operation : Operation,
    about : TenantId \cup FeedbackId \cup {None} ]

Idle == [at |-> None, operation |-> None, tenant_id |-> None, about |-> None]

---------------------------------------------------------------------------
(* list_logs: SELECT ... WHERE tenant_id = t ORDER BY id DESC LIMIT ? OFFSET ? *)

\* The rows a tenant may read; None is the administrator.
Visible(t) == {i \in DOMAIN logs : t = None \/ logs[i].tenant_id = t}

\* The place of a row among them, the newest first.
Rank(t, i) == Cardinality({j \in Visible(t) : j >= i})

Page(t, limit, offset) ==
  {i \in Visible(t) : offset < Rank(t, i) /\ Rank(t, i) <= offset + limit}

Smaller(a, b) == IF a < b THEN a ELSE b
Greater(a, b) == IF a < b THEN b ELSE a

\* The limit that is used.
Clamped(limit) == Greater(1, Smaller(limit, MaxLimit))

\* Mutant of ListLogs: the response names the limit that was asked for.
ListLogsAsAsked(t, limit, offset) ==
  [ logs   |-> Page(t, Clamped(limit), Greater(0, offset)),
    limit  |-> limit,
    offset |-> Greater(0, offset) ]

\* The handler.
ListLogs(t, limit, offset) ==
  [ logs   |-> Page(t, Clamped(limit), Greater(0, offset)),
    limit  |-> Clamped(limit),
    offset |-> Greater(0, offset) ]

---------------------------------------------------------------------------
Init ==
  /\ tenants = Bootstrapped
  /\ feedback = [f \in FeedbackId |-> None]
  /\ logs = << >>
  /\ frames = [w \in Worker |-> Idle]
  /\ acknowledged = {}
  /\ lost = {}
  /\ clients = [c \in Client |-> None]

Continue(w, f) == frames' = [frames EXCEPT ![w] = f]
IsIdle(w) == frames[w].at = None

\* POST /tenants: the store has the new tenant before the storage has its log row.
BeginCreateTenant(w) ==
  /\ IsIdle(w)
  /\ \E t \in TenantId \ tenants :
       /\ tenants' = tenants \cup {t}
       /\ Continue(w, [ at |-> "append_log", operation |-> "twin.tenant.create",
                        tenant_id |-> t, about |-> t ])
  /\ UNCHANGED << feedback, logs, acknowledged, lost, clients >>

\* The ids that have been drawn: they are random, and never drawn twice.
Drawn ==
  {f \in FeedbackId : feedback[f] # None} \cup {frames[w].about : w \in Worker} \cup lost

\* Mutant of BeginFeedback: the row is logged before it is inserted.
BeginFeedbackLogFirst(w) ==
  /\ IsIdle(w)
  /\ \E t \in Bootstrapped \cup (tenants \cap acknowledged), f \in FeedbackId \ Drawn :
       Continue(w, [ at |-> "append_log", operation |-> "twin.feedback.submit",
                     tenant_id |-> t, about |-> f ])
  /\ UNCHANGED << tenants, feedback, logs, acknowledged, lost, clients >>

\* POST /feedback of a tenant that knows its secret, with a body that is not blank.
BeginFeedback(w) ==
  /\ IsIdle(w)
  /\ \E t \in Bootstrapped \cup (tenants \cap acknowledged), f \in FeedbackId \ Drawn :
       Continue(w, [ at |-> "create_feedback", operation |-> "twin.feedback.submit",
                     tenant_id |-> t, about |-> f ])
  /\ UNCHANGED << tenants, feedback, logs, acknowledged, lost, clients >>

InsertFeedback(w) ==
  LET f == frames[w] IN
  /\ f.at = "create_feedback"
  /\ feedback' = [feedback EXCEPT ![f.about] = f.tenant_id]
  /\ Continue(w, [f EXCEPT !.at = "get_feedback"])
  /\ UNCHANGED << tenants, logs, acknowledged, lost, clients >>

\* create_feedback reads the row back once it has given up the lock; the handler
\* needs it to be there.
ReadFeedback(w) ==
  LET f == frames[w] IN
  /\ f.at = "get_feedback"
  /\ feedback[f.about] # None
  /\ Continue(w, [f EXCEPT !.at = "append_log"])
  /\ UNCHANGED << tenants, feedback, logs, acknowledged, lost, clients >>

\* Mutant of UnknownPath: g.tenant_id without a default.
UnknownPathUnnamed(w) ==
  /\ IsIdle(w)
  /\ Continue(w, [ at |-> "append_log", operation |-> "data.unknown.path",
                   tenant_id |-> None, about |-> None ])
  /\ UNCHANGED << tenants, feedback, logs, acknowledged, lost, clients >>

\* unknown_openai_path: no decorator has set g.tenant_id.
UnknownPath(w) ==
  /\ IsIdle(w)
  /\ Continue(w, [ at |-> "append_log", operation |-> "data.unknown.path",
                   tenant_id |-> Anonymous, about |-> None ])
  /\ UNCHANGED << tenants, feedback, logs, acknowledged, lost, clients >>

\* Mutant of Emit: a row that cannot be appended is given up, the response sent.
EmitOrNot(w) ==
  LET f == frames[w] IN
  /\ f.at = "append_log"
  /\ Len(logs) < MaxLogs
  /\ logs' \in {logs, Append(logs, [ tenant_id |-> f.tenant_id, operation |-> f.operation,
                                     about |-> f.about ])}
  /\ acknowledged' = acknowledged \cup ({f.about} \ {None})
  /\ Continue(w, Idle)
  /\ UNCHANGED << tenants, feedback, lost, clients >>

\* emit, and the response.
Emit(w) ==
  LET f == frames[w] IN
  /\ f.at = "append_log"
  /\ Len(logs) < MaxLogs
  /\ logs' = Append(logs, [ tenant_id |-> f.tenant_id, operation |-> f.operation,
                            about |-> f.about ])
  /\ acknowledged' = acknowledged \cup ({f.about} \ {None})
  /\ Continue(w, Idle)
  /\ UNCHANGED << tenants, feedback, lost, clients >>

\* A storage call raises; what the request has committed stays, without a log row.
StorageFails(w) ==
  /\ ~IsIdle(w)
  /\ lost' = lost \cup ({frames[w].about} \ {None})
  /\ Continue(w, Idle)
  /\ UNCHANGED << tenants, feedback, logs, acknowledged, clients >>

\* The process dies, and its requests with it.
Crash ==
  /\ lost' = lost \cup ({frames[w].about : w \in Worker} \ {None})
  /\ frames' = [w \in Worker |-> Idle]
  /\ UNCHANGED << tenants, feedback, logs, acknowledged, clients >>

---------------------------------------------------------------------------
(* A client of the log (external): it asks for page after page, each one   *)
(* behind the last by the limit the response names, until a page is not    *)
(* full.                                                                   *)

BeginReading(c) ==
  /\ clients[c] = None
  /\ \E t \in {None} \cup Bootstrapped \cup (tenants \cap acknowledged), limit \in Asked :
       clients' = [clients EXCEPT ![c] =
         [ tenant |-> t, limit |-> limit, offset |-> 0,
           upto |-> Len(logs), seen |-> {}, done |-> FALSE ]]
  /\ UNCHANGED << tenants, feedback, logs, frames, acknowledged, lost >>

ReadPage(c) ==
  LET r == clients[c] IN
  /\ r # None
  /\ ~r.done
  /\ LET page == ListLogs(r.tenant, r.limit, r.offset) IN
       clients' = [clients EXCEPT ![c] =
         [r EXCEPT !.offset = page.offset + page.limit,
                   !.seen = r.seen \cup page.logs,
                   !.done = Cardinality(page.logs) < page.limit]]
  /\ UNCHANGED << tenants, feedback, logs, frames, acknowledged, lost >>

Next ==
  \/ Crash
  \/ \E w \in Worker :
       \/ BeginCreateTenant(w) \/ BeginFeedback(w) \/ InsertFeedback(w) \/ ReadFeedback(w)
       \/ UnknownPath(w) \/ Emit(w) \/ StorageFails(w)
  \/ \E c \in Client : BeginReading(c) \/ ReadPage(c)

Spec == Init /\ [][Next]_vars

---------------------------------------------------------------------------
(* Properties. *)

TypeOK ==
  /\ tenants \subseteq TenantId
  /\ feedback \in [FeedbackId -> TenantId \cup {None}]
  /\ logs \in Seq(LogRow)
  /\ frames \in [Worker -> Frame]
  /\ acknowledged \subseteq TenantId \cup FeedbackId
  /\ lost \subseteq TenantId \cup FeedbackId
  /\ clients \in [Client -> Reader \cup {None}]

\* A client that has paged to the end has every row it may read of those there
\* were when it began, and none that it may not: though LIMIT and OFFSET count
\* from the newest row, and rows were appended between its pages
\* (storage_sqlite.py:562-564).
ReadersGetTheirRows ==
  \A c \in Client :
    LET r == clients[c] IN
    r # None =>
      /\ r.seen \subseteq Visible(r.tenant)
      /\ r.done => Visible(r.tenant) \cap (1 .. r.upto) \subseteq r.seen

\* A row of the log is about something that is in the tables, and names the tenant
\* it belongs to: it is appended after the effect, never for one that failed.
LogIsTrue ==
  \A i \in DOMAIN logs :
    LET row == logs[i] IN
    CASE row.operation = "twin.tenant.create" ->
           row.about \in tenants /\ row.tenant_id = row.about
      [] row.operation = "twin.feedback.submit" ->
           row.about \in FeedbackId /\ feedback[row.about] = row.tenant_id
                                    /\ row.tenant_id \in tenants
      [] OTHER -> row.tenant_id = Anonymous

\* Every tenant and every feedback row has its log row, just one, by the time its
\* creator has the answer; without one are only those being created, and those
\* whose request failed.
Effects == (tenants \ Bootstrapped) \cup {f \in FeedbackId : feedback[f] # None}
RowsAbout(e) == {i \in DOMAIN logs : logs[i].about = e}
InProgress == {frames[w].about : w \in Worker}

EffectsAreLogged ==
  /\ acknowledged \subseteq Effects
  /\ \A e \in Effects :
       /\ \A i, j \in RowsAbout(e) : i = j
       /\ IF e \in acknowledged THEN RowsAbout(e) # {}
          ELSE RowsAbout(e) = {} /\ e \in InProgress \cup lost
=============================================================================
