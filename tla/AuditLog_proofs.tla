-------------------------- MODULE AuditLog_proofs --------------------------
(***************************************************************************)
(* The theorems of AuditLog.  The first part is about pages: ranks order   *)
(* the rows, a page that rows lie behind is full, and appending a row only *)
(* pushes the others back.  The second shows that LogInv is inductive.     *)
(***************************************************************************)
EXTENDS AuditLog, Numbers_proofs

---------------------------------------------------------------------------
(* What the proofs carry from step to step. *)

\* A request that is about a tenant or a feedback row is the only one, and its log
\* row is still to come.
InOrder(w) ==
  LET f == frames[w] IN
  /\ f.at = None => f.about = None
  /\ f.at = "create_feedback" =>
       /\ f.operation = "twin.feedback.submit"
       /\ f.about \in FeedbackId /\ feedback[f.about] = None /\ f.tenant_id \in tenants
  /\ f.at = "get_feedback" =>
       /\ f.operation = "twin.feedback.submit"
       /\ f.about \in FeedbackId /\ feedback[f.about] = f.tenant_id /\ f.tenant_id \in tenants
  /\ f.at = "append_log" =>
       \/ /\ f.operation = "twin.tenant.create"
          /\ f.about \in tenants \ Bootstrapped /\ f.tenant_id = f.about
       \/ /\ f.operation = "twin.feedback.submit"
          /\ f.about \in FeedbackId /\ feedback[f.about] = f.tenant_id /\ f.tenant_id \in tenants
       \/ /\ f.operation = "data.unknown.path"
          /\ f.about = None /\ f.tenant_id = Anonymous
  /\ f.about # None =>
       /\ f.about \notin acknowledged
       /\ \A v \in Worker \ {w} : frames[v].about # f.about

FramesInOrder == \A w \in Worker : InOrder(w)

\* The row and the response come together.
RowsAreAcknowledged ==
  \A i \in DOMAIN logs : logs[i].about # None => logs[i].about \in acknowledged

\* A row that a client has not got yet is behind its offset, where rows that are
\* appended only push it further.
Behind(c) ==
  LET r == clients[c] IN
  r # None =>
    /\ r.seen \subseteq Visible(r.tenant)
    /\ r.upto <= Len(logs)
    /\ \A i \in Visible(r.tenant) :
         i <= r.upto => i \in r.seen \/ (~r.done /\ r.offset < Rank(r.tenant, i))

LogInv ==
  /\ TypeOK /\ Bootstrapped \subseteq tenants
  /\ FramesInOrder /\ RowsAreAcknowledged /\ LogIsTrue /\ EffectsAreLogged
  /\ \A c \in Client : Behind(c)

---------------------------------------------------------------------------
(* Finite sets of numbers. *)

\* A bounded set of natural numbers is finite.
LEMMA BoundedIsFinite ==
  ASSUME NEW b \in Nat, NEW S \in SUBSET (1 .. b)
  PROVE  IsFiniteSet(S)
<1>1. IsFiniteSet(1 .. b)
  BY FS_Interval
<1> QED
  BY <1>1, FS_Subset

---------------------------------------------------------------------------
(* Ranks and pages. *)

From(t, i) == {j \in Visible(t) : j >= i}

\* The rows a tenant may read are finitely many places of the log.
LEMMA VisiblePlaces ==
  ASSUME logs \in Seq(LogRow), NEW t
  PROVE  /\ Len(logs) \in Nat
         /\ Visible(t) \subseteq 1 .. Len(logs)
         /\ \A S \in SUBSET Visible(t) : IsFiniteSet(S) /\ Cardinality(S) \in Nat
<1>1. Len(logs) \in Nat /\ Visible(t) \subseteq 1 .. Len(logs)
  BY DEF Visible
<1>2. ASSUME NEW S \in SUBSET Visible(t) PROVE IsFiniteSet(S) /\ Cardinality(S) \in Nat
  <2>1. S \in SUBSET (1 .. Len(logs))
    BY <1>1
  <2>2. IsFiniteSet(S)
    BY <1>1, <2>1, BoundedIsFinite
  <2> QED
    BY <2>2, FS_CardinalityType
<1> QED
  BY <1>1, <1>2

\* Every row has a rank of its own, and a newer row a smaller one.
LEMMA RanksOrder ==
  ASSUME logs \in Seq(LogRow), NEW t
  PROVE  /\ \A i \in Visible(t) : Rank(t, i) \in Nat \ {0}
         /\ \A i, j \in Visible(t) : i < j => Rank(t, j) < Rank(t, i)
<1>1. \A i \in Visible(t) : IsFiniteSet(From(t, i)) /\ Rank(t, i) = Cardinality(From(t, i))
  BY VisiblePlaces DEF From, Rank
<1>2. ASSUME NEW i \in Visible(t) PROVE Rank(t, i) \in Nat \ {0}
  <2>1. i \in From(t, i)
    BY VisiblePlaces DEF From
  <2>2. Cardinality(From(t, i)) \in Nat /\ Cardinality(From(t, i)) # 0
    BY <1>1, <2>1, FS_CardinalityType, FS_EmptySet
  <2> QED
    BY <1>1, <2>2
<1>3. ASSUME NEW i \in Visible(t), NEW j \in Visible(t), i < j
      PROVE  Rank(t, j) < Rank(t, i)
  <2>0. i \in Int /\ j \in Int /\ Visible(t) \subseteq Int
    BY VisiblePlaces
  <2>1. From(t, j) \subseteq From(t, i) /\ i \in From(t, i) /\ i \notin From(t, j)
    BY <1>3, <2>0 DEF From
  <2>2. From(t, j) \in SUBSET From(t, i) /\ From(t, j) # From(t, i)
    BY <2>1
  <2>3. /\ Cardinality(From(t, j)) <= Cardinality(From(t, i))
        /\ Cardinality(From(t, j)) # Cardinality(From(t, i))
    BY <1>1, <2>2, FS_Subset
  <2> QED
    BY <1>1, <1>2, <2>3
<1> QED
  BY <1>2, <1>3

Newest(t, k) == {j \in Visible(t) : Rank(t, j) <= k}

\* If some row is behind the k newest ones, those are k.
LEMMA NewestAreAsMany ==
  ASSUME logs \in Seq(LogRow), NEW t, NEW k \in Nat,
         NEW i \in Visible(t), k < Rank(t, i)
  PROVE  Cardinality(Newest(t, k)) = k
<1> DEFINE New == Newest(t, k)
           Old == {j \in Visible(t) : k < Rank(t, j)}
<1>1. /\ Visible(t) \subseteq 1 .. Len(logs) /\ Len(logs) \in Nat
      /\ IsFiniteSet(New) /\ Cardinality(New) \in Nat
  <2>1. New \in SUBSET Visible(t)
    BY DEF Newest
  <2> QED
    BY <2>1, VisiblePlaces
<1>2. Cardinality(New) <= k
  <2>1. CASE New = {}
    BY <2>1, FS_EmptySet
  <2>2. CASE New # {}
    <3>1. New \subseteq Visible(t)
      BY DEF Newest
    <3>2. New \in SUBSET Nat
      BY <1>1, <3>1
    <3>3. PICK m \in New : \A n \in New : m <= n
      <4> HIDE DEF New
      <4> QED
        BY <2>2, <3>2, Least
    <3>4. New \subseteq From(t, m)
      BY <3>1, <3>2, <3>3 DEF From
    <3>5. IsFiniteSet(From(t, m)) /\ From(t, m) \in SUBSET Visible(t)
      BY VisiblePlaces DEF From
    <3>6. Cardinality(New) <= Cardinality(From(t, m))
      BY <3>4, <3>5, FS_Subset
    <3>7. Cardinality(From(t, m)) <= k /\ Cardinality(From(t, m)) \in Nat
      BY <3>3, <3>5, VisiblePlaces DEF Newest, Rank, From
    <3> QED
      BY <1>1, <3>6, <3>7
  <2> QED
    BY <2>1, <2>2
<1>3. k <= Cardinality(New)
  <2>1. Old \in SUBSET (1 .. Len(logs)) /\ Old # {}
    BY <1>1
  <2>2. PICK m \in Old : \A n \in Old : n <= m
    <3> HIDE DEF Old
    <3> QED
      BY <1>1, <2>1, Greatest
  <2>3. From(t, m) \subseteq New \cup {m}
    <3> SUFFICES ASSUME NEW j \in Visible(t), j >= m, j # m PROVE j \in New
      BY DEF From
    <3>1. j \notin Old /\ j \in Int /\ m \in Int
      BY <1>1, <2>1, <2>2
    <3>2. Rank(t, j) \in Nat
      BY RanksOrder
    <3> QED
      BY <3>1, <3>2 DEF Newest
  <2>4. IsFiniteSet(New \cup {m}) /\ Cardinality(New \cup {m}) <= Cardinality(New) + 1
    <3>1. /\ IsFiniteSet(New \cup {m})
          /\ Cardinality(New \cup {m}) =
               IF m \in New THEN Cardinality(New) ELSE Cardinality(New) + 1
      <4> HIDE DEF New
      <4> QED
        BY <1>1, FS_AddElement
    <3> QED
      BY <1>1, <3>1
  <2>5. Cardinality(From(t, m)) <= Cardinality(New \cup {m})
    BY <2>3, <2>4, FS_Subset
  <2>6. k < Cardinality(From(t, m)) /\ Cardinality(From(t, m)) \in Nat
    BY <2>2, RanksOrder DEF Rank, From
  <2>7. Cardinality(New \cup {m}) \in Nat
    BY <2>4, FS_CardinalityType
  <2> QED
    BY <1>1, <2>4, <2>5, <2>6, <2>7
<1> QED
  BY <1>1, <1>2, <1>3

\* A page behind which there are rows is full.
LEMMA FullPage ==
  ASSUME logs \in Seq(LogRow), NEW t, NEW limit \in Nat, NEW offset \in Nat,
         NEW i \in Visible(t), offset + limit < Rank(t, i)
  PROVE  Cardinality(Page(t, limit, offset)) = limit
<1> DEFINE A == Newest(t, offset)
           B == Newest(t, offset + limit)
<1>1. Rank(t, i) \in Nat /\ offset < Rank(t, i)
  BY RanksOrder
<1>2. Cardinality(A) = offset /\ Cardinality(B) = offset + limit
  BY <1>1, NewestAreAsMany
<1>3. A \cap B = A /\ B \cap A = A /\ Page(t, limit, offset) = B \ A
  BY RanksOrder DEF Newest, Page
<1>4. IsFiniteSet(A) /\ IsFiniteSet(B)
  <2>1. A \in SUBSET Visible(t) /\ B \in SUBSET Visible(t)
    BY DEF Newest
  <2> QED
    BY <2>1, VisiblePlaces
<1>5. Cardinality(B \ A) = Cardinality(B) - Cardinality(B \cap A)
  <2> HIDE DEF A, B
  <2> QED
    BY <1>4, FS_Difference
<1>6. Cardinality(Page(t, limit, offset)) = Cardinality(B) - Cardinality(A)
  <2> HIDE DEF A, B
  <2> QED
    BY <1>3, <1>5
<1>7. (offset + limit) - offset = limit
  OBVIOUS
<1> QED
  BY <1>2, <1>6, <1>7

\* A row that is appended moves no other out of sight, and none forward.
LEMMA RowsArePushedBack ==
  ASSUME logs \in Seq(LogRow), NEW row, logs' = Append(logs, row), logs' \in Seq(LogRow), NEW t
  PROVE  /\ Visible(t) \subseteq Visible(t)'
         /\ \A i \in Visible(t)' : i <= Len(logs) => i \in Visible(t)
         /\ \A i \in Visible(t) :
              Rank(t, i) \in Nat /\ Rank(t, i)' \in Nat /\ Rank(t, i) <= Rank(t, i)'
<1>1. /\ DOMAIN logs' = 1 .. Len(logs) + 1 /\ Len(logs) \in Nat
      /\ \A i \in DOMAIN logs : i \in DOMAIN logs' /\ logs'[i] = logs[i]
      /\ DOMAIN logs = 1 .. Len(logs)
  OBVIOUS
<1>2. Visible(t) \subseteq Visible(t)' /\ \A i \in Visible(t)' : i <= Len(logs) => i \in Visible(t)
  BY <1>1 DEF Visible
<1>3. ASSUME NEW i \in Visible(t)
      PROVE  Rank(t, i) \in Nat /\ Rank(t, i)' \in Nat /\ Rank(t, i) <= Rank(t, i)'
  <2>1. From(t, i) \subseteq From(t, i)'
    BY <1>2 DEF From
  <2>2. Visible(t)' \subseteq 1 .. Len(logs) + 1
    BY <1>1 DEF Visible
  <2>3. From(t, i)' \in SUBSET (1 .. Len(logs) + 1)
    BY <2>2 DEF From
  <2>4. IsFiniteSet(From(t, i)')
    <3>1. Len(logs) + 1 \in Nat
      BY <1>1
    <3> QED
      BY <2>3, <3>1, BoundedIsFinite
  <2>5. Cardinality(From(t, i)) <= Cardinality(From(t, i)')
    BY <2>1, <2>4, FS_Subset
  <2>6. Cardinality(From(t, i)) \in Nat /\ Cardinality(From(t, i)') \in Nat
    BY <2>1, <2>4, FS_CardinalityType, FS_Subset
  <2> QED
    BY <2>5, <2>6 DEF Rank, From
<1> QED
  BY <1>2, <1>3
---------------------------------------------------------------------------
(* The types. *)

USE DEF IsIdle, Continue

\* What a client is given is a record of the right shape.
LEMMA ResponseType ==
  ASSUME NEW limit \in Int, NEW offset \in Nat
  PROVE  /\ Clamped(limit) \in Nat \ {0}
         /\ Greater(0, offset) = offset
BY LimitsAssumption DEF Clamped, Greater, Smaller

\* What a page does to its reader.
LEMMA PageRead ==
  ASSUME TypeOK, NEW c \in Client, ReadPage(c)
  PROVE  \E limit \in Nat \ {0} :
           LET r == clients[c]
               page == Page(r.tenant, limit, r.offset)
           IN  /\ r \in Reader /\ ~r.done
               /\ page \subseteq Visible(r.tenant) /\ Cardinality(page) \in Nat
               /\ clients' = [clients EXCEPT ![c] =
                    [r EXCEPT !.offset = r.offset + limit, !.seen = r.seen \cup page,
                              !.done = Cardinality(page) < limit]]
<1> DEFINE r == clients[c]
           limit == Clamped(r.limit)
           page == Page(r.tenant, limit, r.offset)
<1>1. r \in Reader /\ ~r.done
  BY DEF ReadPage, TypeOK
<1>2. r.limit \in Int /\ r.offset \in Nat
  BY <1>1, LimitsAssumption DEF Reader
<1>3. limit \in Nat \ {0} /\ Greater(0, r.offset) = r.offset
  <2> HIDE DEF r
  <2> QED
    BY <1>2, ResponseType
<1>4. ListLogs(r.tenant, r.limit, r.offset)
        = [logs |-> page, limit |-> limit, offset |-> r.offset]
  <2> HIDE DEF r
  <2> QED
    BY <1>3 DEF ListLogs
<1>5. page \subseteq Visible(r.tenant) /\ Cardinality(page) \in Nat
  <2>1. page \in SUBSET Visible(r.tenant)
    BY DEF Page
  <2> QED
    BY <2>1, VisiblePlaces DEF TypeOK
<1>6. clients' = [clients EXCEPT ![c] =
        [r EXCEPT !.offset = r.offset + limit, !.seen = r.seen \cup page,
                  !.done = Cardinality(page) < limit]]
  <2>1. clients' =
          LET p == ListLogs(r.tenant, r.limit, r.offset) IN
          [clients EXCEPT ![c] =
             [r EXCEPT !.offset = p.offset + p.limit, !.seen = r.seen \cup p.logs,
                       !.done = Cardinality(p.logs) < p.limit]]
    BY DEF ReadPage
  <2> HIDE DEF r, page, limit
  <2> QED
    BY <1>4, <2>1
<1> HIDE DEF limit
<1> QED
  BY <1>1, <1>3, <1>5, <1>6

LEMMA TypesStay ==
  ASSUME LogInv, [Next]_vars
  PROVE  TypeOK'
<1> USE DEF LogInv
<1>0. TypeOK /\ None \notin Place \cup Operation
  BY NoneIsNoPlace
<1> USE DEF TypeOK
<1>1. CASE Crash
  <2>1. frames' \in [Worker -> Frame]
    BY <1>1 DEF Crash, Idle, Frame
  <2>2. lost' \subseteq TenantId \cup FeedbackId
    BY <1>1 DEF Crash, Frame
  <2> QED
    BY <1>1, <2>1, <2>2 DEF Crash
<1>2. ASSUME NEW w \in Worker, BeginCreateTenant(w) PROVE TypeOK'
  <2>1. PICK t \in TenantId \ tenants :
          /\ tenants' = tenants \cup {t}
          /\ frames' = [frames EXCEPT ![w] =
               [ at |-> "append_log", operation |-> "twin.tenant.create",
                 tenant_id |-> t, about |-> t ]]
    BY <1>2 DEF BeginCreateTenant
  <2>2. frames' \in [Worker -> Frame]
    BY <2>1 DEF Frame, Place, Operation
  <2> QED
    BY <1>2, <2>1, <2>2 DEF BeginCreateTenant
<1>3. ASSUME NEW w \in Worker, BeginFeedback(w) PROVE TypeOK'
  <2>1. PICK t \in TenantId, f \in FeedbackId :
          frames' = [frames EXCEPT ![w] =
            [ at |-> "create_feedback", operation |-> "twin.feedback.submit",
              tenant_id |-> t, about |-> f ]]
    BY <1>3, BootstrappedAssumption DEF BeginFeedback
  <2>2. frames' \in [Worker -> Frame]
    BY <2>1 DEF Frame, Place, Operation
  <2> QED
    BY <1>3, <2>2 DEF BeginFeedback
<1>4. ASSUME NEW w \in Worker, InsertFeedback(w) PROVE TypeOK'
  <2>1. frames[w].tenant_id \in TenantId /\ frames[w].about \in FeedbackId
    BY <1>4 DEF InsertFeedback, FramesInOrder, InOrder
  <2>2. feedback' \in [FeedbackId -> TenantId \cup {None}]
    BY <1>4, <2>1 DEF InsertFeedback
  <2>3. frames' \in [Worker -> Frame]
    BY <1>4 DEF InsertFeedback, Frame, Place
  <2> QED
    BY <1>4, <2>2, <2>3 DEF InsertFeedback
<1>5. ASSUME NEW w \in Worker, ReadFeedback(w) PROVE TypeOK'
  <2>1. frames' \in [Worker -> Frame]
    BY <1>5 DEF ReadFeedback, Frame, Place
  <2> QED
    BY <1>5, <2>1 DEF ReadFeedback
<1>6. ASSUME NEW w \in Worker, UnknownPath(w) PROVE TypeOK'
  <2>1. frames' \in [Worker -> Frame]
    BY <1>6 DEF UnknownPath, Frame, Place, Operation
  <2> QED
    BY <1>6, <2>1 DEF UnknownPath
<1>7. ASSUME NEW w \in Worker, Emit(w) PROVE TypeOK'
  <2>1. /\ frames[w].tenant_id \in TenantId \cup {Anonymous}
        /\ frames[w].operation \in Operation
        /\ frames[w].about \in TenantId \cup FeedbackId \cup {None}
    BY <1>7 DEF Emit, FramesInOrder, InOrder, Operation, Frame
  <2>2. logs' \in Seq(LogRow)
    BY <1>7, <2>1 DEF Emit, LogRow
  <2>3. frames' \in [Worker -> Frame]
    BY <1>7 DEF Emit, Idle, Frame
  <2> QED
    BY <1>7, <2>1, <2>2, <2>3 DEF Emit
<1>8. ASSUME NEW w \in Worker, StorageFails(w) PROVE TypeOK'
  <2>1. frames' \in [Worker -> Frame]
    BY <1>8 DEF StorageFails, Idle, Frame
  <2>2. lost' \subseteq TenantId \cup FeedbackId
    BY <1>8 DEF StorageFails, Frame
  <2> QED
    BY <1>8, <2>1, <2>2 DEF StorageFails
<1>9. ASSUME NEW c \in Client, BeginReading(c) PROVE TypeOK'
  <2>1. PICK t \in TenantId \cup {None}, limit \in Asked :
          clients' = [clients EXCEPT ![c] =
            [ tenant |-> t, limit |-> limit, offset |-> 0,
              upto |-> Len(logs), seen |-> {}, done |-> FALSE ]]
    BY <1>9, BootstrappedAssumption DEF BeginReading
  <2>2. Len(logs) \in Nat
    OBVIOUS
  <2>3. clients' \in [Client -> Reader \cup {None}]
    BY <2>1, <2>2 DEF Reader
  <2> QED
    BY <1>9, <2>3 DEF BeginReading
<1>10. ASSUME NEW c \in Client, ReadPage(c) PROVE TypeOK'
  <2> DEFINE r == clients[c]
  <2>1. PICK limit \in Nat \ {0} :
          LET page == Page(r.tenant, limit, r.offset)
          IN  /\ r \in Reader /\ ~r.done
              /\ page \subseteq Visible(r.tenant) /\ Cardinality(page) \in Nat
              /\ clients' = [clients EXCEPT ![c] =
                   [r EXCEPT !.offset = r.offset + limit, !.seen = r.seen \cup page,
                             !.done = Cardinality(page) < limit]]
    BY <1>10, PageRead
  <2> DEFINE page == Page(r.tenant, limit, r.offset)
  <2>2. r.offset + limit \in Nat /\ (Cardinality(page) < limit) \in BOOLEAN
    BY <2>1 DEF Reader
  <2>3. r.seen \cup page \in SUBSET Nat
    <3>1. Visible(r.tenant) \subseteq Nat
      BY VisiblePlaces
    <3> QED
      BY <2>1, <3>1 DEF Reader
  <2>4. [r EXCEPT !.offset = r.offset + limit, !.seen = r.seen \cup page,
                  !.done = Cardinality(page) < limit] \in Reader
    <3> HIDE DEF page
    <3> QED
      BY <2>1, <2>2, <2>3 DEF Reader
  <2> QED
    BY <1>10, <2>1, <2>4 DEF ReadPage
<1>11. CASE UNCHANGED vars
  BY <1>11 DEF vars
<1> QED
  BY <1>1, <1>2, <1>3, <1>4, <1>5, <1>6, <1>7, <1>8, <1>9, <1>10, <1>11 DEF Next
---------------------------------------------------------------------------
(* The requests. *)

\* A step of one request leaves the others in order, if it has none of their rows.
LEMMA OthersStay ==
  ASSUME FramesInOrder, tenants \subseteq tenants', NEW w \in Worker,
         \A v \in Worker \ {w} :
           /\ frames'[v] = frames[v]
           /\ frames[v].about # None =>
                /\ frames'[w].about # frames[v].about
                /\ frames[v].about \notin acknowledged'
                /\ frames[v].about \in FeedbackId =>
                     feedback'[frames[v].about] = feedback[frames[v].about]
  PROVE  \A v \in Worker \ {w} : InOrder(v)'
<1> SUFFICES ASSUME NEW v \in Worker \ {w} PROVE InOrder(v)'
  OBVIOUS
<1>1. frames'[v] = frames[v] /\ InOrder(v)
  BY DEF FramesInOrder
<1>2. ASSUME frames[v].about # None, NEW u \in Worker \ {v}
      PROVE  frames'[u].about # frames[v].about
  <2>1. CASE u = w
    BY <1>2, <2>1
  <2>2. CASE u # w
    BY <1>1, <1>2, <2>2 DEF InOrder
  <2> QED
    BY <2>1, <2>2
<1>3. frames[v].about # None =>
        /\ frames[v].about \notin acknowledged'
        /\ frames[v].about \in FeedbackId =>
             feedback'[frames[v].about] = feedback[frames[v].about]
  OBVIOUS
<1>4. None \notin FeedbackId
  BY NamesAssumption
<1> QED
  BY <1>1, <1>2, <1>3, <1>4 DEF InOrder

LEMMA FramesStay ==
  ASSUME LogInv, [Next]_vars
  PROVE  FramesInOrder'
<1>1. TypeOK /\ FramesInOrder /\ EffectsAreLogged
  BY DEF LogInv
<1>2. frames \in [Worker -> Frame] /\ feedback \in [FeedbackId -> TenantId \cup {None}]
  BY <1>1 DEF TypeOK
<1> USE NamesAssumption, NoneIsNoPlace
<1>3. CASE Crash
  BY <1>3 DEF Crash, Idle, FramesInOrder, InOrder, Place
<1>4. ASSUME NEW w \in Worker, BeginCreateTenant(w) PROVE FramesInOrder'
  <2>1. PICK t \in TenantId \ tenants :
          /\ tenants' = tenants \cup {t}
          /\ frames' = [frames EXCEPT ![w] =
               [ at |-> "append_log", operation |-> "twin.tenant.create",
                 tenant_id |-> t, about |-> t ]]
    BY <1>4 DEF BeginCreateTenant
  <2>2. feedback' = feedback /\ acknowledged' = acknowledged
    BY <1>4 DEF BeginCreateTenant
  <2>3. t \notin acknowledged /\ t \notin Bootstrapped
    <3>1. t \notin Effects
      BY <2>1 DEF Effects
    <3>2. Bootstrapped \subseteq tenants
      BY DEF LogInv
    <3> QED
      BY <1>1, <2>1, <3>1, <3>2 DEF EffectsAreLogged
  <2>4. \A v \in Worker : frames[v].about # t
    BY <1>1, <1>2, <2>1 DEF FramesInOrder, InOrder, Frame, Place
  <2>5. InOrder(w)'
    <3>1. /\ frames'[w].at = "append_log" /\ frames'[w].operation = "twin.tenant.create"
          /\ frames'[w].tenant_id = t /\ frames'[w].about = t
          /\ \A v \in Worker \ {w} : frames'[v].about # t
      BY <1>2, <2>1, <2>4
    <3>2. t \in tenants' /\ t \notin acknowledged'
      BY <2>1, <2>2, <2>3
    <3> QED
      BY <2>3, <3>1, <3>2 DEF InOrder, Place
  <2>6. \A v \in Worker \ {w} : frames[v].about # None => frames[v].about \notin acknowledged
    BY <1>1 DEF FramesInOrder, InOrder
  <2>7. \A v \in Worker \ {w} : InOrder(v)'
    BY <1>1, <1>2, <2>1, <2>2, <2>4, <2>6, OthersStay
  <2> QED
    BY <2>5, <2>7 DEF FramesInOrder
<1>5. ASSUME NEW w \in Worker, BeginFeedback(w) PROVE FramesInOrder'
  <2>1. PICK t \in tenants, f \in FeedbackId \ Drawn :
          frames' = [frames EXCEPT ![w] =
            [ at |-> "create_feedback", operation |-> "twin.feedback.submit",
              tenant_id |-> t, about |-> f ]]
    BY <1>5 DEF BeginFeedback, LogInv
  <2>2. feedback' = feedback /\ acknowledged' = acknowledged /\ tenants' = tenants
    BY <1>5 DEF BeginFeedback
  <2>3. f \notin acknowledged /\ feedback[f] = None
    BY <1>1, <2>1 DEF EffectsAreLogged, Effects, Drawn, TypeOK
  <2>4. \A v \in Worker : frames[v].about # f
    BY <2>1 DEF Drawn
  <2>5. InOrder(w)'
    <3>1. /\ frames'[w].at = "create_feedback" /\ frames'[w].operation = "twin.feedback.submit"
          /\ frames'[w].tenant_id = t /\ frames'[w].about = f
          /\ \A v \in Worker \ {w} : frames'[v].about # f
      BY <1>2, <2>1, <2>4
    <3>2. f \in FeedbackId /\ t \in tenants'
      BY <2>1, <2>2
    <3> QED
      BY <2>2, <2>3, <3>1, <3>2 DEF InOrder, Place
  <2>6. \A v \in Worker \ {w} : frames[v].about # None => frames[v].about \notin acknowledged
    BY <1>1 DEF FramesInOrder, InOrder
  <2>7. \A v \in Worker \ {w} : InOrder(v)'
    BY <1>1, <1>2, <2>1, <2>2, <2>4, <2>6, OthersStay
  <2> QED
    BY <2>5, <2>7 DEF FramesInOrder
<1>6. ASSUME NEW w \in Worker, InsertFeedback(w) PROVE FramesInOrder'
  <2>1. /\ frames' = [frames EXCEPT ![w] = [frames[w] EXCEPT !.at = "get_feedback"]]
        /\ feedback' = [feedback EXCEPT ![frames[w].about] = frames[w].tenant_id]
        /\ acknowledged' = acknowledged /\ tenants' = tenants
        /\ frames[w].at = "create_feedback" /\ InOrder(w) /\ frames[w] \in Frame
    BY <1>1, <1>2, <1>6 DEF InsertFeedback, FramesInOrder
  <2>2. [frames[w] EXCEPT !.at = "get_feedback"].about = frames[w].about
    BY <2>1 DEF Frame
  <2>3. \A v \in Worker \ {w} : frames[v].about # None =>
          /\ frames[v].about \notin acknowledged /\ frames[w].about # frames[v].about
          /\ frames[v].about \in FeedbackId =>
               feedback'[frames[v].about] = feedback[frames[v].about]
    BY <1>1, <1>2, <2>1 DEF FramesInOrder, InOrder
  <2>4. \A v \in Worker \ {w} : InOrder(v)'
    BY <1>1, <1>2, <2>1, <2>2, <2>3, OthersStay
  <2>5. InOrder(w)'
    <3>1. /\ frames[w].about \in FeedbackId /\ frames[w].tenant_id \in tenants
          /\ frames[w].operation = "twin.feedback.submit"
          /\ frames[w].about \notin acknowledged
          /\ \A v \in Worker \ {w} : frames[v].about # frames[w].about
      BY <2>1 DEF InOrder
    <3>2. /\ frames'[w].at = "get_feedback" /\ frames'[w].operation = "twin.feedback.submit"
          /\ frames'[w].tenant_id = frames[w].tenant_id /\ frames'[w].about = frames[w].about
          /\ \A v \in Worker \ {w} : frames'[v].about = frames[v].about
      BY <1>2, <2>1, <3>1 DEF Frame
    <3>3. feedback'[frames[w].about] = frames[w].tenant_id
      BY <1>2, <2>1, <3>1
    <3>4. /\ \A v \in Worker \ {w} : frames'[v].about # frames'[w].about
          /\ frames'[w].about \in FeedbackId /\ frames'[w].tenant_id \in tenants'
          /\ feedback'[frames'[w].about] = frames'[w].tenant_id
          /\ frames'[w].about \notin acknowledged'
      BY <2>1, <3>1, <3>2, <3>3
    <3> QED
      BY <3>2, <3>4 DEF InOrder, Place
  <2> QED
    BY <2>4, <2>5 DEF FramesInOrder
<1>7. ASSUME NEW w \in Worker, ReadFeedback(w) PROVE FramesInOrder'
  <2>1. /\ frames' = [frames EXCEPT ![w] = [frames[w] EXCEPT !.at = "append_log"]]
        /\ feedback' = feedback /\ acknowledged' = acknowledged /\ tenants' = tenants
        /\ frames[w].at = "get_feedback" /\ InOrder(w) /\ frames[w] \in Frame
    BY <1>1, <1>2, <1>7 DEF ReadFeedback, FramesInOrder
  <2>2. [frames[w] EXCEPT !.at = "append_log"].about = frames[w].about
    BY <2>1 DEF Frame
  <2>3. \A v \in Worker \ {w} : frames[v].about # None =>
          frames[v].about \notin acknowledged /\ frames[w].about # frames[v].about
    BY <1>1, <1>2, <2>1 DEF FramesInOrder, InOrder
  <2>4. \A v \in Worker \ {w} : InOrder(v)'
    BY <1>1, <1>2, <2>1, <2>2, <2>3, OthersStay
  <2>5. InOrder(w)'
    <3>1. /\ frames[w].about \in FeedbackId /\ frames[w].tenant_id \in tenants
          /\ frames[w].operation = "twin.feedback.submit"
          /\ feedback[frames[w].about] = frames[w].tenant_id
          /\ frames[w].about \notin acknowledged
          /\ \A v \in Worker \ {w} : frames[v].about # frames[w].about
      BY <2>1 DEF InOrder
    <3>2. /\ frames'[w].at = "append_log" /\ frames'[w].operation = "twin.feedback.submit"
          /\ frames'[w].tenant_id = frames[w].tenant_id /\ frames'[w].about = frames[w].about
          /\ \A v \in Worker \ {w} : frames'[v].about = frames[v].about
      BY <1>2, <2>1, <3>1 DEF Frame
    <3>3. /\ \A v \in Worker \ {w} : frames'[v].about # frames'[w].about
          /\ frames'[w].about \in FeedbackId /\ frames'[w].tenant_id \in tenants'
          /\ feedback'[frames'[w].about] = frames'[w].tenant_id
          /\ frames'[w].about \notin acknowledged'
      BY <2>1, <3>1, <3>2
    <3> QED
      BY <3>2, <3>3 DEF InOrder, Place
  <2> QED
    BY <2>4, <2>5 DEF FramesInOrder
<1>8. ASSUME NEW w \in Worker, UnknownPath(w) PROVE FramesInOrder'
  <2>1. /\ frames' = [frames EXCEPT ![w] =
             [ at |-> "append_log", operation |-> "data.unknown.path",
               tenant_id |-> Anonymous, about |-> None ]]
        /\ feedback' = feedback /\ acknowledged' = acknowledged /\ tenants' = tenants
    BY <1>8 DEF UnknownPath
  <2>2. \A v \in Worker \ {w} : frames[v].about # None => frames[v].about \notin acknowledged
    BY <1>1 DEF FramesInOrder, InOrder
  <2>3. \A v \in Worker \ {w} : InOrder(v)'
    BY <1>1, <1>2, <2>1, <2>2, OthersStay
  <2>4. InOrder(w)'
    BY <1>2, <2>1 DEF InOrder
  <2> QED
    BY <2>3, <2>4 DEF FramesInOrder
<1>9. ASSUME NEW w \in Worker, Emit(w) PROVE FramesInOrder'
  <2>1. /\ frames' = [frames EXCEPT ![w] = Idle]
        /\ acknowledged' = acknowledged \cup ({frames[w].about} \ {None})
        /\ feedback' = feedback /\ tenants' = tenants
    BY <1>9 DEF Emit
  <2>2. \A v \in Worker \ {w} : frames[v].about # None =>
          frames[v].about \notin acknowledged'
    BY <1>1, <2>1 DEF FramesInOrder, InOrder
  <2>3. \A v \in Worker \ {w} : InOrder(v)'
    BY <1>1, <1>2, <2>1, <2>2, OthersStay DEF Idle
  <2>4. InOrder(w)'
    BY <1>2, <2>1 DEF InOrder, Idle, Place
  <2> QED
    BY <2>3, <2>4 DEF FramesInOrder
<1>10. ASSUME NEW w \in Worker, StorageFails(w) PROVE FramesInOrder'
  <2>1. /\ frames' = [frames EXCEPT ![w] = Idle]
        /\ acknowledged' = acknowledged /\ feedback' = feedback /\ tenants' = tenants
    BY <1>10 DEF StorageFails
  <2>2. \A v \in Worker \ {w} : frames[v].about # None =>
          frames[v].about \notin acknowledged
    BY <1>1 DEF FramesInOrder, InOrder
  <2>3. \A v \in Worker \ {w} : InOrder(v)'
    BY <1>1, <1>2, <2>1, <2>2, OthersStay DEF Idle
  <2>4. InOrder(w)'
    BY <1>2, <2>1 DEF InOrder, Idle, Place
  <2> QED
    BY <2>3, <2>4 DEF FramesInOrder
<1>11. ASSUME UNCHANGED << tenants, feedback, frames, acknowledged >> PROVE FramesInOrder'
  BY <1>1, <1>11 DEF FramesInOrder, InOrder
<1>12. CASE UNCHANGED vars
  BY <1>11, <1>12 DEF vars
<1>13. ASSUME NEW c \in Client, BeginReading(c) \/ ReadPage(c) PROVE FramesInOrder'
  BY <1>11, <1>13 DEF BeginReading, ReadPage
<1> QED
  BY <1>3, <1>4, <1>5, <1>6, <1>7, <1>8, <1>9, <1>10, <1>12, <1>13 DEF Next
---------------------------------------------------------------------------
(* The log and the tables.  A step either appends a row and answers, or it *)
(* leaves the log alone and accounts for whatever it commits or gives up.  *)

KeepsTables ==
  /\ tenants \subseteq tenants'
  /\ \A f \in FeedbackId : feedback[f] # None => feedback'[f] = feedback[f]

LeavesLog ==
  /\ logs' = logs /\ acknowledged' = acknowledged
  /\ Effects' \subseteq Effects \cup InProgress'
  /\ (InProgress \ {None}) \cup lost \subseteq InProgress' \cup lost'

LEMMA EveryStep ==
  ASSUME LogInv, [Next]_vars
  PROVE  KeepsTables /\ (LeavesLog \/ \E w \in Worker : Emit(w))
<1>1. TypeOK /\ FramesInOrder
  BY DEF LogInv
<1>2. frames \in [Worker -> Frame] /\ feedback \in [FeedbackId -> TenantId \cup {None}]
  BY <1>1 DEF TypeOK
<1> USE DEF KeepsTables, LeavesLog
<1> USE NamesAssumption
<1>3. CASE Crash
  BY <1>3 DEF Crash, Effects, InProgress
<1>4. ASSUME NEW w \in Worker, BeginCreateTenant(w) PROVE KeepsTables /\ LeavesLog
  <2>1. PICK t \in TenantId :
          /\ tenants' = tenants \cup {t}
          /\ frames' = [frames EXCEPT ![w] =
               [ at |-> "append_log", operation |-> "twin.tenant.create",
                 tenant_id |-> t, about |-> t ]]
    BY <1>4 DEF BeginCreateTenant
  <2>2. feedback' = feedback /\ logs' = logs /\ acknowledged' = acknowledged /\ lost' = lost
    BY <1>4 DEF BeginCreateTenant
  <2>3. frames[w].about = None
    BY <1>1, <1>4 DEF BeginCreateTenant, FramesInOrder, InOrder
  <2>4. frames'[w].about = t /\ \A v \in Worker \ {w} : frames'[v] = frames[v]
    BY <1>2, <2>1
  <2>5. t \in InProgress' /\ InProgress \ {None} \subseteq InProgress'
    BY <2>3, <2>4 DEF InProgress
  <2>6. Effects' \subseteq Effects \cup {t}
    BY <2>1, <2>2 DEF Effects
  <2> QED
    BY <2>1, <2>2, <2>5, <2>6
<1>5. ASSUME NEW w \in Worker, BeginFeedback(w) \/ UnknownPath(w) PROVE KeepsTables /\ LeavesLog
  <2>1. /\ tenants' = tenants /\ feedback' = feedback /\ logs' = logs
        /\ acknowledged' = acknowledged /\ lost' = lost
        /\ \A v \in Worker \ {w} : frames'[v] = frames[v]
    BY <1>2, <1>5 DEF BeginFeedback, UnknownPath
  <2>2. frames[w].about = None
    BY <1>1, <1>5 DEF BeginFeedback, UnknownPath, FramesInOrder, InOrder
  <2>3. InProgress \ {None} \subseteq InProgress'
    BY <2>1, <2>2 DEF InProgress
  <2> QED
    BY <2>1, <2>3 DEF Effects
<1>6. ASSUME NEW w \in Worker, InsertFeedback(w) \/ ReadFeedback(w) PROVE KeepsTables /\ LeavesLog
  <2>1. /\ tenants' = tenants /\ logs' = logs
        /\ acknowledged' = acknowledged /\ lost' = lost
        /\ \A v \in Worker : frames'[v].about = frames[v].about
    BY <1>2, <1>6 DEF InsertFeedback, ReadFeedback, Frame
  <2>2. InProgress' = InProgress
    BY <2>1 DEF InProgress
  <2>3. CASE InsertFeedback(w)
    <3>1. frames[w].about \in FeedbackId /\ feedback[frames[w].about] = None
      BY <1>1, <2>3 DEF InsertFeedback, FramesInOrder, InOrder
    <3>2. \A f \in FeedbackId \ {frames[w].about} : feedback'[f] = feedback[f]
      BY <1>2, <2>3 DEF InsertFeedback
    <3>3. Effects' \subseteq Effects \cup {frames[w].about}
      BY <2>1, <3>2 DEF Effects
    <3> QED
      BY <2>1, <2>2, <3>1, <3>2, <3>3 DEF InProgress
  <2>4. CASE ReadFeedback(w)
    BY <2>1, <2>2, <2>4 DEF ReadFeedback, Effects
  <2> QED
    BY <1>6, <2>3, <2>4
<1>7. ASSUME NEW w \in Worker, Emit(w) PROVE KeepsTables
  BY <1>7 DEF Emit
<1>8. ASSUME NEW w \in Worker, StorageFails(w) PROVE KeepsTables /\ LeavesLog
  <2>1. /\ tenants' = tenants /\ feedback' = feedback /\ logs' = logs
        /\ acknowledged' = acknowledged /\ lost' = lost \cup ({frames[w].about} \ {None})
        /\ \A v \in Worker \ {w} : frames'[v] = frames[v]
    BY <1>2, <1>8 DEF StorageFails
  <2>2. InProgress \ {None} \subseteq InProgress' \cup lost'
    BY <2>1 DEF InProgress
  <2> QED
    BY <2>1, <2>2 DEF Effects
<1>9. ASSUME NEW c \in Client, BeginReading(c) \/ ReadPage(c) PROVE KeepsTables /\ LeavesLog
  BY <1>9 DEF BeginReading, ReadPage, Effects, InProgress
<1>10. CASE UNCHANGED vars
  BY <1>10 DEF vars, Effects, InProgress
<1> QED
  BY <1>3, <1>4, <1>5, <1>6, <1>7, <1>8, <1>9, <1>10 DEF Next

\* Emit, by what it does to the log.
LEMMA RowAppended ==
  ASSUME TypeOK, NEW w \in Worker, Emit(w)
  PROVE  /\ Len(logs) + 1 \notin DOMAIN logs
         /\ DOMAIN logs' = DOMAIN logs \cup {Len(logs) + 1}
         /\ \A i \in DOMAIN logs : logs'[i] = logs[i]
         /\ logs'[Len(logs) + 1].tenant_id = frames[w].tenant_id
         /\ logs'[Len(logs) + 1].operation = frames[w].operation
         /\ logs'[Len(logs) + 1].about = frames[w].about
<1> DEFINE row == [ tenant_id |-> frames[w].tenant_id, operation |-> frames[w].operation,
                    about |-> frames[w].about ]
<1>1. logs \in Seq(LogRow) /\ logs' = Append(logs, row)
  BY DEF Emit, TypeOK
<1>2. /\ Len(logs) + 1 \notin DOMAIN logs
      /\ DOMAIN logs' = DOMAIN logs \cup {Len(logs) + 1}
      /\ \A i \in DOMAIN logs : logs'[i] = logs[i]
      /\ logs'[Len(logs) + 1] = row
  <2> HIDE DEF row
  <2> QED
    BY <1>1
<1> QED
  BY <1>2

LEMMA AcknowledgedStays ==
  ASSUME LogInv, [Next]_vars
  PROVE  RowsAreAcknowledged'
<1>1. TypeOK /\ RowsAreAcknowledged
  BY DEF LogInv
<1>2. CASE LeavesLog
  BY <1>1, <1>2 DEF LeavesLog, RowsAreAcknowledged
<1>3. ASSUME NEW w \in Worker, Emit(w) PROVE RowsAreAcknowledged'
  <2>1. acknowledged' = acknowledged \cup ({frames[w].about} \ {None})
    BY <1>3 DEF Emit
  <2> QED
    BY <1>1, <1>3, <2>1, RowAppended DEF RowsAreAcknowledged
<1> QED
  BY <1>2, <1>3, EveryStep

LEMMA TruthStays ==
  ASSUME LogInv, [Next]_vars
  PROVE  LogIsTrue'
<1>1. TypeOK /\ LogIsTrue /\ FramesInOrder
  BY DEF LogInv
<1>2. KeepsTables
  BY EveryStep
<1>3. ASSUME NEW i \in DOMAIN logs, logs'[i] = logs[i]
      PROVE  LET row == logs'[i] IN
             CASE row.operation = "twin.tenant.create" ->
                    row.about \in tenants' /\ row.tenant_id = row.about
               [] row.operation = "twin.feedback.submit" ->
                    row.about \in FeedbackId /\ feedback'[row.about] = row.tenant_id
                                             /\ row.tenant_id \in tenants'
               [] OTHER -> row.tenant_id = Anonymous
  <2>1. tenants \subseteq TenantId /\ None \notin TenantId
    BY <1>1, NamesAssumption DEF TypeOK
  <2> QED
    BY <1>1, <1>2, <1>3, <2>1 DEF LogIsTrue, KeepsTables
<1>4. CASE LeavesLog
  BY <1>3, <1>4 DEF LeavesLog, LogIsTrue
<1>5. ASSUME NEW w \in Worker, Emit(w) PROVE LogIsTrue'
  <2> DEFINE n == Len(logs) + 1
  <2>1. feedback' = feedback /\ tenants' = tenants /\ frames[w].at = "append_log" /\ InOrder(w)
    BY <1>1, <1>5 DEF Emit, FramesInOrder
  <2>2. LET row == logs'[n] IN
        CASE row.operation = "twin.tenant.create" ->
               row.about \in tenants' /\ row.tenant_id = row.about
          [] row.operation = "twin.feedback.submit" ->
               row.about \in FeedbackId /\ feedback'[row.about] = row.tenant_id
                                        /\ row.tenant_id \in tenants'
          [] OTHER -> row.tenant_id = Anonymous
    <3>1. /\ logs'[n].operation = frames[w].operation /\ logs'[n].about = frames[w].about
          /\ logs'[n].tenant_id = frames[w].tenant_id
      BY <1>1, <1>5, RowAppended
    <3> HIDE DEF n
    <3> QED
      BY <2>1, <3>1 DEF InOrder
  <2>3. DOMAIN logs' = DOMAIN logs \cup {n} /\ \A i \in DOMAIN logs : logs'[i] = logs[i]
    BY <1>1, <1>5, RowAppended
  <2> HIDE DEF n
  <2> QED
    BY <1>3, <2>2, <2>3 DEF LogIsTrue
<1> QED
  BY <1>4, <1>5, EveryStep

LEMMA EffectsStay ==
  ASSUME LogInv, [Next]_vars
  PROVE  EffectsAreLogged'
<1>1. TypeOK /\ FramesInOrder /\ RowsAreAcknowledged /\ EffectsAreLogged
  BY DEF LogInv
<1>2. None \notin Effects' /\ None \notin Effects
  BY <1>1, TypesStay, NamesAssumption DEF Effects, TypeOK
<1>3. CASE LeavesLog
  <2>1. logs' = logs /\ acknowledged' = acknowledged
    BY <1>3 DEF LeavesLog
  <2>2. \A e : RowsAbout(e)' = RowsAbout(e)
    BY <2>1 DEF RowsAbout
  <2>3. acknowledged' \subseteq Effects'
    BY <1>1, <2>1, EveryStep DEF EffectsAreLogged, Effects, KeepsTables, Emit, TypeOK
  <2>4. ASSUME NEW e \in Effects'
        PROVE  /\ \A i, j \in RowsAbout(e) : i = j
               /\ e \in acknowledged => RowsAbout(e) # {}
               /\ e \notin acknowledged =>
                    RowsAbout(e) = {} /\ e \in InProgress' \cup lost'
    <3>1. CASE e \in Effects
      <4>1. e # None
        BY <1>2
      <4> QED
        BY <1>1, <1>3, <3>1, <4>1 DEF EffectsAreLogged, LeavesLog
    <3>2. CASE e \notin Effects
      <4>1. e \in InProgress' /\ e # None
        BY <1>2, <1>3, <2>4, <3>2 DEF LeavesLog
      <4>2. e \notin acknowledged
        BY <1>1, <3>2 DEF EffectsAreLogged
      <4>3. RowsAbout(e) = {}
        BY <1>1, <4>1, <4>2 DEF RowsAbout, RowsAreAcknowledged
      <4> QED
        BY <4>1, <4>2, <4>3
    <3> QED
      BY <3>1, <3>2
  <2> QED
    BY <2>1, <2>2, <2>3, <2>4 DEF EffectsAreLogged
<1>4. ASSUME NEW w \in Worker, Emit(w) PROVE EffectsAreLogged'
  <2> DEFINE a == frames[w].about
             n == Len(logs) + 1
  <2>1. /\ tenants' = tenants /\ feedback' = feedback /\ lost' = lost
        /\ acknowledged' = acknowledged \cup ({a} \ {None})
        /\ frames[w].at = "append_log" /\ InOrder(w)
        /\ \A v \in Worker \ {w} : frames'[v] = frames[v]
    BY <1>1, <1>4 DEF Emit, FramesInOrder, TypeOK
  <2>2. Effects' = Effects
    BY <2>1 DEF Effects
  <2>3. a # None => a \in Effects /\ a \notin acknowledged
    BY <1>1, <2>1, NamesAssumption DEF InOrder, Effects, TypeOK
  <2>4. /\ n \notin DOMAIN logs /\ DOMAIN logs' = DOMAIN logs \cup {n}
        /\ \A i \in DOMAIN logs : logs'[i] = logs[i]
        /\ logs'[n].about = a
    BY <1>1, <1>4, RowAppended
  <2> HIDE DEF a, n
  <2>5. ASSUME NEW e, e # a PROVE RowsAbout(e)' = RowsAbout(e)
    BY <2>4, <2>5 DEF RowsAbout
  <2>6. ASSUME NEW e, e = a, a # None PROVE RowsAbout(e)' = {n}
    <3>1. \A i \in DOMAIN logs : logs'[i].about # e
      BY <1>1, <2>3, <2>4, <2>6 DEF RowsAreAcknowledged
    <3> QED
      BY <2>4, <2>6, <3>1 DEF RowsAbout
  <2>7. InProgress \ {a} \subseteq InProgress'
    BY <2>1 DEF InProgress, a
  <2>8. ASSUME NEW e \in Effects'
        PROVE  /\ \A i, j \in RowsAbout(e)' : i = j
               /\ e \in acknowledged' => RowsAbout(e)' # {}
               /\ e \notin acknowledged' =>
                    RowsAbout(e)' = {} /\ e \in InProgress' \cup lost'
    <3>1. e # None /\ e \in Effects
      BY <1>2, <2>2
    <3>2. CASE e = a
      <4>1. RowsAbout(e)' = {n} /\ e \in acknowledged'
        BY <2>1, <2>6, <3>1, <3>2
      <4> QED
        BY <4>1
    <3>3. CASE e # a
      BY <1>1, <2>1, <2>5, <2>7, <3>1, <3>3 DEF EffectsAreLogged
    <3> QED
      BY <3>2, <3>3
  <2>9. acknowledged' \subseteq Effects'
    BY <1>1, <2>1, <2>2, <2>3 DEF EffectsAreLogged
  <2> QED
    BY <2>8, <2>9 DEF EffectsAreLogged
<1> QED
  BY <1>3, <1>4, EveryStep
---------------------------------------------------------------------------
(* The readers. *)

ReadersBehind == \A c \in Client : Behind(c)

\* An unfinished reader and a log that has not changed, or has grown by a row.
LEMMA ReadersWait ==
  ASSUME LogInv, clients' = clients, logs' = logs \/ \E w \in Worker : Emit(w), TypeOK'
  PROVE  ReadersBehind'
<1>1. TypeOK /\ ReadersBehind
  BY DEF LogInv, ReadersBehind
<1>2. CASE logs' = logs
  BY <1>1, <1>2 DEF ReadersBehind, Behind, Visible, Rank
<1>3. ASSUME NEW w \in Worker, Emit(w) PROVE ReadersBehind'
  <2> SUFFICES ASSUME NEW c \in Client, clients[c] # None PROVE Behind(c)'
    BY DEF ReadersBehind, Behind
  <2>1. PICK r : r = clients[c] /\ r \in Reader
    BY <1>1 DEF TypeOK
  <2>2. PICK t : t = r.tenant
    OBVIOUS
  <2>3. PICK row : logs' = Append(logs, row)
    BY <1>3 DEF Emit
  <2>4. logs \in Seq(LogRow) /\ logs' \in Seq(LogRow) /\ Len(logs) \in Nat
    BY <1>1 DEF TypeOK
  <2>5. /\ Visible(t) \subseteq Visible(t)'
        /\ \A i \in Visible(t)' : i <= Len(logs) => i \in Visible(t)
        /\ \A i \in Visible(t) :
             Rank(t, i) \in Nat /\ Rank(t, i)' \in Nat /\ Rank(t, i) <= Rank(t, i)'
    BY <2>3, <2>4, RowsArePushedBack
  <2>6. /\ r.seen \subseteq Visible(t) /\ r.upto <= Len(logs)
        /\ \A i \in Visible(t) : i <= r.upto => i \in r.seen \/ (~r.done /\ r.offset < Rank(t, i))
        /\ r.offset \in Nat /\ r.upto \in Nat
    BY <1>1, <2>1, <2>2 DEF ReadersBehind, Behind, Reader
  <2>7. /\ r.seen \subseteq Visible(t)' /\ r.upto <= Len(logs)'
        /\ Visible(t)' \subseteq Int
    <3>1. Len(logs') = Len(logs) + 1 /\ DOMAIN logs' \subseteq Int
      BY <2>3, <2>4
    <3> QED
      BY <2>4, <2>5, <2>6, <3>1 DEF Visible
  <2>8. ASSUME NEW i \in Visible(t)', i <= r.upto
        PROVE  i \in r.seen \/ (~r.done /\ r.offset < Rank(t, i)')
    <3>1. i \in Visible(t)
      BY <2>4, <2>5, <2>6, <2>7, <2>8
    <3> QED
      BY <2>5, <2>6, <2>8, <3>1
  <2>9. clients'[c] = r /\ r # None
    BY <2>1, NoneIsNoPlace
  <2> QED
    BY <2>2, <2>7, <2>8, <2>9 DEF Behind
<1> QED
  BY <1>2, <1>3
\* A reader that begins, or that is given its next page.
LEMMA ReaderSteps ==
  ASSUME LogInv, NEW c \in Client, BeginReading(c) \/ ReadPage(c)
  PROVE  ReadersBehind'
<1>1. TypeOK /\ ReadersBehind /\ logs' = logs /\ logs \in Seq(LogRow)
  BY DEF LogInv, ReadersBehind, TypeOK, BeginReading, ReadPage
<1>2. \A d \in Client \ {c} : Behind(d)'
  <2> SUFFICES ASSUME NEW d \in Client \ {c} PROVE Behind(d)'
    OBVIOUS
  <2>1. clients'[d] = clients[d] /\ Behind(d)
    BY <1>1 DEF BeginReading, ReadPage, TypeOK, ReadersBehind
  <2> QED
    BY <1>1, <2>1 DEF Behind, Visible, Rank
<1>3. CASE BeginReading(c)
  <2>1. PICK t, limit : clients' = [clients EXCEPT ![c] =
          [ tenant |-> t, limit |-> limit, offset |-> 0,
            upto |-> Len(logs), seen |-> {}, done |-> FALSE ]]
    BY <1>3 DEF BeginReading
  <2>2. /\ clients'[c].tenant = t /\ clients'[c].offset = 0 /\ clients'[c].upto = Len(logs)
        /\ clients'[c].seen = {} /\ clients'[c].done = FALSE
    BY <1>1, <2>1 DEF TypeOK
  <2>3. \A i \in Visible(t) : 0 < Rank(t, i)
    BY <1>1, RanksOrder
  <2>4. Visible(t)' = Visible(t)
    BY <1>1 DEF Visible
  <2>5. \A i : Rank(t, i)' = Rank(t, i)
    BY <1>1, <2>4 DEF Rank
  <2>6. Len(logs) <= Len(logs)' /\ Len(logs) \in Nat
    BY <1>1
  <2> QED
    BY <1>2, <2>2, <2>3, <2>4, <2>5, <2>6 DEF ReadersBehind, Behind
<1>4. CASE ReadPage(c)
  <2>1. PICK limit \in Nat \ {0} :
          LET r == clients[c]
              page == Page(r.tenant, limit, r.offset)
          IN  /\ r \in Reader /\ ~r.done
              /\ page \subseteq Visible(r.tenant) /\ Cardinality(page) \in Nat
              /\ clients' = [clients EXCEPT ![c] =
                   [r EXCEPT !.offset = r.offset + limit, !.seen = r.seen \cup page,
                             !.done = Cardinality(page) < limit]]
    BY <1>1, <1>4, PageRead
  <2>2. PICK r, t, page, done :
          /\ r = clients[c] /\ t = r.tenant
          /\ page = Page(t, limit, r.offset) /\ done = (Cardinality(page) < limit)
    OBVIOUS
  <2>3. /\ r \in Reader /\ ~r.done
        /\ page \subseteq Visible(t) /\ Cardinality(page) \in Nat
        /\ clients'[c] = [r EXCEPT !.offset = r.offset + limit, !.seen = r.seen \cup page,
                                   !.done = done]
    BY <1>1, <2>1, <2>2 DEF TypeOK
  <2>4. /\ clients'[c].tenant = t /\ clients'[c].offset = r.offset + limit
        /\ clients'[c].upto = r.upto /\ clients'[c].seen = r.seen \cup page
        /\ clients'[c].done = done
    BY <2>2, <2>3 DEF Reader
  <2>5. /\ r.seen \subseteq Visible(t) /\ r.upto <= Len(logs)
        /\ \A i \in Visible(t) : i <= r.upto => i \in r.seen \/ r.offset < Rank(t, i)
        /\ page \subseteq Visible(t) /\ r.offset \in Nat
    BY <1>1, <2>2, <2>3, NoneIsNoPlace DEF ReadersBehind, Behind, Reader
  <2>6. /\ Visible(t)' = Visible(t) /\ Len(logs)' = Len(logs)
        /\ \A i : Rank(t, i)' = Rank(t, i)
    BY <1>1 DEF Visible, Rank
  <2>7. ASSUME NEW i \in Visible(t), i <= r.upto, i \notin r.seen \cup page
        PROVE  r.offset + limit < Rank(t, i) /\ ~done
    <3>1. r.offset < Rank(t, i) /\ Rank(t, i) \in Nat
      BY <1>1, <2>5, <2>7, RanksOrder
    <3>2. r.offset + limit < Rank(t, i)
      BY <2>2, <2>5, <2>7, <3>1 DEF Page
    <3>3. Cardinality(page) = limit
      <4>1. limit \in Nat /\ r.offset \in Nat /\ logs \in Seq(LogRow)
        BY <1>1, <2>5
      <4>2. PICK offset \in Nat : offset = r.offset
        BY <4>1
      <4>3. Cardinality(Page(t, limit, offset)) = limit
        BY <3>2, <4>1, <4>2, FullPage
      <4> QED
        BY <2>2, <4>2, <4>3
    <3>4. done => Cardinality(page) < limit
      BY <2>2, Zenon
    <3>5. ~(limit < limit)
      OBVIOUS
    <3> QED
      BY <3>2, <3>3, <3>4, <3>5
  <2>8. Behind(c)'
    BY <2>4, <2>5, <2>6, <2>7 DEF Behind
  <2> QED
    BY <1>2, <2>8 DEF ReadersBehind
<1> QED
  BY <1>3, <1>4

LEMMA ReadersStay ==
  ASSUME LogInv, [Next]_vars
  PROVE  ReadersBehind'
<1>1. CASE \E c \in Client : BeginReading(c) \/ ReadPage(c)
  BY <1>1, ReaderSteps
<1>2. CASE clients' = clients /\ (logs' = logs \/ \E w \in Worker : Emit(w))
  BY <1>2, ReadersWait, TypesStay
<1>3. \/ \E c \in Client : BeginReading(c) \/ ReadPage(c)
      \/ clients' = clients /\ (logs' = logs \/ \E w \in Worker : Emit(w))
  BY DEF Next, vars, Crash, BeginCreateTenant, BeginFeedback, InsertFeedback, ReadFeedback,
         UnknownPath, Emit, StorageFails
<1> QED
  BY <1>1, <1>2, <1>3

---------------------------------------------------------------------------
(* The invariant and what it is for. *)

LEMMA LogInitially == Init => LogInv
<1> SUFFICES ASSUME Init PROVE LogInv
  OBVIOUS
<1>1. /\ logs = << >> /\ tenants = Bootstrapped /\ acknowledged = {} /\ lost = {}
      /\ feedback = [f \in FeedbackId |-> None]
      /\ frames = [w \in Worker |-> Idle] /\ clients = [c \in Client |-> None]
  BY DEF Init
<1>2. TypeOK
  BY <1>1, BootstrappedAssumption DEF TypeOK, Frame, Idle
<1>3. FramesInOrder
  BY <1>1, NoneIsNoPlace DEF FramesInOrder, InOrder, Idle, Place
<1>4. DOMAIN logs = {}
  BY <1>1
<1>5. RowsAreAcknowledged /\ LogIsTrue
  BY <1>4 DEF RowsAreAcknowledged, LogIsTrue
<1>6. EffectsAreLogged
  BY <1>1 DEF EffectsAreLogged, Effects
<1>7. \A c \in Client : Behind(c)
  BY <1>1 DEF Behind
<1> QED
  BY <1>1, <1>2, <1>3, <1>5, <1>6, <1>7 DEF LogInv

\* The invariant of the proofs, for any number of threads, tenants and readers.
THEOREM LogInvariant == Spec => []LogInv
<1>1. LogInv /\ [Next]_vars => LogInv'
  <2> SUFFICES ASSUME LogInv, [Next]_vars PROVE LogInv'
    OBVIOUS
  <2>1. Bootstrapped \subseteq tenants'
    BY EveryStep DEF LogInv, KeepsTables
  <2> QED
    BY <2>1, TypesStay, FramesStay, AcknowledgedStays, TruthStays, EffectsStay, ReadersStay
       DEF LogInv, ReadersBehind
<1> QED
  BY <1>1, LogInitially, PTL DEF Spec

\* Every log row names a tenant, or Anonymous for a path nobody was asked to sign in
\* for, and every variable keeps its type.
THEOREM LogTypes == Spec => []TypeOK
<1>1. LogInv => TypeOK
  BY DEF LogInv
<1> QED BY <1>1, LogInvariant, PTL

\* Whoever pages to the end of the log misses no row and sees no other tenant's,
\* whatever is appended between two pages.
THEOREM PagesAreComplete == Spec => []ReadersGetTheirRows
<1>1. LogInv => ReadersGetTheirRows
  <2> SUFFICES ASSUME LogInv, NEW c \in Client, clients[c] # None
               PROVE  LET r == clients[c] IN
                      /\ r.seen \subseteq Visible(r.tenant)
                      /\ r.done => Visible(r.tenant) \cap (1 .. r.upto) \subseteq r.seen
    BY DEF ReadersGetTheirRows
  <2>1. Behind(c) /\ clients[c] \in Reader
    BY DEF LogInv, TypeOK
  <2> QED
    BY <2>1 DEF Behind, Reader
<1> QED
  BY <1>1, LogInvariant, PTL

\* The log claims nothing that is not in the tables.
THEOREM LogNeverLies == Spec => []LogIsTrue
<1>1. LogInv => LogIsTrue
  BY DEF LogInv
<1> QED
  BY <1>1, LogInvariant, PTL

\* What has been acknowledged has its one row; what has none is in progress or failed.
THEOREM LogForgetsNothing == Spec => []EffectsAreLogged
<1>1. LogInv => EffectsAreLogged
  BY DEF LogInv
<1> QED
  BY <1>1, LogInvariant, PTL
=============================================================================
