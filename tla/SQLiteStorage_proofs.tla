------------------------ MODULE SQLiteStorage_proofs ------------------------
(***************************************************************************)
(* SQLiteStorage keeps the promise of TwinStorage for any number of        *)
(* processes and threads, and any calls, tenants, resources and keys.      *)
(***************************************************************************)
EXTENDS SQLiteStorage, Tables_proofs

\* What a read returns is an answer, whatever the tables hold.
LEMMA ReadType ==
  ASSUME NEW c \in Calls, NEW d \in Database,
         c.op \in Reads \cup {"get_or_create_signing_key"}
  PROVE  Read(c, d) \in Answer
<1> c \in Call /\ c.rid \in ResourceId /\ c.key \in KeyId /\ c.did \in DeploymentId
  BY CallsAreCalls DEF Call
<1>1. d.resources[c.rid] \in Answer
  BY DEF Database, Answer
<1>2. (IF d.api_keys[c.key] = None THEN None ELSE d.api_keys[c.key].resource_id) \in Answer
  BY DEF Database, ApiKeyRow, Answer
<1>3. KeysOf(d, c.rid) \in Answer
  BY DEF KeysOf, Answer
<1>4. d.deployments[c.rid][c.did] \in Answer /\ d.signing_keys[c.rid] \in Answer
  BY DEF Database, Answer
<1> QED
  BY <1>1, <1>2, <1>3, <1>4 DEF Read, Reads

\* A write keeps the tables well formed.
LEMMA AfterType ==
  ASSUME NEW c \in Calls, NEW d \in Database, c.op \in Writes
  PROVE  After(c, d) \in Database
<1> /\ c \in Call /\ c.rid \in ResourceId /\ c.key \in KeyId /\ c.did \in DeploymentId
    /\ c.model \in Model /\ c.tid \in TenantId \cup {None}
  BY CallsAreCalls DEF Call
<1>1. CASE c.op = "create_resource"
  BY <1>1, InsertResourceType DEF After
<1>2. CASE c.op = "delete_resource"
  BY <1>2, RemoveResourceEffect DEF After
<1>3. CASE c.op = "create_api_key"
  BY <1>3, InsertApiKeyType DEF After
<1>4. CASE c.op = "delete_api_key"
  BY <1>4, RemoveApiKeyType DEF After
<1>5. CASE c.op = "create_deployment"
  BY <1>5, InsertDeploymentType DEF After
<1>6. CASE c.op = "delete_deployment"
  BY <1>6, RemoveDeploymentType DEF After
<1> QED
  BY <1>1, <1>2, <1>3, <1>4, <1>5, <1>6 DEF Writes

\* A step that leaves a thread's frame, its lock and its transaction alone
\* leaves it where it was.
LEMMA OthersInOrder ==
  ASSUME NEW u \in Thread, InOrder(u), frames'[u] = frames[u],
         Holds(u) => Holds(u)',
         writer = u => UNCHANGED << writer, draft, committed >>,
         writer # u => writer' # u
  PROVE  InOrder(u)'
<1>1. Writing(u) => Writing(u)'
  BY DEF Writing, Drafted, Written, Holds
<1> QED
  BY <1>1 DEF InOrder, Holds, Idle

\* So a step of one thread keeps the invariant when it leaves that thread in
\* order, and takes from the others neither the lock nor the transaction.
LEMMA StepOfOne ==
  ASSUME StorageInv, NEW t \in Thread, NEW f \in Frame, Goes(t, f),
         committed' \in Database, draft' \in Database \cup {None},
         writer' \in Thread \cup {None}, lock' \in [Process -> Thread \cup {None}],
         (writer' = None) <=> (draft' = None),
         InOrder(t)',
         \A u \in Thread \ {t} :
           /\ Holds(u) => Holds(u)'
           /\ writer = u => UNCHANGED << writer, draft, committed >>
           /\ writer # u => writer' # u
  PROVE  StorageInv'
<1>1. frames' \in [Thread -> Frame] /\ frames'[t] = f
        /\ \A u \in Thread \ {t} : frames'[u] = frames[u]
  BY DEF Goes, StorageInv, TypeOK
<1>2. ASSUME NEW u \in Thread \ {t} PROVE InOrder(u)'
  <2>1. InOrder(u)
    BY DEF StorageInv
  <2> QED
    BY <1>1, <2>1, OthersInOrder
<1> QED
  BY <1>1, <1>2 DEF StorageInv, TypeOK

\* A thread's frame is a record of its four fields.
LEMMA FrameOf ==
  ASSUME StorageInv, NEW t \in Thread
  PROVE  /\ frames[t] \in Frame
         /\ frames[t].call \in Calls \cup {None}
         /\ frames[t].answer \in Answer
         /\ frames[t].error \in Errors \cup {None}
         /\ InOrder(t)
         /\ committed \in Database /\ draft \in Database \cup {None}
         /\ writer \in Thread \cup {None} /\ lock \in [Process -> Thread \cup {None}]
         /\ (writer = None) <=> (draft = None)
         /\ t[1] \in Process /\ t # None
         /\ \A u \in Thread : u[1] \in Process
BY NoneIsNoPlace DEF StorageInv, TypeOK, Frame, Thread

\* The frame of an idle thread is a frame.
LEMMA IdleIsFrame == Idle \in Frame
BY DEF Idle, Frame, Answer

\* The first step of a call.
LEMMA InvokeKeeps ==
  ASSUME StorageInv, NEW t \in Thread, Invoke(t)
  PROVE  StorageInv'
<1> USE FrameOf
<1>1. PICK c \in Calls :
        Goes(t, [Idle EXCEPT !.call = c, !.at = IF c.op \in Reads THEN "select" ELSE "lock"])
  BY DEF Invoke
<1> DEFINE f == [Idle EXCEPT !.call = c, !.at = IF c.op \in Reads THEN "select" ELSE "lock"]
<1>2. f \in Frame /\ f.call = c /\ f.answer = None /\ f.error = None
        /\ f.at = IF c.op \in Reads THEN "select" ELSE "lock"
  BY DEF Idle, Frame, Answer, Statements, FirstStatements
<1>3. frames'[t] = f
  BY <1>1 DEF Goes, StorageInv, TypeOK
<1>4. writer # t
  BY NoneIsNoPlace DEF InOrder, Invoke, Idle, Writing, Drafted, Statements, FirstStatements
<1>5. InOrder(t)'
  BY <1>2, <1>3, <1>4 DEF InOrder, Invoke
<1>6. UNCHANGED << committed, draft, writer, lock >>
  BY DEF Invoke
<1> HIDE DEF f
<1> QED
  BY <1>1, <1>2, <1>5, <1>6, StepOfOne DEF Holds, f

\* A read outside the lock.
LEMMA SelectKeeps ==
  ASSUME StorageInv, NEW t \in Thread, Select(t)
  PROVE  StorageInv'
<1> USE FrameOf
<1> DEFINE f == [frames[t] EXCEPT !.at = "close",
                                  !.answer = Read(frames[t].call, committed)]
<1>1. frames[t].call \in Calls /\ frames[t].call.op \in Reads /\ writer # t
  BY NoneIsNoPlace DEF InOrder, Select, Idle, Writing, Drafted, Statements, FirstStatements
<1>2. f \in Frame /\ f.call = frames[t].call /\ f.at = "close"
  BY <1>1, ReadType DEF Frame
<1>3. Goes(t, f) /\ frames'[t] = f /\ UNCHANGED << committed, draft, writer, lock >>
  BY DEF Select, Goes, StorageInv, TypeOK
<1> HIDE DEF f
<1>5. InOrder(t)'
  BY <1>1, <1>2, <1>3 DEF InOrder
<1> QED
  BY <1>2, <1>3, <1>5, StepOfOne DEF Holds

\* Taking the lock of the process.
LEMMA AcquireKeeps ==
  ASSUME StorageInv, NEW t \in Thread, Acquire(t)
  PROVE  StorageInv'
<1> USE FrameOf
<1> DEFINE c == frames[t].call
           f == [frames[t] EXCEPT !.at = FirstStatement(c)]
<1>1. /\ c \in Calls /\ c.op \notin Reads /\ writer # t
      /\ frames[t].answer = None /\ frames[t].error = None
  BY NoneIsNoPlace DEF InOrder, Acquire, Idle, Writing, Drafted, Statements, FirstStatements
<1>2. c.op \in Writes \cup {"get_or_create_signing_key"}
  BY <1>1, CallsAreCalls DEF Call
<1>3. /\ f \in Frame /\ f.call = c /\ f.at = FirstStatement(c)
      /\ f.answer = None /\ f.error = None
  BY <1>1 DEF Frame, FirstStatement, Statements, FirstStatements
<1>4. Goes(t, f) /\ frames'[t] = f /\ UNCHANGED << committed, draft, writer >>
  BY DEF Acquire, To, Goes, StorageInv, TypeOK
<1>5. lock' \in [Process -> Thread \cup {None}] /\ Holds(t)'
  BY DEF Acquire, Holds
<1>6. \A u \in Thread : ~Holds(u) \/ Holds(u)'
  BY NoneIsNoPlace DEF Acquire, Holds
<1> HIDE DEF f
<1>7. InOrder(t)'
  BY <1>1, <1>2, <1>3, <1>4, <1>5 DEF InOrder, Writing, FirstStatement, Writes
<1> QED
  BY <1>3, <1>4, <1>5, <1>6, <1>7, StepOfOne

\* Where a call can be, and what it has by then: the definition of InOrder,
\* read from the place.
LEMMA Where ==
  ASSUME StorageInv, NEW t \in Thread
  PROVE  /\ frames[t].at = None => frames[t] = Idle /\ writer # t
         /\ frames[t].at # None => frames[t].call \in Calls
         /\ frames[t].at \in Statements \cup {"lock"} => frames[t].error = None
         /\ frames[t].at \in {"select", "lock", "select_keypair"} =>
              frames[t].answer = None /\ writer # t
         /\ frames[t].at = "select" => frames[t].call.op \in Reads
         /\ frames[t].at = "lock" => frames[t].call.op \notin Reads
         /\ frames[t].at = "select_keypair" =>
              frames[t].call.op = "get_or_create_signing_key" /\ Holds(t)
         /\ frames[t].at \in Statements \ {"select", "select_keypair"} => Writing(t)
         /\ frames[t].at = "return" => writer # t
         /\ frames[t].at = "close" /\ frames[t].call.op \in Reads => writer # t
         /\ frames[t].at \in {"close", "return"} => frames[t].call.op \in Reads \/ Holds(t)
         /\ writer = t => Holds(t)
<1>1. InOrder(t)
  BY DEF StorageInv
<1> QED
  BY <1>1, NoneIsNoPlace DEF InOrder, Writing, Drafted, Idle, Statements, FirstStatements

\* The SELECT of a first request, and the keypair it generates when there is none.
LEMMA SelectKeypairKeeps ==
  ASSUME StorageInv, NEW t \in Thread, SelectKeypair(t)
  PROVE  StorageInv'
<1> USE FrameOf
<1> DEFINE c == frames[t].call
           row == Read(c, committed)
<1>1. /\ c \in Calls /\ c.op = "get_or_create_signing_key" /\ writer # t /\ Holds(t)
      /\ frames[t].error = None
  BY Where, NoneIsNoPlace DEF SelectKeypair, Statements
<1>2. UNCHANGED << committed, draft, writer, lock >>
  BY DEF SelectKeypair
<1>3. CASE row # None /\ Goes(t, [frames[t] EXCEPT !.at = "close", !.answer = row])
  <2> DEFINE f == [frames[t] EXCEPT !.at = "close", !.answer = row]
  <2>1. f \in Frame /\ f.call = c /\ f.at = "close"
    BY <1>1, ReadType DEF Frame
  <2>2. Goes(t, f) /\ frames'[t] = f
    BY <1>3 DEF Goes, StorageInv, TypeOK
  <2> HIDE DEF f
  <2>3. InOrder(t)'
    BY <1>1, <1>2, <2>1, <2>2 DEF InOrder, Holds
  <2> QED
    BY <1>2, <2>1, <2>2, <2>3, StepOfOne DEF Holds
<1>4. ASSUME NEW kid \in Kid,
             Goes(t, [frames[t] EXCEPT !.at = "insert_or_delete", !.answer = kid])
      PROVE  StorageInv'
  <2> DEFINE f == [frames[t] EXCEPT !.at = "insert_or_delete", !.answer = kid]
  <2>1. f \in Frame /\ f.call = c /\ f.at = "insert_or_delete" /\ f.answer = kid
          /\ f.error = None
    BY <1>1 DEF Frame, Answer, Statements, FirstStatements
  <2>2. Goes(t, f) /\ frames'[t] = f
    BY <1>4 DEF Goes, StorageInv, TypeOK
  <2> HIDE DEF f
  <2>3. InOrder(t)'
    BY <1>1, <1>2, <2>1, <2>2 DEF InOrder, Writing, Holds
  <2> QED
    BY <1>2, <2>1, <2>2, <2>3, StepOfOne DEF Holds
<1> QED
  BY <1>3, <1>4 DEF SelectKeypair

\* What the open transaction may have made of the tables is well formed.
LEMMA WrittenType ==
  ASSUME StorageInv, NEW t \in Thread, frames[t].at = "insert_or_delete"
  PROVE  Written(frames[t]) \in Database
<1>1. Writing(t) /\ frames[t].call \in Calls /\ committed \in Database
  BY Where, NoneIsNoPlace DEF Statements, FirstStatements, StorageInv, TypeOK
<1>2. frames[t].call.rid \in ResourceId
  BY <1>1, CallsAreCalls DEF Call
<1> QED
  BY <1>1, <1>2, AfterType, InsertSigningKeyType DEF Writing, Written, Writes

\* The first statement of a transaction that writes one row.
LEMMA InsertOrDeleteKeeps ==
  ASSUME StorageInv, NEW t \in Thread, InsertOrDelete(t)
  PROVE  StorageInv'
<1> USE FrameOf
<1> DEFINE c == frames[t].call
<1>1. /\ Writing(t) /\ c \in Calls /\ Holds(t) /\ frames[t].at = "insert_or_delete"
      /\ c.op # "delete_resource" /\ c.op \notin Reads
      /\ writer = None /\ writer' = t /\ UNCHANGED << committed, lock >>
  BY Where, NoneIsNoPlace
     DEF Writing, Drafted, InsertOrDelete, Statements, FirstStatements, Reads, Writes
<1>2. CASE RowExists(c, committed) /\ draft' = committed /\ Raises(t, "IntegrityError")
  <2> DEFINE f == [frames[t] EXCEPT !.at = "close", !.error = "IntegrityError"]
  <2>1. f \in Frame /\ f.call = c /\ f.at = "close"
    BY DEF Frame, Errors
  <2>2. Goes(t, f) /\ frames'[t] = f
    BY <1>2 DEF Raises, Goes, StorageInv, TypeOK
  <2> HIDE DEF f
  <2>3. InOrder(t)'
    BY <1>1, <2>1, <2>2 DEF InOrder, Holds
  <2>4. draft' \in Database /\ draft' # None
    BY <1>2, NoneIsNoCall
  <2> QED
    BY <1>1, <2>1, <2>2, <2>3, <2>4, StepOfOne DEF Holds
<1>3. CASE ~RowExists(c, committed) /\ draft' = Written(frames[t]) /\ To(t, "commit")
  <2> DEFINE f == [frames[t] EXCEPT !.at = "commit"]
  <2>1. f \in Frame /\ f.call = c /\ f.at = "commit"
          /\ f.answer = frames[t].answer /\ f.error = frames[t].error
    BY DEF Frame, Statements
  <2>2. Goes(t, f) /\ frames'[t] = f
    BY <1>3 DEF To, Goes, StorageInv, TypeOK
  <2>3. draft' = Written(f)
    BY <1>3, <2>1 DEF Written
  <2>4. draft' \in Database /\ draft' # None
    BY <1>1, <1>3, WrittenType, NoneIsNoCall
  <2> HIDE DEF f
  <2>5. Writing(t)'
    BY <1>1, <1>3, <2>1, <2>2, <2>3 DEF Writing, Holds, Drafted, Written
  <2>6. InOrder(t)'
    BY <1>1, <2>1, <2>2, <2>5 DEF InOrder
  <2> QED
    BY <1>1, <2>1, <2>2, <2>4, <2>6, StepOfOne DEF Holds
<1> QED
  BY <1>2, <1>3 DEF InsertOrDelete

\* A DELETE of delete_resource moves on by one statement.
LEMMA DeleteStep ==
  ASSUME StorageInv, NEW t \in Thread, NEW place \in Statements, NEW r \in ResourceId,
         Writing(t), frames[t].call \in Calls, frames[t].call.op = "delete_resource",
         frames[t].call.rid = r,
         writer \in {t, None}, writer' = t, UNCHANGED << committed, lock >>,
         To(t, place), draft' \in Database,
         \/ /\ place = "delete_deployments"
            /\ draft' = RemoveApiKeysOf(committed, r)
         \/ /\ place = "delete_signing_keys"
            /\ draft' = RemoveDeploymentsOf(RemoveApiKeysOf(committed, r), r)
         \/ /\ place = "delete_resources"
            /\ draft' = RemoveSigningKeyOf(RemoveDeploymentsOf(RemoveApiKeysOf(committed, r), r), r)
         \/ /\ place = "commit"
            /\ draft' = RemoveResource(committed, r)
  PROVE  StorageInv'
<1> USE FrameOf
<1> DEFINE f == [frames[t] EXCEPT !.at = place]
<1>1. f \in Frame /\ f.call = frames[t].call /\ f.at = place
        /\ f.answer = frames[t].answer /\ f.error = frames[t].error
  BY DEF Frame
<1>2. Goes(t, f) /\ frames'[t] = f
  BY DEF To, Goes, StorageInv, TypeOK
<1>3. draft' # None
  BY NoneIsNoCall
<1> HIDE DEF f
<1>4. place = "commit" => draft' = After(f.call, committed') /\ ~RowExists(f.call, committed')
  BY <1>1 DEF After, RowExists
<1>5. Drafted(frames[t])'
  BY <1>1, <1>2, <1>4 DEF Drafted, Written
<1>6. Writing(t)'
  BY <1>1, <1>2, <1>5 DEF Writing, Holds
<1>7. InOrder(t)'
  BY <1>1, <1>2, <1>6 DEF InOrder
<1> QED
  BY <1>1, <1>2, <1>3, <1>7, StepOfOne, NoneIsNoPlace DEF Holds

\* The four DELETEs of delete_resource: the first takes the transaction, and
\* the others find what it left.
LEMMA DeleteKeeps ==
  ASSUME StorageInv, NEW t \in Thread,
         DeleteApiKeys(t) \/ DeleteDeployments(t) \/ DeleteSigningKeys(t) \/ DeleteResources(t)
  PROVE  StorageInv'
<1> DEFINE c == frames[t].call
           noKeys == RemoveApiKeysOf(committed, c.rid)
           noDeployments == RemoveDeploymentsOf(noKeys, c.rid)
           noSigningKey == RemoveSigningKeyOf(noDeployments, c.rid)
<1>1. Writing(t) /\ c \in Calls /\ committed \in Database
  BY Where, NoneIsNoPlace
     DEF DeleteApiKeys, DeleteDeployments, DeleteSigningKeys, DeleteResources,
         Statements, FirstStatements, StorageInv, TypeOK
<1>2. c.rid \in ResourceId
  BY <1>1, CallsAreCalls DEF Call
<1>3. /\ noKeys \in Database /\ noDeployments \in Database /\ noSigningKey \in Database
      /\ RemoveResource(committed, c.rid) \in Database
      /\ RemoveResource(committed, c.rid) = RemoveResourceRow(noSigningKey, c.rid)
  BY <1>1, <1>2, RemoveOfType, RemoveResourceEffect DEF RemoveResource
<1> HIDE DEF noKeys, noDeployments, noSigningKey
<1>4. CASE DeleteApiKeys(t)
  <2>1. c.op = "delete_resource"
    BY <1>1, <1>4 DEF Writing, Drafted, DeleteApiKeys
  <2> QED
    BY <1>1, <1>2, <1>3, <1>4, <2>1, DeleteStep
       DEF DeleteApiKeys, noKeys, Statements, FirstStatements
<1>5. CASE DeleteDeployments(t)
  <2>1. c.op = "delete_resource" /\ writer = t /\ draft = noKeys
    BY <1>1, <1>5 DEF Writing, Drafted, DeleteDeployments, noKeys
  <2> QED
    BY <1>1, <1>2, <1>3, <1>5, <2>1, DeleteStep
       DEF DeleteDeployments, noKeys, noDeployments, Statements, FirstStatements
<1>6. CASE DeleteSigningKeys(t)
  <2>1. c.op = "delete_resource" /\ writer = t /\ draft = noDeployments
    BY <1>1, <1>6 DEF Writing, Drafted, DeleteSigningKeys, noKeys, noDeployments
  <2> QED
    BY <1>1, <1>2, <1>3, <1>6, <2>1, DeleteStep
       DEF DeleteSigningKeys, noKeys, noDeployments, noSigningKey, Statements, FirstStatements
<1>7. CASE DeleteResources(t)
  <2>1. c.op = "delete_resource" /\ writer = t /\ draft = noSigningKey
    BY <1>1, <1>7 DEF Writing, Drafted, DeleteResources, noKeys, noDeployments, noSigningKey
  <2> QED
    BY <1>1, <1>2, <1>3, <1>7, <2>1, DeleteStep DEF DeleteResources, Statements, FirstStatements
<1> QED
  BY <1>4, <1>5, <1>6, <1>7

\* A commit ends the transaction and leaves the thread with its lock.
LEMMA CommitKeeps ==
  ASSUME StorageInv, NEW t \in Thread, Commit(t)
  PROVE  StorageInv'
<1> USE FrameOf
<1> DEFINE f == [frames[t] EXCEPT !.at = "close"]
<1>1. /\ Writing(t) /\ frames[t].call \in Calls /\ Holds(t) /\ writer = t
      /\ committed' = draft /\ draft \in Database /\ draft' = None /\ writer' = None
      /\ UNCHANGED lock
  BY Where, NoneIsNoPlace DEF Writing, Drafted, Commit, Statements, FirstStatements
<1>2. f \in Frame /\ f.call = frames[t].call /\ f.at = "close"
  BY DEF Frame
<1>3. Goes(t, f) /\ frames'[t] = f
  BY DEF Commit, To, Goes, StorageInv, TypeOK
<1> HIDE DEF f
<1>4. InOrder(t)'
  BY <1>1, <1>2, <1>3 DEF InOrder, Holds
<1> QED
  BY <1>1, <1>2, <1>3, <1>4, StepOfOne, NoneIsNoPlace DEF Holds

\* An exception keeps lock and transaction until the connection is closed.
LEMMA RaiseKeeps ==
  ASSUME StorageInv, NEW t \in Thread, Locked(t) \/ Fails(t)
  PROVE  StorageInv'
<1> USE FrameOf
<1> DEFINE f == [frames[t] EXCEPT !.at = "close", !.error = "OperationalError"]
<1>1. frames[t].at \in Statements /\ frames[t].call \in Calls
  BY Where, NoneIsNoPlace DEF Locked, Fails, Statements
<1>2. f \in Frame /\ f.call = frames[t].call /\ f.at = "close"
  BY DEF Frame, Errors
<1>3. Goes(t, f) /\ frames'[t] = f /\ UNCHANGED << committed, draft, writer, lock >>
  BY DEF Locked, Fails, Raises, Goes, StorageInv, TypeOK
<1>4. (frames[t].call.op \in Reads => writer # t) /\ (frames[t].call.op \in Reads \/ Holds(t))
  BY <1>1, Where DEF Statements, Writing, Drafted, Reads, Writes
<1> HIDE DEF f
<1>5. InOrder(t)'
  BY <1>1, <1>2, <1>3, <1>4 DEF InOrder, Holds
<1> QED
  BY <1>2, <1>3, <1>5, StepOfOne DEF Holds

\* Closing the connection rolls back what is left of the transaction.
LEMMA CloseKeeps ==
  ASSUME StorageInv, NEW t \in Thread, Close(t)
  PROVE  StorageInv'
<1> USE FrameOf
<1> DEFINE f == [frames[t] EXCEPT !.at = "return"]
<1>1. frames[t].call \in Calls /\ (frames[t].call.op \in Reads \/ Holds(t))
  BY Where, NoneIsNoPlace DEF Close
<1>2. f \in Frame /\ f.call = frames[t].call /\ f.at = "return"
  BY DEF Frame
<1>3. /\ Goes(t, f) /\ frames'[t] = f /\ UNCHANGED << committed, lock >>
      /\ writer' = IF writer = t THEN None ELSE writer
      /\ draft' = IF writer = t THEN None ELSE draft
  BY DEF Close, To, Goes, StorageInv, TypeOK
<1> HIDE DEF f
<1>4. InOrder(t)'
  BY <1>1, <1>2, <1>3 DEF InOrder, Holds
<1> QED
  BY <1>2, <1>3, <1>4, StepOfOne DEF Holds

\* A return releases the lock if the thread has it.
LEMMA ReturnKeeps ==
  ASSUME StorageInv, NEW t \in Thread, Return(t)
  PROVE  StorageInv'
<1> USE FrameOf
<1>1. writer # t
  BY Where DEF Return
<1>2. /\ Goes(t, Idle) /\ frames'[t] = Idle /\ UNCHANGED << committed, draft, writer >>
      /\ lock' \in [Process -> Thread \cup {None}]
      /\ \A u \in Thread \ {t} : Holds(u) => Holds(u)'
  BY DEF Return, Goes, StorageInv, TypeOK, Holds
<1>3. InOrder(t)'
  BY <1>1, <1>2 DEF InOrder, Idle
<1> QED
  BY <1>2, <1>3, IdleIsFrame, StepOfOne

\* A crash takes a process's lock, transaction and calls together.
LEMMA CrashKeeps ==
  ASSUME StorageInv, NEW p \in Process, Crash(p)
  PROVE  StorageInv'
<1> USE FrameOf
<1> DEFINE dead == {p} \X Worker
<1>1. TypeOK' /\ ((writer = None) <=> (draft = None))'
  BY IdleIsFrame, NoneIsNoPlace DEF Crash, StorageInv, TypeOK
<1>2. ASSUME NEW u \in Thread PROVE InOrder(u)'
  <2>1. CASE u \in dead
    BY <2>1 DEF Crash, InOrder, Idle
  <2>2. CASE u \notin dead
    <3>1. frames'[u] = frames[u] /\ u[1] # p /\ u[1] \in Process
      BY <2>2 DEF Crash, Thread
    <3>2. Holds(u) => Holds(u)'
      BY <3>1 DEF Crash, Holds, StorageInv, TypeOK
    <3>3. /\ writer = u => UNCHANGED << writer, draft, committed >>
          /\ writer # u => writer' # u
      BY <2>2, NoneIsNoPlace DEF Crash
    <3>4. InOrder(u)
      BY DEF StorageInv
    <3> QED
      BY <3>1, <3>2, <3>3, <3>4, OthersInOrder
  <2> QED
    BY <2>1, <2>2
<1> QED
  BY <1>1, <1>2 DEF StorageInv

\* StorageInv holds in every state of the storage, for any number of processes
\* and threads: the tables, the transaction and the frames keep their types,
\* and every call is where its lock, its answer and its draft say.
THEOREM StorageInvariant == Spec => []StorageInv
<1>1. Init => StorageInv
  <2> SUFFICES ASSUME Init PROVE StorageInv
    OBVIOUS
  <2>1. committed \in Database
    BY DEF Init, EmptyDatabase, Database
  <2>2. frames \in [Thread -> Frame] /\ lock \in [Process -> Thread \cup {None}]
    BY IdleIsFrame DEF Init
  <2>3. \A t \in Thread : InOrder(t)
    BY NoneIsNoPlace DEF Init, InOrder, Idle
  <2> QED
    BY <2>1, <2>2, <2>3 DEF Init, StorageInv, TypeOK
<1>2. StorageInv /\ [Next]_vars => StorageInv'
  <2> SUFFICES ASSUME StorageInv, [Next]_vars PROVE StorageInv'
    OBVIOUS
  <2>1. CASE UNCHANGED vars
    BY <2>1 DEF vars, StorageInv, TypeOK, InOrder, Holds, Writing, Drafted, Written
  <2>2. ASSUME NEW t \in Thread, Proceed(t) PROVE StorageInv'
    BY <2>2, SelectKeeps, AcquireKeeps, SelectKeypairKeeps, InsertOrDeleteKeeps,
       DeleteKeeps, CommitKeeps, RaiseKeeps, CloseKeeps, ReturnKeeps DEF Proceed
  <2> QED
    BY <2>1, <2>2, InvokeKeeps, RaiseKeeps, CrashKeeps DEF Next
<1> QED
  BY <1>1, <1>2, PTL DEF Spec

\* The open write transaction is always that of a thread that holds the lock
\* of its process (with self._lock around every write), however many processes
\* share the file.
THEOREM WriterAlwaysHoldsLock == Spec => []WriterHoldsLock
<1>1. StorageInv => WriterHoldsLock
  <2> SUFFICES ASSUME StorageInv PROVE WriterHoldsLock
    OBVIOUS
  <2>1. ASSUME writer # None PROVE lock[writer[1]] = writer
    <3>1. writer \in Thread
      BY <2>1, FrameOf DEF StorageInv, TypeOK
    <3>2. Holds(writer)
      BY <3>1, Where
    <3> QED
      BY <3>2 DEF Holds
  <2> QED
    BY <2>1 DEF StorageInv, WriterHoldsLock
<1> QED
  BY <1>1, StorageInvariant, PTL

\* A first request that has selected no keypair finds none when it inserts.
FirstCaller(t) ==
  frames[t].at # None /\ frames[t].call.op = "get_or_create_signing_key" =>
    /\ frames[t].at = "insert_or_delete" => ~RowExists(frames[t].call, committed)
    /\ frames[t].error # "IntegrityError"

\* What a step of a thread changes of its frame.
LEMMA FrameStep ==
  ASSUME StorageInv, NEW t \in Thread
  PROVE  /\ \A place : To(t, place) =>
              /\ frames'[t].at = place
              /\ frames'[t].call = frames[t].call /\ frames'[t].error = frames[t].error
         /\ \A error : Raises(t, error) =>
              /\ frames'[t].at = "close" /\ frames'[t].error = error
              /\ frames'[t].call = frames[t].call
         /\ \A place, answer :
              Goes(t, [frames[t] EXCEPT !.at = place, !.answer = answer]) =>
                /\ frames'[t].at = place
                /\ frames'[t].call = frames[t].call /\ frames'[t].error = frames[t].error
<1>1. frames[t] \in Frame /\ \A f : Goes(t, f) => frames'[t] = f
  BY DEF Goes, StorageInv, TypeOK
<1>2. ASSUME NEW place, To(t, place)
      PROVE  /\ frames'[t].at = place
             /\ frames'[t].call = frames[t].call /\ frames'[t].error = frames[t].error
  BY <1>1, <1>2 DEF Frame, To
<1>3. ASSUME NEW error, Raises(t, error)
      PROVE  /\ frames'[t].at = "close" /\ frames'[t].error = error
             /\ frames'[t].call = frames[t].call
  BY <1>1, <1>3 DEF Frame, Raises
<1>4. ASSUME NEW place, NEW answer,
             Goes(t, [frames[t] EXCEPT !.at = place, !.answer = answer])
      PROVE  /\ frames'[t].at = place
             /\ frames'[t].call = frames[t].call /\ frames'[t].error = frames[t].error
  BY <1>1, <1>4 DEF Frame
<1> QED
  BY <1>2, <1>3, <1>4

\* The thread's own steps keep it so.
LEMMA FirstCallerSteps ==
  ASSUME StorageInv, NEW t \in Thread, FirstCaller(t), Invoke(t) \/ Proceed(t) \/ Fails(t)
  PROVE  FirstCaller(t)'
<1>1. CASE Invoke(t)
  <2>1. PICK c \in Calls :
          frames'[t] = [Idle EXCEPT !.call = c,
                                    !.at = IF c.op \in Reads THEN "select" ELSE "lock"]
    BY <1>1 DEF Invoke, Goes, StorageInv, TypeOK
  <2>2. frames'[t].error = None /\ frames'[t].at # "insert_or_delete"
    BY <2>1 DEF Idle
  <2> QED
    BY <2>2, NoneIsNoPlace DEF FirstCaller, Errors
<1>2. CASE Select(t) \/ Commit(t) \/ Close(t)
  <2>1. frames'[t].error = frames[t].error /\ frames'[t].call = frames[t].call
          /\ frames'[t].at # "insert_or_delete" /\ frames[t].at # None
    <3>1. CASE Select(t)
      BY <3>1, FrameStep, NoneIsNoPlace DEF Select, Statements
    <3>2. CASE Commit(t) \/ Close(t)
      <4>1. /\ frames[t].at \in {"commit", "close"}
            /\ \E place \in {"close", "return"} : To(t, place)
        BY <3>2 DEF Commit, Close
      <4> QED
        BY <4>1, FrameStep, NoneIsNoPlace DEF Statements
    <3> QED
      BY <1>2, <3>1, <3>2
  <2> QED
    BY <2>1 DEF FirstCaller
<1>3. CASE Return(t)
  <2>1. frames'[t].at = None
    BY <1>3 DEF Return, Goes, Idle, StorageInv, TypeOK
  <2> QED
    BY <2>1 DEF FirstCaller
<1>4. CASE Locked(t) \/ Fails(t)
  <2>1. frames'[t].error = "OperationalError" /\ frames'[t].at = "close"
    BY <1>4, FrameStep DEF Locked, Fails
  <2> QED
    BY <2>1 DEF FirstCaller
<1>5. CASE Acquire(t) \/ DeleteApiKeys(t) \/ DeleteDeployments(t)
             \/ DeleteSigningKeys(t) \/ DeleteResources(t)
  <2>1. frames'[t].call = frames[t].call /\ frames'[t].error = frames[t].error
          /\ frames[t].at # None
          /\ \/ frames'[t].at # "insert_or_delete"
             \/ frames[t].call.op # "get_or_create_signing_key"
    <3>1. CASE Acquire(t)
      <4>1. \/ FirstStatement(frames[t].call) # "insert_or_delete"
            \/ frames[t].call.op # "get_or_create_signing_key"
        BY DEF FirstStatement
      <4> QED
        BY <3>1, <4>1, FrameStep, NoneIsNoPlace DEF Acquire
    <3>2. CASE ~Acquire(t)
      <4>1. /\ frames[t].at \in Statements
            /\ \E place \in Statements \ {"insert_or_delete"} : To(t, place)
        BY <1>5, <3>2
           DEF DeleteApiKeys, DeleteDeployments, DeleteSigningKeys, DeleteResources,
               Statements, FirstStatements
      <4> QED
        BY <4>1, FrameStep, NoneIsNoPlace
    <3> QED
      BY <3>1, <3>2
  <2> QED
    BY <2>1 DEF FirstCaller
<1>6. CASE SelectKeypair(t)
  <2>1. frames'[t].call = frames[t].call /\ frames'[t].error = frames[t].error
          /\ frames[t].at # None /\ UNCHANGED committed
          /\ \/ frames'[t].at = "close"
             \/ Read(frames[t].call, committed) = None
    BY <1>6, FrameStep, NoneIsNoPlace DEF SelectKeypair, Statements
  <2> QED
    BY <2>1 DEF FirstCaller, RowExists, Read
<1>7. CASE InsertOrDelete(t)
  <2>1. frames'[t].call = frames[t].call /\ frames[t].at = "insert_or_delete"
          /\ frames'[t].at \in {"commit", "close"}
          /\ \/ RowExists(frames[t].call, committed)
             \/ frames'[t].error = frames[t].error
    BY <1>7, FrameStep DEF InsertOrDelete
  <2> QED
    BY <2>1, NoneIsNoPlace DEF FirstCaller, Statements, FirstStatements
<1> QED
  BY <1>1, <1>2, <1>3, <1>4, <1>5, <1>6, <1>7 DEF Proceed

\* Within one process the lock is held from the SELECT of a keypair to its
\* INSERT (test_signing_key_race.py), so no first request is ever refused by
\* the primary key, whatever the threads and the other calls.
THEOREM FirstCallersOfOneProcess ==
  ASSUME NEW CONSTANT p, Process = {p}
  PROVE  Spec => []FirstCallersNeverCollide
<1> DEFINE Inv == \A t \in Thread : FirstCaller(t)
<1>1. Init => Inv
  BY DEF Init, FirstCaller, Idle
<1>2. StorageInv /\ Inv /\ [Next]_vars => Inv'
  <2> SUFFICES ASSUME StorageInv, Inv, [Next]_vars, NEW t \in Thread
               PROVE  FirstCaller(t)'
    OBVIOUS
  <2>1. FirstCaller(t)
    OBVIOUS
  <2>2. CASE UNCHANGED << committed, frames[t] >>
    BY <2>1, <2>2 DEF FirstCaller
  <2>3. ASSUME NEW u \in Thread, Invoke(u) \/ Proceed(u) \/ Fails(u), u # t
        PROVE  FirstCaller(t)'
    <3>1. frames'[t] = frames[t]
      BY <2>3 DEF Invoke, Proceed, Fails, Select, Acquire, SelectKeypair, InsertOrDelete,
           DeleteApiKeys, DeleteDeployments, DeleteSigningKeys, DeleteResources, Commit,
           Locked, Close, Return, To, Raises, Goes, StorageInv, TypeOK
    <3>2. CASE Commit(u)
      <4>1. Holds(u)
        BY <3>2, Where, NoneIsNoPlace DEF Commit, Writing, Statements, FirstStatements
      <4>2. ~Holds(t)
        BY <4>1, <2>3 DEF Holds, Thread
      <4>3. frames[t].at # "insert_or_delete"
        BY <4>2, Where DEF Writing, Statements, FirstStatements
      <4> QED
        BY <2>1, <3>1, <4>3 DEF FirstCaller
    <3>3. CASE ~Commit(u)
      <4>1. UNCHANGED committed
        BY <2>3, <3>3 DEF Invoke, Proceed, Fails, Select, Acquire, SelectKeypair,
             InsertOrDelete, DeleteApiKeys, DeleteDeployments, DeleteSigningKeys,
             DeleteResources, Locked, Close, Return
      <4> QED
        BY <2>2, <3>1, <4>1
    <3> QED
      BY <3>2, <3>3
  <2>4. ASSUME NEW q \in Process, Crash(q) PROVE FirstCaller(t)'
    <3>1. frames'[t] \in {Idle, frames[t]} /\ UNCHANGED committed
      BY <2>4 DEF Crash
    <3> QED
      BY <2>1, <3>1 DEF FirstCaller, Idle
  <2> QED
    BY <2>1, <2>2, <2>3, <2>4, FirstCallerSteps DEF Next, vars
<1>3. Inv => FirstCallersNeverCollide
  BY DEF FirstCaller, FirstCallersNeverCollide
<1> QED
  BY <1>1, <1>2, <1>3, StorageInvariant, PTL DEF Spec

---------------------------------------------------------------------------
(* The refinement: what each step is to the callers. *)

Calling == [t \in Thread |-> Caller(frames[t])]

\* One thread's frame is one caller's call.
LEMMA CallingStep ==
  ASSUME StorageInv, NEW t \in Thread, NEW f, Goes(t, f)
  PROVE  Calling' = [Calling EXCEPT ![t] = Caller(f)]
BY DEF Calling, Goes, StorageInv, TypeOK, Caller, Status

\* The words of the contract are those of this module.
LEMMA SameWords ==
  /\ Promise!Thread = Thread /\ Promise!Answer = Answer
  /\ Promise!Reads = Reads /\ Promise!Writes = Writes
  /\ Promise!EmptyDatabase = EmptyDatabase
  /\ \A c, d : Promise!Read(c, d) = Read(c, d)
  /\ \A c, d : Promise!RowExists(c, d) <=> RowExists(c, d)
  /\ \A c, d : Promise!After(c, d) = After(c, d)
  /\ \A d, r, kid : Promise!InsertSigningKey(d, r, kid) = InsertSigningKey(d, r, kid)
<1>1. /\ Promise!Thread = Thread /\ Promise!Answer = Answer
      /\ Promise!Reads = Reads /\ Promise!Writes = Writes
      /\ Promise!EmptyDatabase = EmptyDatabase
  BY DEF Promise!Thread, Thread, Promise!Answer, Answer, Promise!Reads, Reads,
         Promise!Writes, Writes, Promise!EmptyDatabase, EmptyDatabase
<1>2. \A d, r : Promise!KeysOf(d, r) = KeysOf(d, r)
  BY DEF Promise!KeysOf, KeysOf
<1>3. \A c, d : Promise!Read(c, d) = Read(c, d)
  BY <1>2 DEF Promise!Read, Read
<1>4. \A c, d : Promise!RowExists(c, d) <=> RowExists(c, d)
  BY DEF Promise!RowExists, RowExists
<1>5. \A d, r : Promise!RemoveResource(d, r) = RemoveResource(d, r)
  BY <1>2 DEF Promise!RemoveResource, RemoveResource, Promise!RemoveApiKeysOf, RemoveApiKeysOf,
         Promise!RemoveDeploymentsOf, RemoveDeploymentsOf, Promise!RemoveSigningKeyOf,
         RemoveSigningKeyOf, Promise!RemoveResourceRow, RemoveResourceRow
<1>6. \A d, r, kid : Promise!InsertSigningKey(d, r, kid) = InsertSigningKey(d, r, kid)
  BY DEF Promise!InsertSigningKey, InsertSigningKey
<1>7. \A c, d : Promise!After(c, d) = After(c, d)
  BY <1>5 DEF Promise!After, After, Promise!InsertResource, InsertResource,
         Promise!InsertApiKey, InsertApiKey, Promise!RemoveApiKey, RemoveApiKey,
         Promise!InsertDeployment, InsertDeployment, Promise!RemoveDeployment, RemoveDeployment
<1> QED
  BY <1>1, <1>3, <1>4, <1>6, <1>7

\* An invocation is one.
LEMMA InvokeIsInvoke ==
  ASSUME StorageInv, NEW t \in Thread, Invoke(t)
  PROVE  Promise!Invoke(t)
<1>1. PICK c \in Calls :
        Goes(t, [Idle EXCEPT !.call = c, !.at = IF c.op \in Reads THEN "select" ELSE "lock"])
  BY DEF Invoke
<1> DEFINE f == [Idle EXCEPT !.call = c, !.at = IF c.op \in Reads THEN "select" ELSE "lock"]
<1>2. Caller(f) = [call |-> c, state |-> "pending", answer |-> None]
  BY NoneIsNoPlace DEF Caller, Status, Idle, Statements, FirstStatements
<1>3. Caller(frames[t]).state = "idle"
  BY DEF Invoke, Caller, Status, Idle
<1> HIDE DEF f
<1>4. Calling' = [Calling EXCEPT ![t] = [call |-> c, state |-> "pending", answer |-> None]]
  BY <1>1, <1>2, CallingStep DEF f
<1>5. Calling[t].state = "idle"
  BY <1>3 DEF Calling
<1> QED
  BY <1>4, <1>5 DEF Promise!Invoke, Invoke, Calling

\* A call that goes from a statement to "close" with an answer takes effect.
LEMMA PerformIsPerform ==
  ASSUME StorageInv, NEW t \in Thread, NEW f, Goes(t, f), NEW answer \in Answer,
         frames[t].at \in Statements,
         f.call = frames[t].call, f.at = "close", f.error = None, f.answer = answer,
         Promise!TakesEffect(frames[t].call, answer)
  PROVE  Promise!Perform(t)
<1>1. frames[t].error = None
  BY Where
<1>2. Caller(frames[t]) = [call |-> frames[t].call, state |-> "pending", answer |-> None]
  BY <1>1, NoneIsNoPlace DEF Caller, Status, Statements, FirstStatements
<1>3. Caller(f) = [call |-> frames[t].call, state |-> "done", answer |-> answer]
  BY NoneIsNoPlace DEF Caller, Status
<1>4. Calling' = [Calling EXCEPT ![t] = Caller(f)]
  BY CallingStep
<1>5. Calling[t] = [call |-> frames[t].call, state |-> "pending", answer |-> None]
  BY <1>2 DEF Calling
<1>6. Calling' = [Calling EXCEPT ![t] = [call |-> Calling[t].call, state |-> "done",
                                         answer |-> answer]]
  BY <1>3, <1>4, <1>5
<1>7. Promise!TakesEffect(Calling[t].call, answer)
  BY <1>5
<1>8. \E a \in Promise!Answer :
        /\ Promise!TakesEffect(Calling[t].call, a)
        /\ Calling' = [Calling EXCEPT ![t] = [call |-> Calling[t].call, state |-> "done",
                                             answer |-> a]]
  BY <1>6, <1>7, SameWords
<1>9. Calling[t].state = "pending"
  BY <1>5
<1> QED
  BY <1>8, <1>9 DEF Promise!Perform, Calling

\* A read takes effect when it selects.
LEMMA SelectIsPerform ==
  ASSUME StorageInv, NEW t \in Thread, Select(t)
  PROVE  Promise!Perform(t)
<1> DEFINE c == frames[t].call
           answer == Read(c, committed)
           f == [frames[t] EXCEPT !.at = "close", !.answer = answer]
<1>1. c \in Calls /\ c.op \in Reads /\ frames[t].error = None /\ frames[t].at \in Statements
  BY Where, NoneIsNoPlace DEF Select, Statements
<1>2. answer \in Answer
  BY <1>1, ReadType DEF StorageInv, TypeOK
<1>3. Promise!TakesEffect(c, answer)
  BY <1>1, SameWords DEF Promise!TakesEffect, Select
<1>4. Goes(t, f) /\ f.call = c /\ f.at = "close" /\ f.error = None /\ f.answer = answer
  BY <1>1, FrameOf DEF Select, Frame
<1> HIDE DEF f, answer
<1> QED
  BY <1>1, <1>2, <1>3, <1>4, PerformIsPerform

\* A first request that finds the keypair takes effect there; one that finds
\* none has not yet done anything.
LEMMA SelectKeypairIsPerform ==
  ASSUME StorageInv, NEW t \in Thread, SelectKeypair(t)
  PROVE  Promise!Perform(t) \/ UNCHANGED << committed, Calling >>
<1> DEFINE c == frames[t].call
           row == Read(c, committed)
<1>1. /\ c \in Calls /\ c.op = "get_or_create_signing_key" /\ frames[t].at \in Statements
      /\ frames[t].error = None /\ frames[t].answer = None
  BY Where, NoneIsNoPlace DEF SelectKeypair, Statements
<1>2. CASE row # None /\ Goes(t, [frames[t] EXCEPT !.at = "close", !.answer = row])
  <2> DEFINE f == [frames[t] EXCEPT !.at = "close", !.answer = row]
  <2>1. row \in Answer
    BY <1>1, ReadType DEF StorageInv, TypeOK
  <2>2. Promise!TakesEffect(c, row)
    BY <1>1, <1>2, SameWords DEF Promise!TakesEffect, SelectKeypair, RowExists, Read
  <2>3. Goes(t, f) /\ f.call = c /\ f.at = "close" /\ f.error = None /\ f.answer = row
    BY <1>1, <1>2, FrameOf DEF Frame
  <2> HIDE DEF f, row
  <2> QED
    BY <1>1, <2>1, <2>2, <2>3, PerformIsPerform
<1>3. ASSUME NEW kid \in Kid,
             Goes(t, [frames[t] EXCEPT !.at = "insert_or_delete", !.answer = kid])
      PROVE  UNCHANGED Calling
  <2> DEFINE f == [frames[t] EXCEPT !.at = "insert_or_delete", !.answer = kid]
  <2>1. Caller(f) = Caller(frames[t])
    BY <1>1, FrameOf, NoneIsNoPlace DEF Caller, Status, Frame, Statements, FirstStatements
  <2> HIDE DEF f
  <2> QED
    BY <1>3, <2>1, CallingStep DEF f, Calling
<1> QED
  BY <1>2, <1>3 DEF SelectKeypair

\* A write takes effect when it commits, all its statements at once.
LEMMA CommitIsPerform ==
  ASSUME StorageInv, NEW t \in Thread, Commit(t)
  PROVE  Promise!Perform(t)
<1> DEFINE c == frames[t].call
           answer == frames[t].answer
           f == [frames[t] EXCEPT !.at = "close"]
<1>1. /\ c \in Calls /\ frames[t].error = None /\ frames[t].at \in Statements
      /\ Writing(t) /\ ~RowExists(c, committed) /\ committed' = Written(frames[t])
  BY Where, NoneIsNoPlace DEF Commit, Statements, FirstStatements, Writing, Drafted
<1>2. answer \in Answer
  BY FrameOf
<1>3. Promise!TakesEffect(c, answer)
  BY <1>1, SameWords DEF Promise!TakesEffect, Writing, Written, Writes
<1>4. Goes(t, f) /\ f.call = c /\ f.at = "close" /\ f.error = None /\ f.answer = answer
  BY <1>1, FrameOf DEF Commit, To, Frame
<1> HIDE DEF f, answer
<1> QED
  BY <1>1, <1>2, <1>3, <1>4, PerformIsPerform

\* An exception leaves the tables and the answer as they were.
LEMMA ExceptionIsRaise ==
  ASSUME StorageInv, NEW t \in Thread, NEW error \in Errors, Raises(t, error),
         frames[t].at \in Statements, UNCHANGED committed
  PROVE  Promise!Raise(t)
<1> DEFINE f == [frames[t] EXCEPT !.at = "close", !.error = error]
<1>1. frames[t].error = None
  BY Where
<1>2. Caller(frames[t]) = [call |-> frames[t].call, state |-> "pending", answer |-> None]
  BY <1>1, NoneIsNoPlace DEF Caller, Status, Statements, FirstStatements
<1>3. Caller(f) = [call |-> frames[t].call, state |-> "raised", answer |-> None]
  BY FrameOf, NoneIsNoPlace DEF Caller, Status, Frame
<1>4. Goes(t, f)
  BY DEF Raises
<1> HIDE DEF f
<1>5. Calling' = [Calling EXCEPT ![t] = Caller(f)]
  BY <1>4, CallingStep
<1>6. Calling[t] = [call |-> frames[t].call, state |-> "pending", answer |-> None]
  BY <1>2 DEF Calling
<1>7. Calling' = [Calling EXCEPT ![t].state = "raised"]
  <2>1. [Calling[t] EXCEPT !.state = "raised"] = Caller(f)
    BY <1>3, <1>6
  <2>2. [Calling EXCEPT ![t].state = "raised"]
          = [Calling EXCEPT ![t] = [Calling[t] EXCEPT !.state = "raised"]]
    BY DEF Calling
  <2> QED
    BY <1>5, <2>1, <2>2
<1> QED
  BY <1>6, <1>7 DEF Promise!Raise, Calling

\* A return is one.
LEMMA ReturnIsReturn ==
  ASSUME StorageInv, NEW t \in Thread, Return(t)
  PROVE  Promise!Return(t)
<1>1. Calling' = [Calling EXCEPT ![t] = Caller(Idle)]
  BY CallingStep DEF Return
<1>2. Caller(Idle) = Promise!NoCall
  BY DEF Caller, Status, Idle, Promise!NoCall
<1>3. Calling[t].state \in {"done", "raised"}
  BY NoneIsNoPlace DEF Return, Calling, Caller, Status
<1> QED
  BY <1>1, <1>2, <1>3 DEF Promise!Return, Return, Calling

\* A crash is one: it takes the calls of the process and no committed row.
LEMMA CrashIsCrash ==
  ASSUME StorageInv, NEW p \in Process, Crash(p)
  PROVE  Promise!Crash(p)
<1>1. Caller(Idle) = Promise!NoCall
  BY DEF Caller, Status, Idle, Promise!NoCall
<1>2. \A t \in Thread : (t \in {p} \X Worker) <=> t[1] = p
  BY DEF Thread
<1>3. Calling' = [t \in Thread |-> IF t[1] = p THEN Promise!NoCall ELSE Calling[t]]
  BY <1>1, <1>2 DEF Crash, Calling
<1> QED
  BY <1>3, SameWords DEF Promise!Crash, Crash, Calling

\* The steps between the first statement and the commit, and closing the
\* connection, are nothing to the callers.
LEMMA OtherStepsAreNothing ==
  ASSUME StorageInv, NEW t \in Thread,
         \/ Acquire(t) \/ DeleteApiKeys(t) \/ DeleteDeployments(t)
         \/ DeleteSigningKeys(t) \/ DeleteResources(t) \/ Close(t)
         \/ InsertOrDelete(t) /\ To(t, "commit")
  PROVE  UNCHANGED << committed, Calling >>
<1>1. UNCHANGED committed
  BY DEF Acquire, DeleteApiKeys, DeleteDeployments, DeleteSigningKeys, DeleteResources,
         Close, InsertOrDelete
<1>2. PICK place \in Statements \cup {"return"} :
        To(t, place) /\ (place = "return" <=> frames[t].at = "close")
  BY DEF Acquire, DeleteApiKeys, DeleteDeployments, DeleteSigningKeys, DeleteResources,
         Close, InsertOrDelete, FirstStatement, Statements, FirstStatements
<1>3. frames[t].at \notin {None, "return"}
  BY NoneIsNoPlace
     DEF Acquire, DeleteApiKeys, DeleteDeployments, DeleteSigningKeys, DeleteResources,
         Close, InsertOrDelete, Statements, FirstStatements
<1> DEFINE f == [frames[t] EXCEPT !.at = place]
<1>4. Caller(f) = Caller(frames[t])
  BY <1>2, <1>3, FrameOf, NoneIsNoPlace
     DEF Caller, Status, Frame, Statements, FirstStatements
<1>5. Goes(t, f)
  BY <1>2 DEF To
<1> HIDE DEF f
<1>6. UNCHANGED Calling
  BY <1>4, <1>5, CallingStep DEF Calling
<1> QED
  BY <1>1, <1>6

\* SQLiteStorage implements the contract of storage.py: every behaviour of its
\* statements, transactions, locks, exceptions and crashes is one of calls that
\* take effect at a single moment or not at all.
THEOREM SQLiteKeepsPromise == Spec => KeepsPromise
<1>1. Init => Promise!Init
  BY NoneIsNoPlace, SameWords DEF Init, Promise!Init, Promise!NoCall, Caller, Status, Idle
<1>2. StorageInv /\ [Next]_vars => [Promise!Next]_(Promise!vars)
  <2> SUFFICES ASSUME StorageInv, [Next]_vars
               PROVE  Promise!Next \/ UNCHANGED << committed, Calling >>
    BY DEF Promise!vars, Calling
  <2>1. CASE UNCHANGED vars
    BY <2>1 DEF vars, Calling, Caller, Status
  <2>2. ASSUME NEW t \in Thread, Invoke(t) \/ Proceed(t) \/ Fails(t)
        PROVE  Promise!Next \/ UNCHANGED << committed, Calling >>
    <3>1. CASE InsertOrDelete(t) /\ ~To(t, "commit")
      BY <3>1, ExceptionIsRaise, SameWords
         DEF InsertOrDelete, Errors, Statements, FirstStatements, Promise!Next
    <3>2. CASE Locked(t) \/ Fails(t)
      BY <3>2, ExceptionIsRaise, SameWords DEF Locked, Fails, Errors, Statements, Promise!Next
    <3>3. CASE Invoke(t) \/ Select(t) \/ SelectKeypair(t) \/ Commit(t) \/ Return(t)
      BY <3>3, InvokeIsInvoke, SelectIsPerform, SelectKeypairIsPerform, CommitIsPerform,
         ReturnIsReturn, SameWords DEF Promise!Next
    <3> QED
      BY <2>2, <3>1, <3>2, <3>3, OtherStepsAreNothing DEF Proceed
  <2> QED
    BY <2>1, <2>2, CrashIsCrash, SameWords DEF Next, Promise!Next
<1> QED
  BY <1>1, <1>2, StorageInvariant, PTL DEF Spec, KeepsPromise, Promise!Spec
=============================================================================
