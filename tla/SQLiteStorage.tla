--------------------------- MODULE SQLiteStorage ---------------------------
(***************************************************************************)
(* storage_sqlite.py: every call opens a connection of its own and closes  *)
(* it in a finally block; a call that writes first takes the storage       *)
(* object's threading.Lock, of which each process has its own.  Between    *)
(* processes there is only SQLite: in WAL mode a reader sees the last      *)
(* commit, the first INSERT or DELETE of a transaction takes the write     *)
(* lock of the database, and a statement that finds it taken raises        *)
(* "database is locked" after the five seconds of the driver's timeout.    *)
(*                                                                         *)
(* create_resource and create_api_key also call get_resource, outside the  *)
(* lock: those are calls of their own here, as they are in AoaiTwin.       *)
(***************************************************************************)
EXTENDS StorageCalls

VARIABLES committed,  \* the tables as of the last commit
          draft,      \* the tables as the open write transaction has left them
          writer,     \* the thread whose transaction that is
          lock,       \* lock[p] is the thread that holds self._lock of process p
          frames      \* the call of each thread and where it is

vars == << committed, draft, writer, lock, frames >>

Idle == [call |-> None, at |-> None, answer |-> None, error |-> None]

\* The deletions of delete_resource, each the place of its own statement.
FirstStatements == {"insert_or_delete", "delete_api_keys"}
Statements ==
  FirstStatements \cup
    { "select", "select_keypair", "delete_deployments", "delete_signing_keys",
      "delete_resources", "commit" }

Errors == {"IntegrityError", "OperationalError"}

ASSUME NoneIsNoPlace ==
  /\ None \notin Statements \cup {"lock", "close", "return"} \cup Errors
  /\ None \notin Thread

Goes(t, f) == frames' = [frames EXCEPT ![t] = f]
To(t, place) == Goes(t, [frames[t] EXCEPT !.at = place])
Raises(t, error) == Goes(t, [frames[t] EXCEPT !.at = "close", !.error = error])

---------------------------------------------------------------------------
(* Reads, and the lock of the writes. *)

Invoke(t) ==
  /\ frames[t] = Idle
  /\ \E c \in Calls :
       Goes(t, [Idle EXCEPT !.call = c,
                            !.at = IF c.op \in Reads THEN "select" ELSE "lock"])
  /\ UNCHANGED << committed, draft, writer, lock >>

Select(t) ==
  /\ frames[t].at = "select"
  /\ Goes(t, [frames[t] EXCEPT !.at = "close",
                               !.answer = Read(frames[t].call, committed)])
  /\ UNCHANGED << committed, draft, writer, lock >>

FirstStatement(c) ==
  CASE c.op = "delete_resource" -> "delete_api_keys"
    [] c.op = "get_or_create_signing_key" -> "select_keypair"
    [] OTHER -> "insert_or_delete"

\* Mutant of Acquire: `with self._lock` is forgotten.
AcquireNothing(t) ==
  /\ frames[t].at = "lock"
  /\ lock' = [lock EXCEPT ![t[1]] = t]
  /\ To(t, FirstStatement(frames[t].call))
  /\ UNCHANGED << committed, draft, writer >>

Acquire(t) ==
  /\ frames[t].at = "lock" /\ lock[t[1]] = None
  /\ lock' = [lock EXCEPT ![t[1]] = t]
  /\ To(t, FirstStatement(frames[t].call))
  /\ UNCHANGED << committed, draft, writer >>

---------------------------------------------------------------------------
(* Transactions. *)

\* get_or_create_signing_key: the SELECT opens no transaction; the generator
\* runs before the INSERT.
SelectKeypair(t) ==
  LET f == frames[t]
      row == Read(f.call, committed)
  IN
  /\ f.at = "select_keypair"
  /\ \/ /\ row # None
        /\ Goes(t, [f EXCEPT !.at = "close", !.answer = row])
     \/ /\ row = None
        /\ \E kid \in Kid :
             Goes(t, [f EXCEPT !.at = "insert_or_delete", !.answer = kid])
  /\ UNCHANGED << committed, draft, writer, lock >>

\* The tables after a call's one INSERT or DELETE.
Written(f) ==
  IF f.call.op = "get_or_create_signing_key"
  THEN InsertSigningKey(committed, f.call.rid, f.answer)
  ELSE After(f.call, committed)

\* Mutant of InsertOrDelete: INSERT OR REPLACE.
ReplaceOrDelete(t) ==
  /\ frames[t].at = "insert_or_delete" /\ writer = None
  /\ writer' = t
  /\ draft' = Written(frames[t])
  /\ To(t, "commit")
  /\ UNCHANGED << committed, lock >>

\* The write lock is taken before the constraints are checked.
InsertOrDelete(t) ==
  LET f == frames[t] IN
  /\ f.at = "insert_or_delete" /\ writer = None
  /\ writer' = t
  /\ \/ /\ RowExists(f.call, committed)
        /\ draft' = committed
        /\ Raises(t, "IntegrityError")
     \/ /\ ~RowExists(f.call, committed)
        /\ draft' = Written(f)
        /\ To(t, "commit")
  /\ UNCHANGED << committed, lock >>

DeleteApiKeys(t) ==
  /\ frames[t].at = "delete_api_keys" /\ writer = None
  /\ writer' = t
  /\ draft' = RemoveApiKeysOf(committed, frames[t].call.rid)
  /\ To(t, "delete_deployments")
  /\ UNCHANGED << committed, lock >>

DeleteDeployments(t) ==
  /\ frames[t].at = "delete_deployments"
  /\ draft' = RemoveDeploymentsOf(draft, frames[t].call.rid)
  /\ To(t, "delete_signing_keys")
  /\ UNCHANGED << committed, writer, lock >>

\* Mutant of DeleteSigningKeys: the first DELETEs are committed on their own.
CommitSigningKeys(t) ==
  /\ frames[t].at = "delete_signing_keys"
  /\ draft' = RemoveSigningKeyOf(draft, frames[t].call.rid)
  /\ committed' = draft'
  /\ To(t, "delete_resources")
  /\ UNCHANGED << writer, lock >>

DeleteSigningKeys(t) ==
  /\ frames[t].at = "delete_signing_keys"
  /\ draft' = RemoveSigningKeyOf(draft, frames[t].call.rid)
  /\ To(t, "delete_resources")
  /\ UNCHANGED << committed, writer, lock >>

DeleteResources(t) ==
  /\ frames[t].at = "delete_resources"
  /\ draft' = RemoveResourceRow(draft, frames[t].call.rid)
  /\ To(t, "commit")
  /\ UNCHANGED << committed, writer, lock >>

Commit(t) ==
  /\ frames[t].at = "commit"
  /\ committed' = draft
  /\ draft' = None /\ writer' = None
  /\ To(t, "close")
  /\ UNCHANGED lock

---------------------------------------------------------------------------
(* Exceptions, and the way out. *)

\* The write lock has not come free in time.
Locked(t) ==
  /\ frames[t].at \in FirstStatements /\ writer # None
  /\ Raises(t, "OperationalError")
  /\ UNCHANGED << committed, draft, writer, lock >>

\* A disk that is full, a file that cannot be opened.
Fails(t) ==
  /\ frames[t].at \in Statements
  /\ Raises(t, "OperationalError")
  /\ UNCHANGED << committed, draft, writer, lock >>

\* Mutant of Close: an exception skips conn.close() and the release of the lock.
CloseUnlessRaised(t) ==
  /\ frames[t].at = "close" /\ frames[t].error = None
  /\ To(t, "return")
  /\ UNCHANGED << committed, draft, writer, lock >>

\* Mutant of Close: the connection is left open, with its transaction.
LeaveOpen(t) ==
  /\ frames[t].at = "close"
  /\ To(t, "return")
  /\ UNCHANGED << committed, draft, writer, lock >>

\* conn.close() rolls back what was not committed.
Close(t) ==
  /\ frames[t].at = "close"
  /\ writer' = IF writer = t THEN None ELSE writer
  /\ draft' = IF writer = t THEN None ELSE draft
  /\ To(t, "return")
  /\ UNCHANGED << committed, lock >>

\* The end of `with self._lock`, if the call took it, and of the call.
Return(t) ==
  /\ frames[t].at = "return"
  /\ lock' = IF lock[t[1]] = t THEN [lock EXCEPT ![t[1]] = None] ELSE lock
  /\ Goes(t, Idle)
  /\ UNCHANGED << committed, draft, writer >>

\* A process dies: its connections are rolled back, its lock and calls are gone.
Crash(p) ==
  LET dead == {p} \X Worker IN
  /\ frames' = [t \in Thread |-> IF t \in dead THEN Idle ELSE frames[t]]
  /\ lock' = [lock EXCEPT ![p] = None]
  /\ writer' = IF writer \in dead THEN None ELSE writer
  /\ draft' = IF writer \in dead THEN None ELSE draft
  /\ UNCHANGED committed

---------------------------------------------------------------------------

Init ==
  /\ committed = EmptyDatabase
  /\ draft = None
  /\ writer = None
  /\ lock = [p \in Process |-> None]
  /\ frames = [t \in Thread |-> Idle]

\* What a thread does once it has been called.
Proceed(t) ==
  \/ Select(t) \/ Acquire(t) \/ SelectKeypair(t) \/ InsertOrDelete(t)
  \/ DeleteApiKeys(t) \/ DeleteDeployments(t) \/ DeleteSigningKeys(t)
  \/ DeleteResources(t) \/ Commit(t) \/ Locked(t) \/ Close(t) \/ Return(t)

Next ==
  \/ \E t \in Thread : Invoke(t) \/ Proceed(t) \/ Fails(t)
  \/ \E p \in Process : Crash(p)

Spec == Init /\ [][Next]_vars

\* A thread inside a call is scheduled again.  Nothing is assumed of the order
\* in which a lock is handed to the threads that wait for it.
FairSpec == Spec /\ \A t \in Thread : WF_vars(Proceed(t))

---------------------------------------------------------------------------
(* Properties. *)

Frame ==
  [ call   : Calls \cup {None},
    at     : Statements \cup {"lock", "close", "return"} \cup {None},
    answer : Answer,
    error  : Errors \cup {None} ]

TypeOK ==
  /\ committed \in Database
  /\ draft \in Database \cup {None}
  /\ writer \in Thread \cup {None}
  /\ lock \in [Process -> Thread \cup {None}]
  /\ frames \in [Thread -> Frame]

Status(f) ==
  IF f.at = None THEN "idle"
  ELSE IF f.error # None THEN "raised"
  ELSE IF f.at \in {"close", "return"} THEN "done"
  ELSE "pending"

\* A call as its caller sees it.
Caller(f) ==
  [ call |-> f.call, state |-> Status(f),
    answer |-> IF Status(f) = "done" THEN f.answer ELSE None ]

Promise ==
  INSTANCE TwinStorage
    WITH db <- committed, calls <- [t \in Thread |-> Caller(frames[t])]

\* The promise of storage.py holds for any number of threads and processes: no
\* call sees or leaves a part of another (the four DELETEs, the SELECT and
\* INSERT of a keypair), one that raises leaves nothing, and a crash loses no
\* row of a call that returned.
KeepsPromise == Promise!Spec

\* The write transaction belongs to a thread that holds its process's lock, so
\* within a process no call ever finds the database locked, and in the whole
\* system at most one write is waiting for a commit.
WriterHoldsLock ==
  /\ writer # None => lock[writer[1]] = writer
  /\ (writer = None) <=> (draft = None)

\* First requests of one process never collide: with the lock held from the
\* SELECT to the INSERT, the INSERT of a keypair finds no row
\* (test_signing_key_race.py:47).
FirstCallersNeverCollide ==
  \A t \in Thread :
    frames[t].at # None /\ frames[t].call.op = "get_or_create_signing_key" =>
      frames[t].error # "IntegrityError"

\* A thread never keeps the lock, whatever raises while it has it.
LockIsReleased ==
  \A t \in Thread : lock[t[1]] = t ~> lock[t[1]] # t

---------------------------------------------------------------------------
(* What the proofs carry from step to step: where a call can be, and what  *)
(* it has, holds and has written by then.                                  *)

Holds(t) == lock[t[1]] = t

\* What the statements executed so far have made of the tables.
Drafted(f) ==
  LET keysGone == RemoveApiKeysOf(committed, f.call.rid)
      deploymentsGone == RemoveDeploymentsOf(keysGone, f.call.rid)
      signingKeyGone == RemoveSigningKeyOf(deploymentsGone, f.call.rid)
  IN
  \/ f.at = "delete_deployments" /\ f.call.op = "delete_resource" /\ draft = keysGone
  \/ f.at = "delete_signing_keys" /\ f.call.op = "delete_resource" /\ draft = deploymentsGone
  \/ f.at = "delete_resources" /\ f.call.op = "delete_resource" /\ draft = signingKeyGone
  \/ f.at = "commit" /\ ~RowExists(f.call, committed) /\ draft = Written(f)

\* A call under the lock, on its way to a commit.
Writing(t) ==
  LET f == frames[t] IN
  /\ f.error = None /\ Holds(t)
  /\ \/ f.call.op \in Writes /\ f.answer = None
     \/ f.call.op = "get_or_create_signing_key" /\ f.answer \in Kid
  /\ \/ f.at = "insert_or_delete" /\ f.call.op # "delete_resource" /\ writer # t
     \/ f.at = "delete_api_keys" /\ f.call.op = "delete_resource" /\ writer # t
     \/ writer = t /\ Drafted(f)

InOrder(t) ==
  LET f == frames[t] IN
  \/ f = Idle /\ writer # t
  \/ /\ f.call \in Calls /\ writer # t
     /\ f.answer = None /\ f.error = None
     /\ \/ f.at = "select" /\ f.call.op \in Reads
        \/ f.at = "lock" /\ f.call.op \notin Reads
        \/ f.at = "select_keypair" /\ f.call.op = "get_or_create_signing_key" /\ Holds(t)
  \/ f.call \in Calls /\ Writing(t)
  \/ /\ f.call \in Calls /\ f.at \in {"close", "return"}
     /\ f.at = "return" \/ f.call.op \in Reads => writer # t
     /\ f.call.op \in Reads \/ Holds(t)

\* At every moment each call has the lock, the transaction, the answer and the
\* draft that the statements it has executed give it, and no other thread has
\* them (storage_sqlite.py: with self._lock, conn.commit, finally conn.close).
StorageInv ==
  /\ TypeOK
  /\ (writer = None) <=> (draft = None)
  /\ \A t \in Thread : InOrder(t)
===========================================================================
