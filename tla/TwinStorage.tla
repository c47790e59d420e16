---------------------------- MODULE TwinStorage ----------------------------
(***************************************************************************)
(* What the planes are promised by a storage backend (storage.py): a call  *)
(* takes effect on the tables at one moment between its invocation and its *)
(* return, or raises and has none.  The whole service (AoaiTwin) is built  *)
(* on this promise.  A crash forgets calls in progress and no row.         *)
(***************************************************************************)
EXTENDS StorageCalls

VARIABLES db,      \* the tables
          calls    \* the call each thread is making

vars == << db, calls >>

NoCall == [call |-> None, state |-> "idle", answer |-> None]

\* The whole of a call at one moment.
TakesEffect(c, answer) ==
  \/ /\ c.op \in Reads
     /\ answer = Read(c, db)
     /\ UNCHANGED db
  \/ /\ c.op \in Writes /\ ~RowExists(c, db)
     /\ answer = None
     /\ db' = After(c, db)
  \/ /\ c.op = "get_or_create_signing_key" /\ RowExists(c, db)
     /\ answer = Read(c, db)
     /\ UNCHANGED db
  \/ /\ c.op = "get_or_create_signing_key" /\ ~RowExists(c, db)
     /\ answer \in Kid
     /\ db' = InsertSigningKey(db, c.rid, answer)

---------------------------------------------------------------------------

Invoke(t) ==
  /\ calls[t].state = "idle"
  /\ \E c \in Calls :
       calls' = [calls EXCEPT ![t] = [call |-> c, state |-> "pending", answer |-> None]]
  /\ UNCHANGED db

Perform(t) ==
  /\ calls[t].state = "pending"
  /\ \E answer \in Answer :
       /\ TakesEffect(calls[t].call, answer)
       /\ calls' = [calls EXCEPT ![t] = [call |-> calls[t].call, state |-> "done",
                                         answer |-> answer]]

Raise(t) ==
  /\ calls[t].state = "pending"
  /\ calls' = [calls EXCEPT ![t].state = "raised"]
  /\ UNCHANGED db

Return(t) ==
  /\ calls[t].state \in {"done", "raised"}
  /\ calls' = [calls EXCEPT ![t] = NoCall]
  /\ UNCHANGED db

Crash(p) ==
  /\ calls' = [t \in Thread |-> IF t[1] = p THEN NoCall ELSE calls[t]]
  /\ UNCHANGED db

Init ==
  /\ db = EmptyDatabase
  /\ calls = [t \in Thread |-> NoCall]

Next ==
  \/ \E t \in Thread : Invoke(t) \/ Perform(t) \/ Raise(t) \/ Return(t)
  \/ \E p \in Process : Crash(p)

Spec == Init /\ [][Next]_vars
===========================================================================
