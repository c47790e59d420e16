--------------------------- MODULE AnswerContract ---------------------------
(***************************************************************************)
(* What the inference endpoints promise the client of a request, streamed  *)
(* or not: what it is sent is the answer in the request's history row,     *)
(* from its beginning, without a gap and without a repetition; what it is  *)
(* told is the end comes when it has everything.  An answer is a sequence  *)
(* (of characters, or of embedding vectors).                               *)
(***************************************************************************)
EXTENDS Integers, Sequences

CONSTANTS RequestId, None

VARIABLES
  recorded,   \* the answer in each history row, None before there is one
  delivered,  \* what the client has been sent of it, None before the 200
  finished    \* the requests whose client has been told that this is all

Init ==
  /\ recorded = [r \in RequestId |-> None]
  /\ delivered = [r \in RequestId |-> None]
  /\ finished = {}

\* The answer is recorded before anything of it is sent.
Record(r) ==
  /\ recorded[r] = None
  /\ recorded'[r] # None
  /\ recorded' = [recorded EXCEPT ![r] = recorded'[r]]
  /\ UNCHANGED << delivered, finished >>

Beginning(r, n) == SubSeq(recorded[r], 1, n)

\* A response starts, goes on, or ends; one that is not streamed does all at once.
Deliver(r) ==
  /\ recorded[r] # None
  /\ r \notin finished
  /\ \E m, n \in 0 .. Len(recorded[r]) :
       /\ m <= n
       /\ delivered[r] \in {None, Beginning(r, m)}
       /\ delivered' = [delivered EXCEPT ![r] = Beginning(r, n)]
       /\ \/ finished' = finished
          \/ n = Len(recorded[r]) /\ finished' = finished \cup {r}
  /\ UNCHANGED recorded

Next == \E r \in RequestId : Record(r) \/ Deliver(r)

Spec == Init /\ [][Next]_<< recorded, delivered, finished >>
=============================================================================
