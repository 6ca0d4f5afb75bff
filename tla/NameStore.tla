----------------------------- MODULE NameStore -----------------------------
(***************************************************************************)
(* What CreateVolume and DeleteVolume promise a caller that serialises its *)
(* calls per name: a store that holds at most one volume under each name.  *)
(* Calls, lost replies, jobs and polls are not visible here; an answer OK  *)
(* tells the truth about the store at the moment it is given.              *)
(***************************************************************************)
CONSTANTS Calls, Names, Ids, NoId

VARIABLES
  store,     \* the volume under each name, or NoId
  used,      \* the IDs that have been handed out
  result     \* what each call was answered: an operation and a volume

storeVars == <<store, used, result>>

Result(op, v) == [op |-> op, id |-> v]

StoreInit ==
  /\ store = [n \in Names |-> NoId]
  /\ used = {}
  /\ result = [c \in Calls |-> Result("none", NoId)]

Held == {store[n] : n \in Names}

\* A volume comes into being under a name that has none, with an ID never seen before.
Appear(n, v) ==
  /\ store[n] = NoId
  /\ v \notin used
  /\ store' = [store EXCEPT ![n] = v]
  /\ used' = used \cup {v}
  /\ UNCHANGED result

\* A volume ceases to be; the name is free again.
Vanish(n) ==
  /\ store[n] # NoId
  /\ store' = [store EXCEPT ![n] = NoId]
  /\ UNCHANGED <<used, result>>

\* CreateVolume answers OK with what the store holds under the name.
AnswerCreated(c, n) ==
  /\ result[c].op = "none"
  /\ store[n] # NoId
  /\ result' = [result EXCEPT ![c] = Result("created", store[n])]
  /\ UNCHANGED <<store, used>>

\* DeleteVolume answers OK once the store does not hold the volume; it was there before, and
\* its ID is not used again.
AnswerDeleted(c, v) ==
  /\ result[c].op = "none"
  /\ v \in used \ Held
  /\ result' = [result EXCEPT ![c] = Result("deleted", v)]
  /\ UNCHANGED <<store, used>>

\* An error promises nothing.
AnswerFailed(c) ==
  /\ result[c].op = "none"
  /\ result' = [result EXCEPT ![c] = Result("failed", NoId)]
  /\ UNCHANGED <<store, used>>

StoreNext ==
  \/ \E n \in Names : Vanish(n) \/ \E v \in Ids : Appear(n, v)
  \/ \E c \in Calls : \/ \E n \in Names : AnswerCreated(c, n)
                      \/ \E v \in Ids : AnswerDeleted(c, v)
                      \/ AnswerFailed(c)

StoreSpec == StoreInit /\ [][StoreNext]_storeVars
=============================================================================
