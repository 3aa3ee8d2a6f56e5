------------------------------ MODULE Registry ------------------------------
(***************************************************************************)
(* What the HTTP API promises its clients, without a lock or tasks: a      *)
(* request is pending until it is answered or its client leaves, and takes *)
(* effect in one step before it is answered.  Api is shown to implement    *)
(* it.                                                                     *)
(***************************************************************************)
CONSTANTS Client, SessionId, Hash

VARIABLES
  sessions,   \* id -> user_id_hash
  pending,    \* client -> its unanswered request, or Nothing
  done,       \* clients whose pending request has taken effect
  answered    \* the sessions clients were told of

registryVars == <<sessions, pending, done, answered>>

Nothing == [op |-> "none"]
Metrics == [op |-> "metrics"]
Creation(id, hash) ==
  [op |-> "create", session_id |-> id, user_id_hash |-> hash]

Init ==
  /\ sessions = [id \in {} |-> 0]
  /\ pending = [c \in Client |-> Nothing]
  /\ done = {}
  /\ answered = {}

AskMetrics(c) ==
  /\ pending[c] = Nothing
  /\ pending' = [pending EXCEPT ![c] = Metrics]
  /\ UNCHANGED <<sessions, done, answered>>

\* The id is nobody's.
AskCreation(c, id, hash) ==
  /\ pending[c] = Nothing
  /\ id \notin DOMAIN sessions
  /\ \A d \in Client, h \in Hash : pending[d] # Creation(id, h)
  /\ pending' = [pending EXCEPT ![c] = Creation(id, hash)]
  /\ UNCHANGED <<sessions, done, answered>>

\* A session is there for good before its client is told of it.
RecordSession(c, id, hash) ==
  /\ pending[c] = Creation(id, hash) /\ c \notin done
  /\ id \notin DOMAIN sessions
  /\ sessions' = [i \in DOMAIN sessions \cup {id} |->
                    IF i = id THEN hash ELSE sessions[i]]
  /\ done' = done \cup {c}
  /\ UNCHANGED <<pending, answered>>

ReadMetrics(c) ==
  /\ pending[c] = Metrics /\ c \notin done
  /\ done' = done \cup {c}
  /\ UNCHANGED <<sessions, pending, answered>>

AnswerCreation(c, id, hash) ==
  /\ pending[c] = Creation(id, hash) /\ c \in done
  /\ answered' = answered \cup {[session_id |-> id, user_id_hash |-> hash]}
  /\ pending' = [pending EXCEPT ![c] = Nothing]
  /\ done' = done \ {c}
  /\ UNCHANGED sessions

\* Metrics are answered, or the client leaves: what was done stays.
Forget(c) ==
  /\ pending[c] # Nothing
  /\ pending' = [pending EXCEPT ![c] = Nothing]
  /\ done' = done \ {c}
  /\ UNCHANGED <<sessions, answered>>

Next ==
  \E c \in Client :
    \/ AskMetrics(c)
    \/ \E id \in SessionId, hash \in Hash :
         \/ AskCreation(c, id, hash)
         \/ RecordSession(c, id, hash)
         \/ AnswerCreation(c, id, hash)
    \/ ReadMetrics(c)
    \/ Forget(c)

Spec == Init /\ [][Next]_registryVars
=============================================================================
