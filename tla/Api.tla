-------------------------------- MODULE Api --------------------------------
(***************************************************************************)
(* The HTTP API (api/http.rs, api/messages.rs): tasks that handle requests *)
(* concurrently and share ApiState behind a tokio RwLock.                  *)
(*                                                                         *)
(* A request waits for the lock, the only await of a handler.  Once it has *)
(* it, the handler runs to its return without another await, and alone     *)
(* with the map if it writes: the guard is a mutable borrow.  What it      *)
(* returns is sent later, by axum.  A client that goes away drops the task *)
(* wherever it stands: while it waits, when it has been given the lock and *)
(* has not run yet, or with an answer that is lost.  The lock is external: *)
(* tokio's serves its waiters in the order they came, a writer alone,      *)
(* readers together.                                                       *)
(*                                                                         *)
(* Left out are the handlers that touch no shared state: health, whose     *)
(* lock is never taken for writing, the deposit and withdrawal endpoints,  *)
(* which answer 501, and create_session's answer 400 to a hash it cannot   *)
(* decode, which comes before the lock.                                    *)
(***************************************************************************)
EXTENDS Integers, SequencesExt

CONSTANTS
  Client,      \* connections, each with one request at a time
  SessionId,   \* the ids Uuid::new_v4 yields; finite, which bounds sessions
  Hash         \* well-formed user_id_hashes

VARIABLES
  sessions,   \* ApiState::sessions: id -> user_id_hash of the SessionRecord
  request,    \* client -> the request its task handles
  phase,      \* client -> where the task is
  queue,      \* clients waiting for the lock, first come first
  \* history variables
  answered,   \* the CreateSessionResponses sent, with their hashes
  lost        \* those whose client left before they were

apiVars == <<sessions, request, phase, queue, answered, lost>>

Phase == {"idle", "waiting", "granted", "answering"}
Creation == [op : {"create"}, session_id : SessionId, user_id_hash : Hash]
Metrics == [op |-> "metrics"]
Session == [session_id : SessionId, user_id_hash : Hash]

NoSessions == [id \in {} |-> 0]

-----------------------------------------------------------------------------
(* The lock.                                                               *)

Writes(c) == request[c].op = "create"

Holders == { c \in Client : phase[c] = "granted" }

Waiting == { queue[i] : i \in DOMAIN queue }

MayHold(c) ==
  /\ Writes(c) => Holders = {}
  /\ \A d \in Holders : ~Writes(d)

\* Mutant: waiting readers overtake waiting writers.
FirstInLineReadersFirst(c) ==
  c \in Waiting /\ (Writes(c) => \A d \in Waiting : Writes(d))

FirstInLine(c) == queue # << >> /\ c = Head(queue)

Place(c) == CHOOSE i \in DOMAIN queue : queue[i] = c

LeaveQueue(c) ==
  queue' = IF c \in Waiting THEN RemoveAt(queue, Place(c)) ELSE queue

-----------------------------------------------------------------------------
(* The handlers.                                                           *)

\* Mutant: sessions are kept by user.
InsertByUser(map, r) ==
  [ k \in DOMAIN map \cup {r.user_id_hash} |->
      IF k = r.user_id_hash THEN r.user_id_hash ELSE map[k] ]

\* Mutant: a second session of a user replaces the first.
InsertPerUser(map, r) ==
  [ id \in { i \in DOMAIN map : map[i] # r.user_id_hash } \cup {r.session_id} |->
      IF id = r.session_id THEN r.user_id_hash ELSE map[id] ]

InsertSession(map, r) ==
  [ id \in DOMAIN map \cup {r.session_id} |->
      IF id = r.session_id THEN r.user_id_hash ELSE map[id] ]

SessionOf(r) == [session_id |-> r.session_id, user_id_hash |-> r.user_id_hash]

\* The sessions whose answer is the one that c is sent, if it is sent one.
AnswerTo(c) ==
  IF phase[c] = "answering" /\ Writes(c) THEN {SessionOf(request[c])} ELSE {}

\* Uuid::new_v4 does not yield an id that is in use.
Fresh(id) ==
  /\ id \notin DOMAIN sessions
  /\ \A c \in Client : phase[c] # "idle" /\ Writes(c) => request[c].session_id # id

-----------------------------------------------------------------------------
Init ==
  /\ sessions = NoSessions
  /\ request = [c \in Client |-> Metrics]
  /\ phase = [c \in Client |-> "idle"]
  /\ queue = << >>
  /\ answered = {}
  /\ lost = {}

\* A task starts on request r and asks for the lock.
Ask(c, r) ==
  /\ phase[c] = "idle"
  /\ request' = [request EXCEPT ![c] = r]
  /\ phase' = [phase EXCEPT ![c] = "waiting"]
  /\ queue' = Append(queue, c)
  /\ UNCHANGED <<sessions, answered, lost>>

CreateSession(c, id, hash) ==
  /\ Fresh(id)
  /\ Ask(c, [op |-> "create", session_id |-> id, user_id_hash |-> hash])

GetMetrics(c) == Ask(c, Metrics)

\* The lock goes to the first in line.
Grant(c) ==
  /\ FirstInLine(c)
  /\ MayHold(c)
  /\ phase' = [phase EXCEPT ![c] = "granted"]
  /\ LeaveQueue(c)
  /\ UNCHANGED <<sessions, request, answered, lost>>

\* create_session runs on: insert, and the guard is dropped.
InsertCreated(c) ==
  /\ phase[c] = "granted"
  /\ Writes(c)
  /\ sessions' = InsertSession(sessions, request[c])
  /\ phase' = [phase EXCEPT ![c] = "answering"]
  /\ UNCHANGED <<request, queue, answered, lost>>

\* So does metrics: the sum is taken, and the guard is dropped.
SumMetrics(c) ==
  /\ phase[c] = "granted"
  /\ ~Writes(c)
  /\ phase' = [phase EXCEPT ![c] = "answering"]
  /\ UNCHANGED <<sessions, request, queue, answered, lost>>

\* axum writes what the handler returned.
Respond(c) ==
  /\ phase[c] = "answering"
  /\ answered' = answered \cup AnswerTo(c)
  /\ phase' = [phase EXCEPT ![c] = "idle"]
  /\ UNCHANGED <<sessions, request, queue, lost>>

\* The client goes away and the task is dropped, with its place in the queue,
\* the lock it was given or the answer it has.
Disconnect(c) ==
  /\ phase[c] # "idle"
  /\ lost' = lost \cup AnswerTo(c)
  /\ phase' = [phase EXCEPT ![c] = "idle"]
  /\ LeaveQueue(c)
  /\ UNCHANGED <<sessions, request, answered>>

Next ==
  \/ \E c \in Client, id \in SessionId, h \in Hash : CreateSession(c, id, h)
  \/ \E c \in Client : GetMetrics(c)
  \/ \E c \in Client : Grant(c)
  \/ \E c \in Client : InsertCreated(c)
  \/ \E c \in Client : SumMetrics(c)
  \/ \E c \in Client : Respond(c)
  \/ \E c \in Client : Disconnect(c)

\* The lock is handed on when it can be, and the runtime polls a task that
\* was woken, lets it run and writes its answer.  Clients owe nothing.
Fairness ==
  \A c \in Client : /\ WF_apiVars(Grant(c))
                    /\ WF_apiVars(InsertCreated(c) \/ SumMetrics(c))
                    /\ WF_apiVars(Respond(c))

SafetySpec == Init /\ [][Next]_apiVars
Spec == SafetySpec /\ Fairness

-----------------------------------------------------------------------------
(* Properties.                                                             *)

SessionMap(m) == /\ DOMAIN m \subseteq SessionId
                 /\ \A id \in DOMAIN m : m[id] \in Hash

\* Types; the queue holds the waiting tasks, each once.
ApiTypeOK ==
  /\ SessionMap(sessions)
  /\ request \in [Client -> Creation \cup {Metrics}]
  /\ phase \in [Client -> Phase]
  /\ queue \in Seq(Client)
  /\ Waiting = { c \in Client : phase[c] = "waiting" }
  /\ \A i, j \in DOMAIN queue : queue[i] = queue[j] => i = j
  /\ answered \subseteq Session
  /\ lost \subseteq Session

\* The sessions are those whose answer was sent, was lost with its client or is
\* still to be sent, each one of these, with the hash the client sent:
\* concurrent creations overwrite or lose none, a creation whose client went
\* away at the lock leaves none, and one whose client went away later leaves a
\* session nobody was told of (create_session).
SessionsAccounted ==
  LET due == UNION { AnswerTo(c) : c \in Client }
  IN /\ { [session_id |-> id, user_id_hash |-> sessions[id]] :
             id \in DOMAIN sessions } = answered \cup lost \cup due
     /\ answered \cap lost = {}
     /\ due \cap (answered \cup lost) = {}

\* Nothing ever takes a session away or changes whose it is.
SessionsPersist ==
  [][ \A id \in DOMAIN sessions :
        id \in DOMAIN sessions' /\ sessions'[id] = sessions[id] ]_apiVars

\* Every request gets its answer unless its client goes away, however many
\* others keep coming and going: no writer starves behind readers, and a
\* dropped task keeps neither its place in the queue nor the lock.
EveryRequestEnds ==
  \A c \in Client : phase[c] = "waiting" ~> phase[c] = "idle"

\* What a client has asked for and not been answered.
Unanswered ==
  [c \in Client |-> IF phase[c] = "idle" THEN [op |-> "none"] ELSE request[c]]

\* However the tasks interleave at the lock, clients see requests that take
\* effect one at a time, each between being asked and being answered: a session
\* appears in one step, by a request that was pending, with its id and hash, a
\* client is told of it only then, and a request whose task is dropped at the
\* lock leaves no trace (create_session).
Served == INSTANCE Registry
            WITH pending <- Unanswered,
                 done    <- { c \in Client : phase[c] = "answering" }
ApiImplementsRegistry == Served!Spec
=============================================================================
