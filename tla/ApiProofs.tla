------------------------------ MODULE ApiProofs ------------------------------
(***************************************************************************)
(* Proofs about Api, for every number of clients, ids and hashes.          *)
(***************************************************************************)
EXTENDS Api, TLAPS

-----------------------------------------------------------------------------
(* Leaving the queue.                                                      *)

\* Without the element at i the rest keeps its order; nothing is repeated if
\* nothing was.
LEMMA RemoveAtEffect ==
  ASSUME NEW S, NEW s \in Seq(S), NEW i \in DOMAIN s
  PROVE  /\ RemoveAt(s, i) \in Seq(S)
         /\ Len(RemoveAt(s, i)) = Len(s) - 1
         /\ \A j \in 1 .. Len(s) - 1 :
              RemoveAt(s, i)[j] = IF j < i THEN s[j] ELSE s[j + 1]
<1>1. i \in 1 .. Len(s) /\ Len(s) \in Nat
  OBVIOUS
<1> DEFINE a == SubSeq(s, 1, i - 1)
           b == SubSeq(s, i + 1, Len(s))
<1>2. /\ a \in Seq(S) /\ Len(a) = i - 1
      /\ \A j \in 1 .. i - 1 : a[j] = s[j]
  BY <1>1
<1>3. /\ b \in Seq(S) /\ Len(b) = Len(s) - i
      /\ \A j \in 1 .. Len(s) - i : b[j] = s[i + j]
  BY <1>1
<1>4. RemoveAt(s, i) = a \o b
  BY DEF RemoveAt
<1> HIDE DEF a, b
<1>5. /\ a \o b \in Seq(S) /\ Len(a \o b) = Len(a) + Len(b)
      /\ \A j \in 1 .. Len(a) : (a \o b)[j] = a[j]
      /\ \A j \in 1 .. Len(b) : (a \o b)[Len(a) + j] = b[j]
  <2>1. a \in Seq(S) /\ b \in Seq(S)
    BY <1>2, <1>3
  <2>2. /\ a \o b \in Seq(S) /\ Len(a \o b) = Len(a) + Len(b)
        /\ \A j \in 1 .. Len(a) + Len(b) :
             (a \o b)[j] = IF j <= Len(a) THEN a[j] ELSE b[j - Len(a)]
    BY <2>1
  <2>3. Len(a) \in Nat /\ Len(b) \in Nat
    BY <2>1
  <2>4. ASSUME NEW j \in 1 .. Len(b)
        PROVE  (a \o b)[Len(a) + j] = b[j]
    <3>1. Len(a) + j \in 1 .. Len(a) + Len(b) /\ ~(Len(a) + j <= Len(a))
          /\ (Len(a) + j) - Len(a) = j
      BY <2>3
    <3> QED
      BY <2>2, <3>1
  <2> QED
    BY <2>2, <2>3, <2>4
<1>6. ASSUME NEW j \in 1 .. Len(s) - 1
      PROVE  (a \o b)[j] = IF j < i THEN s[j] ELSE s[j + 1]
  <2>1. CASE j < i
    BY <1>1, <1>2, <1>5, <2>1
  <2>2. CASE ~(j < i)
    <3>1. j - (i - 1) \in 1 .. Len(s) - i
      BY <1>1, <2>2
    <3>2. (a \o b)[Len(a) + (j - (i - 1))] = b[j - (i - 1)]
      BY <1>3, <1>5, <3>1
    <3>3. b[j - (i - 1)] = s[i + (j - (i - 1))]
      BY <1>3, <3>1
    <3>4. Len(a) + (j - (i - 1)) = j /\ i + (j - (i - 1)) = j + 1
      BY <1>1, <1>2
    <3> QED
      BY <2>2, <3>2, <3>3, <3>4
  <2> QED
    BY <2>1, <2>2
<1>7. Len(a) + Len(b) = Len(s) - 1
  BY <1>1, <1>2, <1>3
<1> QED
  BY <1>4, <1>5, <1>6, <1>7

QueueOK ==
  /\ queue \in Seq(Client)
  /\ Waiting = { c \in Client : phase[c] = "waiting" }
  /\ \A i, j \in DOMAIN queue : queue[i] = queue[j] => i = j

\* A request that leaves takes nobody else out of the lock's queue.
LEMMA LeaveQueueEffect ==
  ASSUME QueueOK, NEW c \in Client, LeaveQueue(c)
  PROVE  /\ queue' \in Seq(Client)
         /\ Waiting' = Waiting \ {c}
         /\ \A i, j \in DOMAIN queue' : queue'[i] = queue'[j] => i = j
<1>1. CASE c \notin Waiting
  BY <1>1 DEF LeaveQueue, QueueOK, Waiting
<1>2. CASE c \in Waiting
  <2> DEFINE p == Place(c)
  <2>1. p \in DOMAIN queue /\ queue[p] = c
    BY <1>2 DEF Place, Waiting
  <2> HIDE DEF p
  <2>2. /\ queue \in Seq(Client)
        /\ \A i, j \in DOMAIN queue : queue[i] = queue[j] => i = j
        /\ p \in 1 .. Len(queue) /\ Len(queue) \in Nat
        /\ DOMAIN queue = 1 .. Len(queue)
    BY <2>1 DEF QueueOK
  <2>3. queue' = RemoveAt(queue, p)
    BY <1>2 DEF LeaveQueue, p
  <2>4. /\ queue' \in Seq(Client)
        /\ Len(queue') = Len(queue) - 1
        /\ \A j \in 1 .. Len(queue) - 1 :
             queue'[j] = IF j < p THEN queue[j] ELSE queue[j + 1]
    <3>1. /\ RemoveAt(queue, p) \in Seq(Client)
          /\ Len(RemoveAt(queue, p)) = Len(queue) - 1
          /\ \A j \in 1 .. Len(queue) - 1 :
               RemoveAt(queue, p)[j] = IF j < p THEN queue[j] ELSE queue[j + 1]
      <4>1. queue \in Seq(Client) /\ p \in DOMAIN queue
        BY <2>1, <2>2
      <4> QED
        BY <4>1, RemoveAtEffect
    <3> QED
      BY <2>3, <3>1
  <2>5. DOMAIN queue' = 1 .. Len(queue) - 1
    BY <2>2, <2>4
  <2>6. ASSUME NEW i \in DOMAIN queue', NEW j \in DOMAIN queue',
               queue'[i] = queue'[j]
        PROVE  i = j
    <3> DEFINE from(x) == IF x < p THEN x ELSE x + 1
    <3>1. from(i) \in DOMAIN queue /\ from(j) \in DOMAIN queue
      BY <2>2, <2>5
    <3>2. queue'[i] = queue[from(i)] /\ queue'[j] = queue[from(j)]
      BY <2>4, <2>5
    <3>3. from(i) = from(j)
      BY <2>2, <2>6, <3>1, <3>2
    <3> QED
      BY <2>2, <2>5, <3>3
  <2>7. ASSUME NEW d
        PROVE  d \in Waiting' <=> d \in Waiting \ {c}
    <3>1. ASSUME NEW j \in DOMAIN queue'
          PROVE  queue'[j] \in Waiting \ {c}
      <4> DEFINE k == IF j < p THEN j ELSE j + 1
      <4>1. k \in DOMAIN queue /\ k # p
        BY <2>2, <2>5
      <4>2. queue'[j] = queue[k]
        BY <2>4, <2>5
      <4> QED
        BY <2>1, <2>2, <4>1, <4>2 DEF Waiting
    <3>2. ASSUME NEW k \in DOMAIN queue, k # p
          PROVE  queue[k] \in Waiting'
      <4> DEFINE j == IF k < p THEN k ELSE k - 1
      <4>1. j \in DOMAIN queue' /\ (IF j < p THEN j ELSE j + 1) = k
        BY <2>2, <2>5, <3>2
      <4>2. queue'[j] = queue[k]
        BY <2>4, <2>5, <4>1
      <4> QED
        BY <4>1, <4>2 DEF Waiting
    <3> QED
      BY <2>1, <3>1, <3>2 DEF Waiting
  <2> QED
    BY <2>4, <2>6, <2>7
<1> QED
  BY <1>1, <1>2

-----------------------------------------------------------------------------
(* The invariant.                                                          *)

\* The ids of requests under way are different, and unused until the session
\* is inserted.
IdsFresh ==
  \A c \in Client : phase[c] # "idle" /\ Writes(c) =>
    /\ phase[c] # "answering" => request[c].session_id \notin DOMAIN sessions
    /\ \A d \in Client : phase[d] # "idle" /\ Writes(d)
                         /\ request[d].session_id = request[c].session_id => c = d

Recorded == { [session_id |-> id, user_id_hash |-> sessions[id]] :
                id \in DOMAIN sessions }

Due == UNION { AnswerTo(c) : c \in Client }

Accounted ==
  /\ Recorded = answered \cup lost \cup Due
  /\ answered \cap lost = {}
  /\ Due \cap (answered \cup lost) = {}

ApiInv ==
  /\ ApiTypeOK
  /\ IdsFresh
  /\ Accounted

\* Accounted is SessionsAccounted, in parts.
LEMMA AccountedIs == Accounted <=> SessionsAccounted
BY DEF Accounted, SessionsAccounted, Recorded, Due

\* The type invariant holds the queue to be one.
LEMMA QueueTyped == ApiTypeOK => QueueOK
BY DEF ApiTypeOK, QueueOK

\* The server starts inside the invariant.
LEMMA ApiInit == Init => ApiInv
<1> SUFFICES ASSUME Init PROVE ApiInv
  OBVIOUS
<1>1. ApiTypeOK
  <2>1. SessionMap(NoSessions)
    BY DEF SessionMap, NoSessions
  <2>2. Waiting = {} /\ \A c \in Client : phase[c] # "waiting"
    BY DEF Init, Waiting
  <2> QED
    BY <2>1, <2>2 DEF Init, ApiTypeOK, Phase
<1>2. IdsFresh
  BY DEF Init, IdsFresh
<1>3. Accounted
  <2>1. Due = {}
    BY DEF Init, Due, AnswerTo
  <2>2. Recorded = {}
    BY DEF Init, Recorded, NoSessions
  <2> QED
    BY <2>1, <2>2 DEF Init, Accounted
<1> QED
  BY <1>1, <1>2, <1>3 DEF ApiInv

\* The creations whose handler has run and whose answer is still to be sent.
Answers(c) == phase[c] = "answering" /\ request[c].op = "create"

\* Due holds their sessions.
LEMMA DueElements ==
  ASSUME NEW x
  PROVE  /\ x \in Due <=> \E d \in Client : Answers(d) /\ x = SessionOf(request[d])
         /\ x \in Due' <=> \E d \in Client : /\ Answers(d)'
                                             /\ x = SessionOf(request'[d])
<1>1. x \in Due <=> \E d \in Client : Answers(d) /\ x = SessionOf(request[d])
  BY DEF Due, AnswerTo, Writes, Answers
<1>2. x \in Due' <=> \E d \in Client : Answers(d)' /\ x = SessionOf(request'[d])
  BY DEF Due, AnswerTo, Writes, Answers
<1> QED
  BY <1>1, <1>2

\* What is due when one task moves: what was due to the others, and to it.
LEMMA DueOfOne ==
  ASSUME NEW c \in Client,
         \A d \in Client \ {c} : /\ phase'[d] = phase[d]
                                 /\ request'[d] = request[d],
         NEW x
  PROVE  /\ x \in Due <=>
              \/ \E d \in Client \ {c} : Answers(d) /\ x = SessionOf(request[d])
              \/ Answers(c) /\ x = SessionOf(request[c])
         /\ x \in Due' <=>
              \/ \E d \in Client \ {c} : Answers(d) /\ x = SessionOf(request[d])
              \/ Answers(c)' /\ x = SessionOf(request'[c])
BY DueElements DEF Answers

\* A task that does not answer before and after leaves it as it is.
LEMMA DueUnchanged ==
  ASSUME NEW c \in Client,
         \A d \in Client \ {c} : /\ phase'[d] = phase[d]
                                 /\ request'[d] = request[d],
         phase[c] # "answering", phase'[c] # "answering"
  PROVE  Due' = Due
<1>1. ~Answers(c) /\ ~Answers(c)'
  BY DEF Answers
<1>2. \A x : x \in Due' <=> x \in Due
  BY <1>1, DueOfOne
<1> QED
  BY <1>2 DEF Due

\* A request joins the queue; for a creation the id is fresh.
LEMMA AskPreserves ==
  ASSUME ApiInv, NEW c \in Client, NEW r \in Creation \cup {Metrics}, Ask(c, r),
         r.op = "create" => Fresh(r.session_id)
  PROVE  ApiInv'
<1>1. /\ phase[c] = "idle"
      /\ request' = [request EXCEPT ![c] = r]
      /\ phase' = [phase EXCEPT ![c] = "waiting"]
      /\ queue' = Append(queue, c)
      /\ UNCHANGED <<sessions, answered, lost>>
  BY DEF Ask
<1>2. ApiTypeOK /\ phase \in [Client -> Phase]
      /\ request \in [Client -> Creation \cup {Metrics}] /\ queue \in Seq(Client)
  BY DEF ApiInv, ApiTypeOK
<1>3. c \notin Waiting
  BY <1>1, <1>2 DEF ApiTypeOK
<1>4. /\ queue' \in Seq(Client) /\ Len(queue) \in Nat
      /\ DOMAIN queue = 1 .. Len(queue)
      /\ DOMAIN queue' = 1 .. Len(queue) + 1
      /\ \A i \in DOMAIN queue : queue'[i] = queue[i]
      /\ queue'[Len(queue) + 1] = c
  BY <1>1, <1>2
<1>5. Waiting' = Waiting \cup {c}
  BY <1>4 DEF Waiting
<1>6. \A i, j \in DOMAIN queue' : queue'[i] = queue'[j] => i = j
  <2>1. \A i \in DOMAIN queue : queue[i] # c
    BY <1>3 DEF Waiting
  <2>2. \A i, j \in DOMAIN queue : queue[i] = queue[j] => i = j
    BY <1>2 DEF ApiTypeOK
  <2> QED
    BY <1>4, <2>1, <2>2
<1>7. ApiTypeOK'
  <2>1. Waiting' = { d \in Client : phase'[d] = "waiting" }
    BY <1>1, <1>2, <1>5 DEF ApiTypeOK
  <2>2. phase' \in [Client -> Phase]
        /\ request' \in [Client -> Creation \cup {Metrics}]
    BY <1>1, <1>2 DEF Phase
  <2>3. SessionMap(sessions)'
    BY <1>1, <1>2 DEF ApiTypeOK, SessionMap
  <2>4. answered' \subseteq Session /\ lost' \subseteq Session
    BY <1>1, <1>2 DEF ApiTypeOK
  <2> QED
    BY <1>4, <1>6, <2>1, <2>2, <2>3, <2>4 DEF ApiTypeOK
<1>8. /\ request'[c] = r /\ phase'[c] = "waiting"
      /\ \A d \in Client : d # c => /\ request'[d] = request[d]
                                    /\ phase'[d] = phase[d]
  BY <1>1, <1>2
<1>9. IdsFresh'
  BY <1>1, <1>8 DEF ApiInv, IdsFresh, Writes, Fresh
<1>10. Accounted'
  <2>1. Due' = Due
    BY <1>1, <1>8, DueUnchanged
  <2> QED
    BY <1>1, <2>1 DEF ApiInv, Accounted, Recorded
<1> QED
  BY <1>7, <1>9, <1>10 DEF ApiInv

\* A task leaves the queue or the lock, to hold the lock or to be over.
LEMMA LeaveTypes ==
  ASSUME ApiTypeOK, NEW c \in Client, NEW ph \in {"idle", "granted"},
         LeaveQueue(c), phase' = [phase EXCEPT ![c] = ph],
         lost' \subseteq Session,
         UNCHANGED <<sessions, request, answered>>
  PROVE  ApiTypeOK'
<1>1. phase \in [Client -> Phase] /\ QueueOK
  BY QueueTyped DEF ApiTypeOK
<1>2. /\ queue' \in Seq(Client)
      /\ Waiting' = Waiting \ {c}
      /\ \A i, j \in DOMAIN queue' : queue'[i] = queue'[j] => i = j
  BY <1>1, LeaveQueueEffect
<1>3. /\ phase' \in [Client -> Phase] /\ phase'[c] = ph
      /\ \A d \in Client : d # c => phase'[d] = phase[d]
  BY <1>1 DEF Phase
<1>4. Waiting' = { d \in Client : phase'[d] = "waiting" }
  BY <1>2, <1>3 DEF ApiTypeOK
<1>5. SessionMap(sessions)'
  BY DEF ApiTypeOK, SessionMap
<1> QED
  BY <1>2, <1>3, <1>4, <1>5 DEF ApiTypeOK

\* The lock handed on keeps the invariant,
LEMMA GrantPreserves ==
  ASSUME ApiInv, NEW c \in Client, Grant(c)
  PROVE  ApiInv'
<1>1. /\ phase' = [phase EXCEPT ![c] = "granted"]
      /\ LeaveQueue(c)
      /\ UNCHANGED <<sessions, request, answered, lost>>
  BY DEF Grant
<1>2. ApiTypeOK /\ phase \in [Client -> Phase]
  BY DEF ApiInv, ApiTypeOK
<1>3. phase[c] = "waiting"
  <2>1. c \in Waiting
    BY <1>2 DEF Grant, FirstInLine, Waiting, ApiTypeOK
  <2> QED
    BY <1>2, <2>1 DEF ApiTypeOK
<1>4. ApiTypeOK'
  <2>1. lost' \subseteq Session
    BY <1>1, <1>2 DEF ApiTypeOK
  <2> QED
    BY <1>1, <1>2, <2>1, LeaveTypes
<1>5. /\ phase'[c] = "granted"
      /\ \A d \in Client : d # c => phase'[d] = phase[d]
  BY <1>1, <1>2
<1>6. IdsFresh'
  <2>1. \A d \in Client : /\ phase'[d] # "idle" => phase[d] # "idle"
                          /\ phase[d] = "answering" => phase'[d] = "answering"
    BY <1>3, <1>5
  <2>2. IdsFresh
    BY DEF ApiInv
  <2> QED
    BY <1>1, <2>1, <2>2 DEF IdsFresh, Writes
<1>7. Accounted'
  <2>1. Due' = Due
    BY <1>1, <1>3, <1>5, DueUnchanged
  <2> QED
    BY <1>1, <2>1 DEF ApiInv, Accounted, Recorded
<1> QED
  BY <1>4, <1>6, <1>7 DEF ApiInv

\* A creation adds its id, which is new, to the map.
LEMMA InsertionEffect ==
  ASSUME ApiInv, NEW c \in Client, InsertCreated(c)
  PROVE  /\ request[c] \in Creation
         /\ request[c].session_id \notin DOMAIN sessions
         /\ DOMAIN sessions' = DOMAIN sessions \cup {request[c].session_id}
         /\ sessions'[request[c].session_id] = request[c].user_id_hash
         /\ \A id \in DOMAIN sessions : sessions'[id] = sessions[id]
<1>1. phase[c] = "granted" /\ Writes(c)
      /\ sessions' = InsertSession(sessions, request[c])
  BY DEF InsertCreated
<1>2. request[c] \in Creation
  BY <1>1 DEF ApiInv, ApiTypeOK, Writes, Metrics
<1>3. request[c].session_id \notin DOMAIN sessions
  BY <1>1 DEF ApiInv, IdsFresh
<1> QED
  BY <1>1, <1>2, <1>3 DEF InsertSession

\* The phases after a task has let go of the lock.
LEMMA RunPhases ==
  ASSUME ApiTypeOK, NEW c \in Client, phase[c] = "granted",
         phase' = [phase EXCEPT ![c] = "answering"], UNCHANGED queue
  PROVE  /\ phase' \in [Client -> Phase] /\ phase'[c] = "answering"
         /\ \A d \in Client : d # c => phase'[d] = phase[d]
         /\ Waiting' = { d \in Client : phase'[d] = "waiting" }
<1>1. /\ phase' \in [Client -> Phase] /\ phase'[c] = "answering"
      /\ \A d \in Client : d # c => phase'[d] = phase[d]
  BY DEF ApiTypeOK, Phase
<1> QED
  BY <1>1 DEF ApiTypeOK, Waiting

\* so does metrics,
LEMMA MetricsPreserves ==
  ASSUME ApiInv, NEW c \in Client, SumMetrics(c)
  PROVE  ApiInv'
<1>1. /\ phase[c] = "granted" /\ ~Writes(c)
      /\ phase' = [phase EXCEPT ![c] = "answering"]
      /\ UNCHANGED <<sessions, request, queue, answered, lost>>
  BY DEF SumMetrics
<1>2. /\ phase' \in [Client -> Phase] /\ phase'[c] = "answering"
      /\ \A d \in Client : d # c => phase'[d] = phase[d]
      /\ Waiting' = { d \in Client : phase'[d] = "waiting" }
  BY <1>1, RunPhases DEF ApiInv
<1>3. ApiTypeOK'
  BY <1>1, <1>2 DEF ApiInv, ApiTypeOK, SessionMap
<1>4. IdsFresh'
  BY <1>1, <1>2 DEF ApiInv, IdsFresh, Writes
<1>5. Accounted'
  <2>1. ~Answers(c) /\ ~Answers(c)'
    BY <1>1 DEF Answers, Writes
  <2>2. \A x : x \in Due' <=> x \in Due
    BY <1>1, <1>2, <2>1, DueOfOne
  <2>3. Due' = Due
    BY <2>2 DEF Due
  <2> QED
    BY <1>1, <2>3 DEF ApiInv, Accounted, Recorded
<1> QED
  BY <1>3, <1>4, <1>5 DEF ApiInv

\* so does an insertion,
LEMMA InsertPreserves ==
  ASSUME ApiInv, NEW c \in Client, InsertCreated(c)
  PROVE  ApiInv'
<1> DEFINE r == request[c]
           new == SessionOf(r)
<1>1. /\ phase[c] = "granted" /\ Writes(c)
      /\ phase' = [phase EXCEPT ![c] = "answering"]
      /\ UNCHANGED <<request, queue, answered, lost>>
  BY DEF InsertCreated
<1>2. /\ phase' \in [Client -> Phase] /\ phase'[c] = "answering"
      /\ \A d \in Client : d # c => phase'[d] = phase[d]
      /\ Waiting' = { d \in Client : phase'[d] = "waiting" }
  BY <1>1, RunPhases DEF ApiInv
<1>3. /\ r \in Creation
      /\ r.session_id \notin DOMAIN sessions
      /\ DOMAIN sessions' = DOMAIN sessions \cup {r.session_id}
      /\ sessions'[r.session_id] = r.user_id_hash
      /\ \A id \in DOMAIN sessions : sessions'[id] = sessions[id]
  BY InsertionEffect
<1>4. r.session_id \in SessionId /\ r.user_id_hash \in Hash
  BY <1>3 DEF Creation
<1>5. ApiTypeOK'
  <2>1. SessionMap(sessions)'
    BY <1>3, <1>4 DEF ApiInv, ApiTypeOK, SessionMap
  <2>2. /\ request' \in [Client -> Creation \cup {Metrics}]
        /\ queue' \in Seq(Client)
        /\ \A i, j \in DOMAIN queue' : queue'[i] = queue'[j] => i = j
        /\ answered' \subseteq Session /\ lost' \subseteq Session
    BY <1>1 DEF ApiInv, ApiTypeOK
  <2> QED
    BY <1>2, <2>1, <2>2 DEF ApiTypeOK
<1>6. IdsFresh'
  <2> SUFFICES ASSUME NEW d \in Client, phase'[d] # "idle", Writes(d)
               PROVE  /\ phase'[d] # "answering"
                           => request[d].session_id \notin DOMAIN sessions'
                      /\ \A e \in Client :
                           phase'[e] # "idle" /\ Writes(e)
                           /\ request[e].session_id = request[d].session_id
                             => d = e
    BY <1>1 DEF IdsFresh, Writes
  <2>1. \A e \in Client : phase'[e] # "idle" => phase[e] # "idle"
    BY <1>1, <1>2
  <2>2. \A e \in Client : phase[e] # "idle" /\ Writes(e)
          /\ request[e].session_id = request[d].session_id => d = e
    BY <2>1 DEF ApiInv, IdsFresh
  <2>3. ASSUME phase'[d] # "answering"
        PROVE  request[d].session_id \notin DOMAIN sessions'
    <3>1. d # c /\ phase[d] # "answering"
      BY <1>2, <2>3
    <3>2. request[d].session_id \notin DOMAIN sessions
      BY <2>1, <3>1 DEF ApiInv, IdsFresh
    <3>3. request[d].session_id # r.session_id
      BY <1>1, <2>2, <3>1
    <3> QED
      BY <1>3, <3>2, <3>3
  <2> QED
    BY <2>1, <2>2, <2>3
<1>7. Accounted'
  <2>1. ~Answers(c) /\ Answers(c)'
    BY <1>1, <1>2 DEF Answers, Writes
  <2>2. \A x : x \in Due' <=> x \in Due \/ x = new
    BY <1>1, <1>2, <2>1, DueOfOne
  <2>3. new \notin Recorded
    <3>1. new.session_id = r.session_id
      BY DEF SessionOf
    <3>2. \A x \in Recorded : x.session_id \in DOMAIN sessions
      BY DEF Recorded
    <3> QED
      BY <1>3, <3>1, <3>2
  <2>4. Recorded' = Recorded \cup {new}
    <3>1. new = [session_id |-> r.session_id,
                 user_id_hash |-> sessions'[r.session_id]]
      BY <1>3 DEF SessionOf
    <3> QED
      BY <1>3, <3>1 DEF Recorded
  <2> HIDE DEF new
  <2> QED
    BY <1>1, <2>2, <2>3, <2>4 DEF ApiInv, Accounted
<1> QED
  BY <1>5, <1>6, <1>7 DEF ApiInv

\* A task that is over takes with it what was due to it and to nobody else.
LEMMA AnswerTaken ==
  ASSUME ApiInv, NEW c \in Client,
         phase' = [phase EXCEPT ![c] = "idle"], UNCHANGED <<sessions, request>>
  PROVE  /\ Due' = Due \ AnswerTo(c)
         /\ AnswerTo(c) \subseteq Due
         /\ AnswerTo(c) \subseteq Session
         /\ IdsFresh'
<1>1. ApiTypeOK /\ phase \in [Client -> Phase]
  BY DEF ApiInv, ApiTypeOK
<1>2. /\ phase'[c] = "idle"
      /\ \A d \in Client : d # c => phase'[d] = phase[d]
  BY <1>1
<1>3. ~Answers(c)'
  BY <1>2 DEF Answers
<1>4. ASSUME NEW d \in Client \ {c}, Answers(d), Answers(c),
             SessionOf(request[d]) = SessionOf(request[c])
      PROVE  FALSE
  <2>1. request[d].session_id = request[c].session_id
    BY <1>4 DEF SessionOf
  <2> QED
    BY <1>4, <2>1 DEF ApiInv, IdsFresh, Answers, Writes
<1>5. Due' = Due \ AnswerTo(c) /\ AnswerTo(c) \subseteq Due
  <2>1. \A x : x \in AnswerTo(c) <=> Answers(c) /\ x = SessionOf(request[c])
    BY DEF AnswerTo, Answers, Writes
  <2>2. ASSUME NEW x
        PROVE  /\ x \in Due' <=> x \in Due /\ x \notin AnswerTo(c)
               /\ x \in AnswerTo(c) => x \in Due
    <3>1. /\ x \in Due <=>
               \/ \E d \in Client \ {c} : Answers(d) /\ x = SessionOf(request[d])
               \/ Answers(c) /\ x = SessionOf(request[c])
          /\ x \in Due' <=>
               \/ \E d \in Client \ {c} : Answers(d) /\ x = SessionOf(request[d])
               \/ Answers(c)' /\ x = SessionOf(request'[c])
      BY <1>2, DueOfOne
    <3> QED
      BY <1>3, <1>4, <2>1, <3>1
  <2> QED
    BY <2>2
<1>6. AnswerTo(c) \subseteq Session
  <2>1. ASSUME NEW x \in AnswerTo(c)
        PROVE  x \in Session
    <3>1. Writes(c) /\ x = SessionOf(request[c])
      BY DEF AnswerTo
    <3>2. request[c] \in Creation
      BY <1>1, <3>1 DEF ApiTypeOK, Writes, Metrics
    <3> QED
      BY <3>1, <3>2 DEF SessionOf, Session, Creation
  <2> QED
    BY <2>1
<1>7. IdsFresh'
  <2>1. \A d \in Client : phase'[d] # "idle" => d # c /\ phase[d] # "idle"
                                                /\ phase'[d] = phase[d]
    BY <1>2
  <2> QED
    BY <2>1 DEF ApiInv, IdsFresh, Writes
<1> QED
  BY <1>5, <1>6, <1>7

\* so does an answer that is sent,
LEMMA RespondPreserves ==
  ASSUME ApiInv, NEW c \in Client, Respond(c)
  PROVE  ApiInv'
<1>1. /\ phase[c] = "answering"
      /\ phase' = [phase EXCEPT ![c] = "idle"]
      /\ answered' = answered \cup AnswerTo(c)
      /\ UNCHANGED <<sessions, request, queue, lost>>
  BY DEF Respond
<1>2. /\ Due' = Due \ AnswerTo(c)
      /\ AnswerTo(c) \subseteq Due
      /\ AnswerTo(c) \subseteq Session
      /\ IdsFresh'
  BY <1>1, AnswerTaken
<1>3. ApiTypeOK'
  <2>1. /\ phase' \in [Client -> Phase] /\ phase'[c] = "idle"
        /\ \A d \in Client : d # c => phase'[d] = phase[d]
    BY <1>1 DEF ApiInv, ApiTypeOK, Phase
  <2>2. Waiting' = { d \in Client : phase'[d] = "waiting" }
    BY <1>1, <2>1 DEF ApiInv, ApiTypeOK, Waiting
  <2>3. answered' \subseteq Session
    BY <1>1, <1>2 DEF ApiInv, ApiTypeOK
  <2> QED
    BY <1>1, <2>1, <2>2, <2>3 DEF ApiInv, ApiTypeOK, SessionMap
<1>4. Accounted'
  BY <1>1, <1>2 DEF ApiInv, Accounted, Recorded
<1> QED
  BY <1>2, <1>3, <1>4 DEF ApiInv

\* and so does one that is lost with its client.
LEMMA DisconnectPreserves ==
  ASSUME ApiInv, NEW c \in Client, Disconnect(c)
  PROVE  ApiInv'
<1>1. /\ phase' = [phase EXCEPT ![c] = "idle"]
      /\ lost' = lost \cup AnswerTo(c)
      /\ LeaveQueue(c)
      /\ UNCHANGED <<sessions, request, answered>>
  BY DEF Disconnect
<1>2. /\ Due' = Due \ AnswerTo(c)
      /\ AnswerTo(c) \subseteq Due
      /\ AnswerTo(c) \subseteq Session
      /\ IdsFresh'
  BY <1>1, AnswerTaken
<1>3. ApiTypeOK'
  <2>1. lost' \subseteq Session
    BY <1>1, <1>2 DEF ApiInv, ApiTypeOK
  <2> QED
    BY <1>1, <2>1, LeaveTypes DEF ApiInv
<1>4. Accounted'
  BY <1>1, <1>2 DEF ApiInv, Accounted, Recorded
<1> QED
  BY <1>2, <1>3, <1>4 DEF ApiInv

\* Every step keeps the invariant.
LEMMA ApiStep == ApiInv /\ [Next]_apiVars => ApiInv'
<1> SUFFICES ASSUME ApiInv, [Next]_apiVars
             PROVE  ApiInv'
  OBVIOUS
<1>1. ASSUME NEW c \in Client, NEW id \in SessionId, NEW h \in Hash,
             CreateSession(c, id, h)
      PROVE  ApiInv'
  <2> DEFINE r == [op |-> "create", session_id |-> id, user_id_hash |-> h]
  <2>1. r \in Creation /\ r.session_id = id
    BY DEF Creation
  <2> QED
    BY <1>1, <2>1, AskPreserves DEF CreateSession
<1>2. ASSUME NEW c \in Client, GetMetrics(c)
      PROVE  ApiInv'
  <2>1. Metrics.op # "create"
    BY DEF Metrics
  <2> QED
    BY <1>2, <2>1, AskPreserves DEF GetMetrics
<1>3. ASSUME NEW c \in Client, Grant(c)
      PROVE  ApiInv'
  BY <1>3, GrantPreserves
<1>4. ASSUME NEW c \in Client, InsertCreated(c)
      PROVE  ApiInv'
  BY <1>4, InsertPreserves
<1>5. ASSUME NEW c \in Client, SumMetrics(c)
      PROVE  ApiInv'
  BY <1>5, MetricsPreserves
<1>6. ASSUME NEW c \in Client, Respond(c)
      PROVE  ApiInv'
  BY <1>6, RespondPreserves
<1>7. ASSUME NEW c \in Client, Disconnect(c)
      PROVE  ApiInv'
  BY <1>7, DisconnectPreserves
<1>8. CASE UNCHANGED apiVars
  <2>1. UNCHANGED <<sessions, request, phase, queue, answered, lost>>
    BY <1>8 DEF apiVars
  <2>2. ApiTypeOK'
    BY <2>1 DEF ApiInv, ApiTypeOK, SessionMap, Waiting
  <2>3. IdsFresh'
    BY <2>1 DEF ApiInv, IdsFresh, Writes
  <2>4. Accounted'
    BY <2>1 DEF ApiInv, Accounted, Recorded, Due, AnswerTo, Writes
  <2> QED
    BY <2>2, <2>3, <2>4 DEF ApiInv
<1> QED
  BY <1>1, <1>2, <1>3, <1>4, <1>5, <1>6, <1>7, <1>8 DEF Next

\* So every reachable state is inside it.
LEMMA ApiInvHolds == Spec => []ApiInv
BY ApiInit, ApiStep, PTL DEF Spec, SafetySpec

-----------------------------------------------------------------------------
\* Every reachable state of the API is well typed, and its lock's queue holds
\* exactly the tasks that wait, each once.
THEOREM ApiTypeCorrect == Spec => []ApiTypeOK
<1>1. ApiInv => ApiTypeOK
  BY DEF ApiInv
<1> QED
  BY <1>1, ApiInvHolds, PTL

\* However many clients create sessions and go away, the sessions are those
\* whose answer was sent, lost or is due, and no two of these (create_session).
THEOREM SessionsAccountedHolds == Spec => []SessionsAccounted
<1>1. ApiInv => SessionsAccounted
  BY AccountedIs DEF ApiInv
<1> QED
  BY <1>1, ApiInvHolds, PTL

\* No step takes away a session or changes whose it is.
THEOREM SessionsPersistHolds == Spec => SessionsPersist
<1> DEFINE Persist == \A id \in DOMAIN sessions :
                        id \in DOMAIN sessions' /\ sessions'[id] = sessions[id]
<1>1. ApiInv /\ [Next]_apiVars => [Persist]_apiVars
  <2> SUFFICES ASSUME ApiInv, Next
               PROVE  Persist
    OBVIOUS
  <2>1. ASSUME NEW c \in Client, InsertCreated(c)
        PROVE  Persist
    BY <2>1, InsertionEffect
  <2>2. CASE sessions' = sessions
    BY <2>2
  <2> QED
    BY <2>1, <2>2 DEF Next, CreateSession, GetMetrics, Ask, Grant,
                      SumMetrics, Respond, Disconnect
<1> QED
  BY <1>1, ApiInvHolds, PTL DEF Spec, SafetySpec, SessionsPersist

-----------------------------------------------------------------------------
(* The API implements Registry.                                            *)

\* A task that has not been dropped or answered has a request to show.
LEMMA UnansweredOf ==
  ASSUME ApiTypeOK, NEW c \in Client
  PROVE  /\ phase[c] = "idle" => Unanswered[c] = Served!Nothing
         /\ phase[c] # "idle" => /\ Unanswered[c] = request[c]
                                 /\ Unanswered[c] # Served!Nothing
<1>1. request[c] \in Creation \cup {Metrics}
  BY DEF ApiTypeOK
<1>2. request[c].op # "none"
  BY <1>1 DEF Creation, Metrics
<1>3. Served!Nothing.op = "none"
  BY DEF Served!Nothing
<1>4. request[c] # Served!Nothing
  BY <1>2, <1>3
<1> QED
  BY <1>4 DEF Unanswered, Served!Nothing

\* A step that moves one task between idle and busy, and nobody's request,
\* changes what is unanswered for that task alone.
LEMMA UnansweredChange ==
  ASSUME NEW c \in Client, NEW r,
         \A d \in Client \ {c} : /\ phase'[d] = "idle" <=> phase[d] = "idle"
                                 /\ request'[d] = request[d],
         Unanswered'[c] = r
  PROVE  Unanswered' = [Unanswered EXCEPT ![c] = r]
<1>1. \A d \in Client \ {c} : Unanswered'[d] = Unanswered[d]
  BY DEF Unanswered
<1>2. /\ Unanswered = [d \in Client |-> Unanswered[d]]
      /\ Unanswered' = [d \in Client |-> Unanswered'[d]]
  BY DEF Unanswered
<1> QED
  BY <1>1, <1>2

Answering == { c \in Client : phase[c] = "answering" }

\* The server starts where Registry does.
LEMMA RegistryInit == Init => Served!Init
BY DEF Init, NoSessions, Unanswered, Served!Init, Served!Nothing

\* A task that is given the lock has its request still to be answered:
\* Registry sees nothing of the queue.
LEMMA RegistryStutter ==
  ASSUME UNCHANGED <<sessions, request, answered>>,
         \A d \in Client : /\ phase'[d] = "idle" <=> phase[d] = "idle"
                           /\ phase'[d] = "answering" <=> phase[d] = "answering"
  PROVE  UNCHANGED Served!registryVars
<1>1. Unanswered' = Unanswered
  BY DEF Unanswered
<1> QED
  BY <1>1 DEF Served!registryVars

\* A request that arrives becomes pending,
LEMMA RegistryAsk ==
  ASSUME ApiTypeOK, NEW c \in Client, NEW r \in Creation \cup {Metrics}, Ask(c, r)
  PROVE  /\ Unanswered[c] = Served!Nothing
         /\ Unanswered' = [Unanswered EXCEPT ![c] = r]
         /\ Answering' = Answering
         /\ UNCHANGED <<sessions, answered>>
<1>1. /\ phase[c] = "idle"
      /\ phase' = [phase EXCEPT ![c] = "waiting"]
      /\ request' = [request EXCEPT ![c] = r]
      /\ UNCHANGED <<sessions, answered>>
  BY DEF Ask
<1>2. DOMAIN phase = Client /\ DOMAIN request = Client
  BY DEF ApiTypeOK
<1>3. /\ phase'[c] = "waiting" /\ request'[c] = r
      /\ \A d \in Client \ {c} : phase'[d] = phase[d] /\ request'[d] = request[d]
  BY <1>1, <1>2
<1>4. Unanswered'[c] = r
  BY <1>3 DEF Unanswered
<1>5. Unanswered' = [Unanswered EXCEPT ![c] = r]
  BY <1>3, <1>4, UnansweredChange
<1>6. Answering' = Answering
  BY <1>1, <1>3 DEF Answering
<1> QED
  BY <1>1, <1>5, <1>6, UnansweredOf

\* with an id that nobody has, if it is a creation;
LEMMA RegistryAskCreation ==
  ASSUME ApiTypeOK, NEW c \in Client, NEW id \in SessionId, NEW hash \in Hash,
         CreateSession(c, id, hash)
  PROVE  Served!AskCreation(c, id, hash)
<1> DEFINE r == [op |-> "create", session_id |-> id, user_id_hash |-> hash]
<1>1. Fresh(id) /\ Ask(c, r)
  BY DEF CreateSession
<1>2. r \in Creation
  BY DEF Creation
<1>3. /\ Unanswered[c] = Served!Nothing
      /\ Unanswered' = [Unanswered EXCEPT ![c] = r]
      /\ Answering' = Answering
      /\ UNCHANGED <<sessions, answered>>
  BY <1>1, <1>2, RegistryAsk
<1>4. id \notin DOMAIN sessions
  BY <1>1 DEF Fresh
<1>5. ASSUME NEW d \in Client, NEW h \in Hash,
             Unanswered[d] = Served!Creation(id, h)
      PROVE  FALSE
  <2>1. Unanswered[d].op = "create" /\ Unanswered[d].session_id = id
    BY <1>5 DEF Served!Creation
  <2>2. phase[d] # "idle"
    <3>1. Served!Nothing.op = "none"
      BY DEF Served!Nothing
    <3> QED
      BY <2>1, <3>1, UnansweredOf
  <2>3. Writes(d) /\ request[d].session_id = id
    BY <2>1, <2>2, UnansweredOf DEF Writes
  <2> QED
    BY <1>1, <2>2, <2>3 DEF Fresh
<1> QED
  BY <1>3, <1>4, <1>5 DEF Served!AskCreation, Served!Creation, Answering

\* a handler that runs makes its request take effect,
LEMMA RegistryRun ==
  ASSUME ApiTypeOK, NEW c \in Client, phase[c] = "granted",
         phase' = [phase EXCEPT ![c] = "answering"], UNCHANGED request
  PROVE  /\ Unanswered' = Unanswered
         /\ Unanswered[c] = request[c]
         /\ c \notin Answering
         /\ Answering' = Answering \cup {c}
<1>1. phase'[c] = "answering" /\ \A d \in Client \ {c} : phase'[d] = phase[d]
  BY DEF ApiTypeOK
<1> QED
  BY <1>1, UnansweredOf DEF Unanswered, Answering

\* an insertion with its own session,
LEMMA RegistryRecord ==
  ASSUME ApiInv, NEW c \in Client, InsertCreated(c)
  PROVE  \E id \in SessionId, hash \in Hash : Served!RecordSession(c, id, hash)
<1>1. /\ phase[c] = "granted"
      /\ phase' = [phase EXCEPT ![c] = "answering"]
      /\ UNCHANGED <<request, answered>>
      /\ sessions' = InsertSession(sessions, request[c])
  BY DEF InsertCreated
<1>2. ApiTypeOK
  BY DEF ApiInv
<1>3. /\ request[c] \in Creation
      /\ request[c].session_id \notin DOMAIN sessions
  BY InsertionEffect
<1>4. PICK id \in SessionId, hash \in Hash : request[c] = Served!Creation(id, hash)
  BY <1>3 DEF Creation, Served!Creation
<1>5. request[c].session_id = id /\ request[c].user_id_hash = hash
  BY <1>4 DEF Served!Creation
<1>6. sessions' = [i \in DOMAIN sessions \cup {id} |->
                     IF i = id THEN hash ELSE sessions[i]]
  BY <1>1, <1>5 DEF InsertSession
<1>7. /\ Unanswered' = Unanswered
      /\ Unanswered[c] = Served!Creation(id, hash)
      /\ c \notin Answering
      /\ Answering' = Answering \cup {c}
  BY <1>1, <1>2, <1>4, RegistryRun
<1>8. Served!RecordSession(c, id, hash)
  BY <1>1, <1>3, <1>5, <1>6, <1>7 DEF Served!RecordSession, Answering
<1> QED
  BY <1>8

\* a task that is over has nothing pending,
LEMMA RegistryOver ==
  ASSUME ApiTypeOK, NEW c \in Client, phase[c] # "idle",
         phase' = [phase EXCEPT ![c] = "idle"], UNCHANGED request
  PROVE  /\ Unanswered[c] = request[c]
         /\ Unanswered[c] # Served!Nothing
         /\ Unanswered' = [Unanswered EXCEPT ![c] = Served!Nothing]
         /\ Answering' = Answering \ {c}
<1>1. phase'[c] = "idle" /\ \A d \in Client \ {c} : phase'[d] = phase[d]
  BY DEF ApiTypeOK
<1>2. Unanswered'[c] = Served!Nothing
  BY <1>1 DEF Unanswered, Served!Nothing
<1>3. Unanswered' = [Unanswered EXCEPT ![c] = Served!Nothing]
  BY <1>1, <1>2, UnansweredChange
<1> QED
  BY <1>1, <1>3, UnansweredOf DEF Answering

\* because it was told of its session,
LEMMA RegistryAnswer ==
  ASSUME ApiTypeOK, NEW c \in Client, Respond(c), Writes(c)
  PROVE  \E id \in SessionId, hash \in Hash : Served!AnswerCreation(c, id, hash)
<1>1. /\ phase[c] = "answering"
      /\ phase' = [phase EXCEPT ![c] = "idle"]
      /\ answered' = answered \cup AnswerTo(c)
      /\ UNCHANGED <<sessions, request>>
  BY DEF Respond
<1>2. request[c] \in Creation
  BY DEF ApiTypeOK, Writes, Metrics
<1>3. PICK id \in SessionId, hash \in Hash : request[c] = Served!Creation(id, hash)
  BY <1>2 DEF Creation, Served!Creation
<1>4. AnswerTo(c) = {[session_id |-> id, user_id_hash |-> hash]}
  BY <1>1, <1>3 DEF AnswerTo, SessionOf, Served!Creation
<1>5. /\ Unanswered[c] = Served!Creation(id, hash)
      /\ Unanswered' = [Unanswered EXCEPT ![c] = Served!Nothing]
      /\ Answering' = Answering \ {c}
  BY <1>1, <1>3, RegistryOver
<1>6. c \in Answering
  BY <1>1 DEF Answering
<1>7. Served!AnswerCreation(c, id, hash)
  BY <1>1, <1>4, <1>5, <1>6 DEF Served!AnswerCreation, Answering
<1> QED
  BY <1>7

\* and metrics that are answered, or a client that leaves, end a request and
\* change nothing else.
LEMMA RegistryForget ==
  ASSUME ApiTypeOK, NEW c \in Client, phase[c] # "idle",
         phase' = [phase EXCEPT ![c] = "idle"],
         UNCHANGED <<sessions, request, answered>>
  PROVE  Served!Forget(c)
BY RegistryOver DEF Served!Forget, Answering

\* So every step of the API is a step of Registry or a stutter.
LEMMA RegistryStep ==
  ASSUME ApiInv, [Next]_apiVars
  PROVE  [Served!Next]_(Served!registryVars)
<1>1. ApiTypeOK /\ DOMAIN phase = Client
  BY DEF ApiInv, ApiTypeOK
<1>2. ASSUME NEW c \in Client, NEW id \in SessionId, NEW h \in Hash,
             CreateSession(c, id, h)
      PROVE  Served!Next
  BY <1>1, <1>2, RegistryAskCreation DEF Served!Next
<1>3. ASSUME NEW c \in Client, GetMetrics(c)
      PROVE  Served!Next
  <2>1. Served!AskMetrics(c)
    BY <1>1, <1>3, RegistryAsk
       DEF GetMetrics, Metrics, Served!AskMetrics, Served!Metrics, Answering
  <2> QED
    BY <2>1 DEF Served!Next
<1>4. ASSUME NEW c \in Client, Grant(c)
      PROVE  UNCHANGED Served!registryVars
  <2>1. phase[c] = "waiting"
    <3>1. c \in Waiting
      BY <1>1, <1>4 DEF Grant, FirstInLine, Waiting, ApiTypeOK
    <3> QED
      BY <1>1, <3>1 DEF ApiTypeOK
  <2>2. \A d \in Client : /\ phase'[d] = "idle" <=> phase[d] = "idle"
                          /\ phase'[d] = "answering" <=> phase[d] = "answering"
    BY <1>1, <1>4, <2>1 DEF Grant
  <2> QED
    BY <1>4, <2>2, RegistryStutter DEF Grant
<1>5. ASSUME NEW c \in Client, InsertCreated(c)
      PROVE  Served!Next
  BY <1>5, RegistryRecord DEF Served!Next
<1>6. ASSUME NEW c \in Client, SumMetrics(c)
      PROVE  Served!Next
  <2>1. request[c] = Metrics
    BY <1>1, <1>6 DEF SumMetrics, Writes, ApiTypeOK, Creation
  <2>2. Served!ReadMetrics(c)
    BY <1>1, <1>6, <2>1, RegistryRun
       DEF SumMetrics, Metrics, Served!ReadMetrics, Served!Metrics, Answering
  <2> QED
    BY <2>2 DEF Served!Next
<1>7. ASSUME NEW c \in Client, Respond(c)
      PROVE  Served!Next
  <2>1. CASE Writes(c)
    BY <1>1, <1>7, <2>1, RegistryAnswer DEF Served!Next
  <2>2. CASE ~Writes(c)
    <3>1. UNCHANGED answered
      BY <1>7, <2>2 DEF Respond, AnswerTo
    <3>2. Served!Forget(c)
      BY <1>1, <1>7, <3>1, RegistryForget DEF Respond
    <3> QED
      BY <3>2 DEF Served!Next
  <2> QED
    BY <2>1, <2>2
<1>8. ASSUME NEW c \in Client, Disconnect(c)
      PROVE  Served!Next
  <2>1. Served!Forget(c)
    BY <1>1, <1>8, RegistryForget DEF Disconnect
  <2> QED
    BY <2>1 DEF Served!Next
<1>9. CASE UNCHANGED apiVars
  <2>1. UNCHANGED <<sessions, request, phase, answered>>
    BY <1>9 DEF apiVars
  <2> QED
    BY <2>1, RegistryStutter
<1> QED
  BY <1>2, <1>3, <1>4, <1>5, <1>6, <1>7, <1>8, <1>9 DEF Next

\* However the tasks of any number of clients interleave at the lock and are
\* dropped, clients see a registry in which requests take effect one at a time.
THEOREM ApiImplementsRegistryHolds == Spec => ApiImplementsRegistry
<1>1. Init => Served!Init
  BY RegistryInit
<1>2. ApiInv /\ [Next]_apiVars => [Served!Next]_(Served!registryVars)
  BY RegistryStep
<1> QED
  BY <1>1, <1>2, ApiInvHolds, PTL
     DEF Spec, SafetySpec, ApiImplementsRegistry, Served!Spec
=============================================================================
