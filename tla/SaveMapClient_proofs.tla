------------------------ MODULE SaveMapClient_proofs ------------------------
(***************************************************************************)
(* Theorems about SaveMapClient, for every finite number of runs of the    *)
(* command and however often the map saver stops.                          *)
(***************************************************************************)
EXTENDS SaveMapClient, TLAPS, FiniteSetTheorems

\* The inductive invariant.  The length of the queue is bounded because no
\* client is in it twice, and that because a client sends one request: none
\* before it has left wait_for_service, and none that is answered is waiting.
NotSent == { c \in Clients : client[c] \in {"off", "looking"} }
OneRequest ==
  /\ \A i, j \in DOMAIN queue : queue[i] = queue[j] => i = j
  /\ \A i \in DOMAIN queue : queue[i] \notin NotSent /\ answer[queue[i]] = "none"
  /\ \A c \in NotSent : answer[c] = "none"

Types ==
  /\ client \in [Clients -> {"off", "looking", "waiting", "exit0", "exit1"}]
  /\ saver \in {"down", "up"}
  /\ queue \in Seq(Clients)
  /\ answer \in [Clients -> {"none", "saved", "not_saved"}]
  /\ wrote \subseteq Clients
  /\ stops \in 0..MaxStops

IInv == Types /\ OneRequest

-----------------------------------------------------------------------------
\* A queue without repetition is no longer than the set it is taken from.
LEMMA InjectiveIsShort ==
  ASSUME NEW S, IsFiniteSet(S), NEW q \in Seq(S),
         \A i, j \in DOMAIN q : q[i] = q[j] => i = j
  PROVE  Len(q) <= Cardinality(S)
<1>1. DOMAIN q = 1..Len(q) /\ Len(q) \in Nat
  OBVIOUS
<1>2. q \in Injection(1..Len(q), S)
  BY <1>1 DEF Injection, IsInjective
<1>3. Cardinality(1..Len(q)) <= Cardinality(S)
  BY <1>2, FS_Injection DEF ExistsInjection
<1>4. Cardinality(1..Len(q)) = Len(q)
  BY <1>1, FS_Interval
<1>. QED  BY <1>3, <1>4

-----------------------------------------------------------------------------
LEMMA InitInv == Init => IInv
<1>. SUFFICES ASSUME Init PROVE IInv
  OBVIOUS
<1>1. Types
  BY StopsAssumption DEF Init, Types
<1>. QED  BY <1>1 DEF Init, IInv, OneRequest, NotSent

\* A client moves on, and sends nothing: it does not go back to where it would
\* send again.
LEMMA GotoPreserves ==
  ASSUME IInv, NEW c \in Clients,
         NEW place \in {"looking", "waiting", "exit0", "exit1"}, Goto(c, place),
         UNCHANGED <<saver, queue, answer, wrote, stops>>,
         place = "looking" => client[c] = "off"
  PROVE  IInv'
<1>. USE DEF IInv, Goto
<1>1. Types'
  BY DEF Types
<1>2. \A d \in Clients : client'[d] = IF d = c THEN place ELSE client[d]
  BY DEF Types
<1>3. NotSent' \subseteq NotSent
  BY <1>2 DEF NotSent
<1>4. OneRequest'
  BY <1>3 DEF OneRequest
<1>. QED  BY <1>1, <1>4

\* The only step that puts a request into the queue.
LEMMA SendPreserves ==
  ASSUME IInv, NEW c \in Clients, Send(c)
  PROVE  IInv'
<1>. USE DEF IInv
<1>1. c \in NotSent /\ Goto(c, "waiting") /\ UNCHANGED <<saver, answer, wrote, stops>>
  BY DEF Send, NotSent
<1>2. CASE queue' = queue
  BY <1>1, <1>2, GotoPreserves
<1>3. CASE queue' = Append(queue, c)
  <2>1. queue \in Seq(Clients)
    BY DEF Types
  <2>2. /\ queue' \in Seq(Clients) /\ Len(queue') = Len(queue) + 1
        /\ DOMAIN queue' = 1..Len(queue) + 1
        /\ \A i \in 1..Len(queue) : queue'[i] = queue[i] /\ queue[i] # c
        /\ queue'[Len(queue) + 1] = c
    BY <1>1, <1>3, <2>1 DEF OneRequest
  <2>3. Types'
    BY <1>1, <2>2 DEF Goto, Types
  <2>4. \A d \in Clients : client'[d] = IF d = c THEN "waiting" ELSE client[d]
    BY <1>1 DEF Goto, Types
  <2>5. \A i, j \in DOMAIN queue' : queue'[i] = queue'[j] => i = j
    BY <2>1, <2>2 DEF OneRequest
  <2>6. \A i \in DOMAIN queue' : queue'[i] \notin NotSent' /\ answer'[queue'[i]] = "none"
    <3>. SUFFICES ASSUME NEW i \in DOMAIN queue'
                  PROVE  queue'[i] \notin NotSent' /\ answer[queue'[i]] = "none"
      BY <1>1
    <3>1. CASE i \in 1..Len(queue)
      BY <2>1, <2>2, <2>4, <3>1 DEF OneRequest, NotSent
    <3>2. CASE i = Len(queue) + 1
      BY <1>1, <2>2, <2>4, <3>2 DEF OneRequest, NotSent
    <3>. QED  BY <2>1, <2>2, <3>1, <3>2
  <2>7. \A d \in NotSent' : answer'[d] = "none"
    BY <1>1, <2>4 DEF OneRequest, NotSent
  <2>. QED  BY <2>3, <2>5, <2>6, <2>7 DEF OneRequest
<1>. QED  BY <1>2, <1>3 DEF Send

\* The saver answers the oldest request, once, and only requests.
LEMMA ServePreserves ==
  ASSUME IInv, Serve
  PROVE  /\ IInv'
         /\ \A c \in Clients : answer[c] # "none" => answer'[c] = answer[c]
<1>. USE DEF IInv
<1>. DEFINE h == Head(queue)
<1>1. queue \in Seq(Clients) /\ queue # <<>>
  BY DEF Serve, Types
<1>2. /\ h \in Clients /\ 1 \in DOMAIN queue /\ h = queue[1]
      /\ queue' \in Seq(Clients) /\ DOMAIN queue' = 1..Len(queue) - 1
      /\ \A i \in DOMAIN queue' : i + 1 \in DOMAIN queue /\ queue'[i] = queue[i + 1]
  BY <1>1 DEF Serve
<1>3. answer[h] = "none" /\ h \notin NotSent
  BY <1>2 DEF OneRequest
<1>4. PICK a \in {"saved", "not_saved"} : answer' = [answer EXCEPT ![h] = a]
  BY DEF Serve
<1>5. UNCHANGED <<client, saver, stops>> /\ wrote' \subseteq Clients
  BY <1>2 DEF Serve, Types
<1>. HIDE DEF h
<1>6. \A c \in Clients : answer'[c] = IF c = h THEN a ELSE answer[c]
  BY <1>4 DEF Types
<1>7. Types'
  BY <1>2, <1>4, <1>5 DEF Types
<1>8. \A i, j \in DOMAIN queue' : queue'[i] = queue'[j] => i = j
  <2>. SUFFICES ASSUME NEW i \in DOMAIN queue', NEW j \in DOMAIN queue',
                       queue'[i] = queue'[j]
                PROVE  i = j
    OBVIOUS
  <2>1. i + 1 = j + 1
    BY <1>2 DEF OneRequest
  <2>. QED  BY <1>2, <2>1
<1>9. \A i \in DOMAIN queue' : queue'[i] \notin NotSent' /\ answer'[queue'[i]] = "none"
  <2>. SUFFICES ASSUME NEW i \in DOMAIN queue'
                PROVE  queue'[i] \notin NotSent' /\ answer'[queue'[i]] = "none"
    OBVIOUS
  <2>1. queue'[i] = queue[i + 1] /\ i + 1 \in DOMAIN queue /\ i + 1 # 1 /\ queue'[i] \in Clients
    BY <1>2
  <2>2. queue'[i] # h
    BY <1>2, <2>1 DEF OneRequest
  <2>. QED  BY <1>5, <1>6, <2>1, <2>2 DEF OneRequest, NotSent
<1>10. \A c \in NotSent' : answer'[c] = "none"
  BY <1>3, <1>5, <1>6 DEF OneRequest, NotSent
<1>. QED  BY <1>3, <1>6, <1>7, <1>8, <1>9, <1>10 DEF OneRequest

LEMMA NextInv == IInv /\ [Next]_vars => IInv'
<1>. SUFFICES ASSUME IInv, [Next]_vars PROVE IInv'
  OBVIOUS
<1>1. CASE UNCHANGED vars
  BY <1>1 DEF vars, IInv, Types, OneRequest, NotSent
<1>2. ASSUME NEW c \in Clients, Run(c) PROVE IInv'
  BY <1>2, GotoPreserves DEF Run
<1>3. ASSUME NEW c \in Clients, GiveUp(c) PROVE IInv'
  BY <1>3, GotoPreserves DEF GiveUp
<1>4. ASSUME NEW c \in Clients, Send(c) PROVE IInv'
  BY <1>4, SendPreserves
<1>5. ASSUME NEW c \in Clients, Finish(c) PROVE IInv'
  BY <1>5, GotoPreserves DEF Finish
<1>6. ASSUME NEW c \in Clients, Interrupt(c) PROVE IInv'
  BY <1>6, GotoPreserves DEF Interrupt
<1>7. CASE StartSaver
  BY <1>7 DEF StartSaver, IInv, Types, OneRequest, NotSent
<1>8. CASE Serve
  BY <1>8, ServePreserves
<1>9. CASE StopSaver
  <2>1. Types'
    BY <1>9, StopsAssumption DEF StopSaver, IInv, Types
  <2>. QED
    BY <1>9, <2>1 DEF StopSaver, IInv, OneRequest, NotSent
<1>. QED
  BY <1>1, <1>2, <1>3, <1>4, <1>5, <1>6, <1>7, <1>8, <1>9 DEF Next

\* The strengthened invariant holds in every reachable state.
THEOREM Invariance == Spec => []IInv
BY InitInv, NextInv, PTL DEF Spec

-----------------------------------------------------------------------------
\* The state keeps its type: the queue is never longer than there are runs of
\* the command, as a run sends one request.
THEOREM TypeCorrect == Spec => []TypeOK
<1>1. IInv => TypeOK
  BY InjectiveIsShort, ClientsAssumption DEF IInv, Types, OneRequest, TypeOK
<1>. QED  BY <1>1, Invariance, PTL

\* An answer is final: the saver never answers a run twice, so what the client
\* has when it reports is what it would have later.
THEOREM AnswerIsFinal == Spec => AnsweredOnce
<1>1. IInv /\ [Next]_vars =>
        [\A c \in Clients : answer[c] # "none" => answer'[c] = answer[c]]_vars
  <2>. SUFFICES ASSUME IInv, Next
                PROVE  \A c \in Clients : answer[c] # "none" => answer'[c] = answer[c]
    OBVIOUS
  <2>1. CASE Serve
    BY <2>1, ServePreserves
  <2>2. CASE answer' = answer
    BY <2>2
  <2>. QED
    BY <2>1, <2>2 DEF Next, Run, GiveUp, Send, Finish, Interrupt, StartSaver, StopSaver
<1>. QED  BY <1>1, Invariance, PTL DEF Spec, AnsweredOnce

\* A client whose request is lost is never served and never told so: it waits
\* until it is interrupted, however often the saver comes back.
THEOREM LostStaysLost == Spec => LostForGood
<1>. DEFINE A == \A c \in Clients :
                   client[c] = "waiting" /\ Lost(c) =>
                     client'[c] = "exit1" \/ (client'[c] = "waiting" /\ Lost(c)')
<1>1. IInv /\ [Next]_vars => [A]_vars
  <2>. SUFFICES ASSUME IInv, Next, NEW c \in Clients, client[c] = "waiting", Lost(c)
                PROVE  client'[c] = "exit1" \/ (client'[c] = "waiting" /\ Lost(c)')
    OBVIOUS
  <2>. USE DEF IInv
  <2>1. ASSUME NEW d \in Clients, NEW place, Goto(d, place), UNCHANGED <<queue, answer>>,
               d = c => place = "exit1"
        PROVE  client'[c] = "exit1" \/ (client'[c] = "waiting" /\ Lost(c)')
    BY <2>1 DEF Goto, Types, Lost
  <2>2. ASSUME NEW d \in Clients, Run(d) \/ GiveUp(d) \/ Finish(d) \/ Interrupt(d)
        PROVE  client'[c] = "exit1" \/ (client'[c] = "waiting" /\ Lost(c)')
    BY <2>1, <2>2 DEF Run, GiveUp, Finish, Interrupt, Lost
  <2>3. ASSUME NEW d \in Clients, Send(d)
        PROVE  client'[c] = "exit1" \/ (client'[c] = "waiting" /\ Lost(c)')
    <3>1. d # c /\ client'[c] = "waiting" /\ UNCHANGED answer
      BY <2>3 DEF Send, Goto, Types
    <3>2. CASE queue' = queue
      BY <3>1, <3>2 DEF Lost
    <3>3. CASE queue' = Append(queue, d)
      <4>1. queue \in Seq(Clients)
        BY DEF Types
      <4>2. \A i \in DOMAIN queue' : queue'[i] = d \/ (i \in DOMAIN queue /\ queue'[i] = queue[i])
        BY <3>3, <4>1
      <4>. QED  BY <3>1, <4>2 DEF Lost, ToSet
    <3>. QED  BY <2>3, <3>2, <3>3 DEF Send
  <2>4. CASE StartSaver
    BY <2>4 DEF StartSaver, Lost
  <2>5. CASE Serve
    <3>1. queue \in Seq(Clients) /\ queue # <<>>
      BY <2>5 DEF Serve, Types
    <3>2. /\ Head(queue) # c
          /\ \A i \in DOMAIN Tail(queue) :
               i + 1 \in DOMAIN queue /\ Tail(queue)[i] = queue[i + 1]
      BY <3>1 DEF Lost, ToSet
    <3>3. UNCHANGED client /\ queue' = Tail(queue) /\ answer'[c] = answer[c]
      BY <2>5, <3>2 DEF Serve, Types
    <3>. QED  BY <3>2, <3>3 DEF Lost, ToSet
  <2>6. CASE StopSaver
    BY <2>6 DEF StopSaver, Lost, ToSet
  <2>. QED  BY <2>2, <2>3, <2>4, <2>5, <2>6 DEF Next
<1>. QED  BY <1>1, Invariance, PTL DEF Spec, LostForGood
=============================================================================
