------------------------- MODULE MqCalculatorProofs -------------------------
(***************************************************************************)
(* Theorems about the calculator over message queues, for any clients, any *)
(* assignment of them to the three queues, any numbers and any length of   *)
(* the queues.                                                             *)
(*                                                                         *)
(* The argument: a client has at most one request under way.  It is first  *)
(* in the server's queue, then in the hands of a worker, then answered, in *)
(* no two of the three places at once, and as long as it is in one of them *)
(* the client has not come back to its input: it waits, or it has given up *)
(* for good.  So the request still carries the numbers the client asked    *)
(* for last, and so does the answer.                                       *)
(*                                                                         *)
(* The last part maps each step to one of the abstract service: a client's *)
(* send is the question, the worker's send the answer if the client still  *)
(* waits, and everything between them is invisible to the clients.         *)
(***************************************************************************)
EXTENDS MqCalculator, SequenceTheorems, FiniteSetTheorems, TLAPS

(* Steps of a client that has nothing under way. *)
Idle == {"open", "scan", "send", "failed"}

Queue(c) == requests[ServerQueue[c]]
Queued(c) == \E i \in 1 .. Len(Queue(c)) : Queue(c)[i].client = c
Served(c) == Serves(ServerQueue[c], c)
Answered(c) == answers[c] # <<>>

CalcTypes == TypeOK /\ (mainAt \in {"sigwait", "stopping"} => nextStop \in 1 .. 3)

(* A request m in the queue or the hands of op is what its client has asked *)
(* last.                                                                   *)
Fresh(m, op) == /\ ServerQueue[m.client] = op
                /\ m.input = asked[m.client]
                /\ at[m.client] \notin Idle

QueuedFresh == \A op \in Operations : \A i \in 1 .. Len(requests[op]) : Fresh(requests[op][i], op)

QueuedOnce == \A op \in Operations : \A i, j \in 1 .. Len(requests[op]) :
                 requests[op][i].client = requests[op][j].client => i = j

Working(op) == workerAt[op] \in {"compute", "open", "send"}

ServedFresh == \A op \in Operations : Working(op) =>
                  /\ job[op] \in Requests
                  /\ Fresh(job[op], op)
                  /\ workerAt[op] # "compute" => ~DividesByZero(op, job[op].input)

AnswerFresh == \A c \in Clients : Answered(c) =>
                  /\ Len(answers[c]) = 1
                  /\ at[c] \notin Idle
                  /\ ~DividesByZero(ServerQueue[c], asked[c])
                  /\ answers[c][1] = Result(ServerQueue[c], asked[c])

(* Never in two places at once. *)
OnePlace == \A c \in Clients : /\ ~(Queued(c) /\ Served(c))
                               /\ ~(Queued(c) /\ Answered(c))
                               /\ ~(Served(c) /\ Answered(c))

(* A client that waits has a request under way. *)
WaitsForSomething == \A c \in Clients : at[c] = "wait" => Queued(c) \/ Served(c) \/ Answered(c)

CalcInv == /\ CalcTypes
           /\ QueuedFresh
           /\ QueuedOnce
           /\ ServedFresh
           /\ AnswerFresh
           /\ OnePlace
           /\ WaitsForSomething
-----------------------------------------------------------------------------
LEMMA CalcInitInv == Init => CalcInv
<1> SUFFICES ASSUME Init PROVE CalcInv
  OBVIOUS
<1> USE ClientsAssumption, InputsAssumption, QueueAssumption DEF Init
<1>1. (CHOOSE in \in Inputs : TRUE) \in Inputs
  OBVIOUS
<1>2. \A op \in Operations : requests[op] = <<>> /\ Len(requests[op]) = 0 /\ Stored(op) = 0
  BY DEF Stored
<1>3. TypeOK
  <2>1. requests \in [Operations -> Seq(Requests)] /\ answers \in [Clients -> Seq(Nat)]
    BY EmptySeq
  <2>2. asked \in [Clients -> Inputs]
    BY <1>1
  <2>3. \A op \in Operations : Stored(op) <= MaxMsg
    BY <1>2
  <2>4. /\ at \in [Clients -> ClientSteps]
        /\ workerAt \in [Operations -> WorkerSteps]
        /\ job \in [Operations -> Requests \cup {NoJob}]
    BY DEF ClientSteps, WorkerSteps
  <2>5. stopQueued \in [Operations -> BOOLEAN] /\ sigint \in BOOLEAN /\ up \in BOOLEAN
    BY Zenon
  <2>6. mainAt \in MainSteps /\ nextStop \in 1 .. 4
    BY DEF MainSteps
  <2> QED
    BY <2>1, <2>2, <2>3, <2>4, <2>5, <2>6 DEF TypeOK
<1>4. \A c \in Clients : Queue(c) = <<>> /\ ~Served(c) /\ ~Answered(c)
  BY <1>2 DEF Queue, Served, Serves, Answered
<1> QED
  BY <1>2, <1>3, <1>4 DEF CalcInv, CalcTypes, QueuedFresh, QueuedOnce, ServedFresh, Working,
    AnswerFresh, OnePlace, WaitsForSomething, Queued

(* What a client sends and what is computed have their types.              *)
LEMMA ResultType ==
  ASSUME NEW op \in Operations, NEW in \in Inputs, ~DividesByZero(op, in)
  PROVE  Result(op, in) \in Nat
<1>1. in[1] \in Nat /\ in[2] \in Nat
  BY InputsAssumption
<1>2. op # "sum" => in[2] \in Nat /\ in[2] > 0
  BY <1>1 DEF DividesByZero
<1>3. op # "sum" => in[1] \div in[2] \in Nat /\ in[1] % in[2] \in Nat
  BY <1>1, <1>2
<1> QED
  BY <1>1, <1>3 DEF Result, Operations

(* Nothing of an idle client is under way.                                 *)
LEMMA IdleHasNothing ==
  ASSUME CalcInv, NEW c \in Clients, at[c] \in Idle
  PROVE  ~Queued(c) /\ ~Served(c) /\ ~Answered(c)
<1> USE ClientsAssumption DEF CalcInv
<1>1. ~Queued(c)
  BY DEF Queued, Queue, QueuedFresh, Fresh
<1>2. ~Served(c)
  BY DEF Served, Serves, ServedFresh, Working, Fresh
<1>3. ~Answered(c)
  BY DEF AnswerFresh
<1> QED
  BY <1>1, <1>2, <1>3

(* A step in which no request moves and no worker starts or ends one.      *)
LEMMA NothingMoves ==
  ASSUME CalcInv, CalcTypes', UNCHANGED <<requests, answers, asked, job>>,
         \A op \in Operations : Working(op)' <=> Working(op),
         \A op \in Operations : Working(op) /\ workerAt[op]' # "compute" =>
           ~DividesByZero(op, job[op].input),
         \A d \in Clients : at'[d] \in Idle => at[d] \in Idle,
         \A d \in Clients : at'[d] = "wait" => at[d] = "wait"
  PROVE  CalcInv'
<1> USE ClientsAssumption DEF CalcInv
<1>1. \A d \in Clients : (Queued(d)' <=> Queued(d)) /\ (Served(d)' <=> Served(d))
                         /\ (Answered(d)' <=> Answered(d))
  BY DEF Queued, Queue, Served, Serves, Working, Answered
<1>2. \A op \in Operations : \A m \in Requests : Fresh(m, op) => Fresh(m, op)'
  BY DEF Fresh, Requests
<1>3. QueuedFresh'
  <2> SUFFICES ASSUME NEW op \in Operations, NEW i \in 1 .. Len(requests[op])
               PROVE  Fresh(requests[op][i], op)'
    BY DEF QueuedFresh
  <2>1. requests[op][i] \in Requests
    BY DEF CalcTypes, TypeOK
  <2> QED
    BY <1>2, <2>1 DEF QueuedFresh, Fresh
<1>4. QueuedOnce'
  BY DEF QueuedOnce
<1>5. ServedFresh'
  <2> SUFFICES ASSUME NEW op \in Operations, Working(op)
               PROVE  /\ job[op] \in Requests
                      /\ Fresh(job[op], op)'
                      /\ workerAt'[op] # "compute" => ~DividesByZero(op, job[op].input)
    BY DEF ServedFresh, DividesByZero, Fresh
  <2> QED
    BY <1>2 DEF ServedFresh, Fresh
<1>6. AnswerFresh'
  BY <1>1 DEF AnswerFresh, DividesByZero, Result, Answered
<1>7. OnePlace' /\ WaitsForSomething'
  BY <1>1 DEF OnePlace, WaitsForSomething
<1> QED
  BY <1>3, <1>4, <1>5, <1>6, <1>7
-----------------------------------------------------------------------------
(* The steps of a client that only move the client.                        *)
LEMMA ClientMoves ==
  ASSUME CalcInv, NEW c \in Clients, NEW to \in ClientSteps,
         at' = [at EXCEPT ![c] = to], to # "wait", to \in Idle => at[c] \in Idle,
         UNCHANGED <<queueVars, asked, workerVars, mainVars, up>>
  PROVE  CalcInv'
<1> USE DEF queueVars, workerVars, mainVars
<1>1. CalcTypes'
  BY DEF CalcInv, CalcTypes, TypeOK, Stored
<1>2. \A d \in Clients : at'[d] = IF d = c THEN to ELSE at[d]
  BY DEF CalcInv, CalcTypes, TypeOK
<1>3. \A op \in Operations : Working(op) /\ workerAt'[op] # "compute" =>
        ~DividesByZero(op, job[op].input)
  BY DEF CalcInv, ServedFresh
<1> QED
  BY <1>1, <1>2, <1>3, NothingMoves DEF Working

LEMMA ClientReadsInv ==
  ASSUME CalcInv, NEW c \in Clients, ClientReads(c) PROVE CalcInv'
<1> USE ClientsAssumption DEF ClientReads, Proceed, queueVars, workerVars, mainVars
<1>1. ~Queued(c) /\ ~Served(c) /\ ~Answered(c)
  BY IdleHasNothing DEF Idle
<1>2. CalcTypes'
  BY DEF CalcInv, CalcTypes, TypeOK, Stored, ClientSteps
<1>3. \A d \in Clients : d # c => at'[d] = at[d] /\ asked'[d] = asked[d]
  BY DEF CalcInv, CalcTypes, TypeOK
<1>4. at'[c] = "send"
  BY DEF CalcInv, CalcTypes, TypeOK
<1>5. \A d \in Clients : (Queued(d)' <=> Queued(d)) /\ (Served(d)' <=> Served(d))
                         /\ (Answered(d)' <=> Answered(d))
  BY DEF Queued, Queue, Served, Serves, Answered
<1>6. QueuedFresh'
  <2> SUFFICES ASSUME NEW op \in Operations, NEW i \in 1 .. Len(requests[op])
               PROVE  Fresh(requests[op][i], op)'
    BY DEF QueuedFresh
  <2>0. requests[op][i] \in Requests /\ Fresh(requests[op][i], op)
    BY DEF CalcInv, CalcTypes, TypeOK, QueuedFresh
  <2>1. requests[op][i].client \in Clients /\ Fresh(requests[op][i], op)
    BY <2>0 DEF Requests
  <2>2. requests[op][i].client # c
    BY <1>1, <2>1 DEF Fresh, Queued, Queue
  <2> QED
    BY <1>3, <2>1, <2>2 DEF Fresh
<1>7. QueuedOnce'
  BY DEF CalcInv, QueuedOnce
<1>8. ServedFresh'
  <2> SUFFICES ASSUME NEW op \in Operations, Working(op)
               PROVE  /\ job[op] \in Requests
                      /\ Fresh(job[op], op)'
                      /\ workerAt[op] # "compute" => ~DividesByZero(op, job[op].input)
    BY DEF ServedFresh, Working, DividesByZero, Fresh
  <2>1. job[op] \in Requests /\ job[op].client \in Clients /\ Fresh(job[op], op)
    BY DEF CalcInv, ServedFresh, Requests
  <2>2. job[op].client # c
    BY <1>1, <2>1 DEF Fresh, Served, Serves, Working
  <2> QED
    BY <1>3, <2>1, <2>2 DEF Fresh, CalcInv, ServedFresh
<1>9. AnswerFresh'
  BY <1>1, <1>3, <1>5 DEF CalcInv, AnswerFresh, DividesByZero, Result, Answered
<1>10. OnePlace' /\ WaitsForSomething'
  BY <1>3, <1>4, <1>5 DEF CalcInv, OnePlace, WaitsForSomething
<1> QED
  BY <1>2, <1>6, <1>7, <1>8, <1>9, <1>10 DEF CalcInv

(* The request of a client that had nothing under way joins the queue.     *)
LEMMA ClientSendsInv ==
  ASSUME CalcInv, NEW c \in Clients, ClientSends(c) PROVE CalcInv'
<1> DEFINE op == ServerQueue[c]
           new == [client |-> c, input |-> asked[c]]
<1> USE ClientsAssumption DEF Proceed, workerVars, mainVars
<1>1. ~Queued(c) /\ ~Served(c) /\ ~Answered(c)
  BY IdleHasNothing DEF Idle, ClientSends
<1>2. op \in Operations /\ new \in Requests /\ requests[op] \in Seq(Requests)
  BY DEF CalcInv, CalcTypes, TypeOK, Requests
<1>3. /\ requests' = [requests EXCEPT ![op] = Append(@, new)]
      /\ requests'[op] = Append(requests[op], new)
      /\ \A o \in Operations : o # op => requests'[o] = requests[o]
  BY <1>2 DEF ClientSends, CalcInv, CalcTypes, TypeOK
<1>4. /\ requests'[op] \in Seq(Requests)
      /\ Len(requests[op]) \in Nat
      /\ Len(requests'[op]) = Len(requests[op]) + 1
      /\ \A i \in 1 .. Len(requests[op]) : requests'[op][i] = requests[op][i]
      /\ requests'[op][Len(requests[op]) + 1] = new
  BY <1>2, <1>3, AppendProperties
<1>5. /\ at' = [at EXCEPT ![c] = "wait"]
      /\ at'[c] = "wait"
      /\ \A d \in Clients : d # c => at'[d] = at[d]
      /\ Stored(op) < MaxMsg
      /\ UNCHANGED <<stopQueued, answers, asked, workerAt, job, mainAt, nextStop, sigint, up>>
  BY DEF ClientSends, CalcInv, CalcTypes, TypeOK
<1> HIDE DEF op, new
<1>6. CalcTypes'
  <2>1. requests' \in [Operations -> Seq(Requests)]
    BY <1>2, <1>3, <1>4 DEF CalcInv, CalcTypes, TypeOK
  <2>2. \A o \in Operations : Stored(o)' <= MaxMsg
    <3>1. \A o \in Operations : o = op => Stored(o)' = Stored(o) + 1 /\ Stored(o) \in Nat
      <4> SUFFICES ASSUME NEW o \in Operations, o = op
                   PROVE  Stored(o)' = Stored(o) + 1 /\ Stored(o) \in Nat
        OBVIOUS
      <4> DEFINE stop == IF stopQueued[o] THEN 1 ELSE 0
      <4>1. stop' = stop
        BY <1>5
      <4>2. stop \in {0, 1}
        OBVIOUS
      <4>3. Stored(o) = Len(requests[o]) + stop /\ Stored(o)' = Len(requests'[o]) + stop'
        BY DEF Stored
      <4> HIDE DEF stop
      <4> QED
        BY <1>4, <4>1, <4>2, <4>3
    <3>2. \A o \in Operations : o # op => Stored(o)' = Stored(o)
      BY <1>3, <1>5 DEF Stored
    <3>3. \A o \in Operations : Stored(o) <= MaxMsg
      BY DEF CalcInv, CalcTypes, TypeOK
    <3> QED
      BY <1>5, <3>1, <3>2, <3>3, QueueAssumption
  <2> QED
    BY <1>5, <2>1, <2>2 DEF CalcInv, CalcTypes, TypeOK, ClientSteps
<1>7. \A d \in Clients : (Served(d)' <=> Served(d)) /\ (Answered(d)' <=> Answered(d))
  BY <1>5 DEF Served, Serves, Answered
<1>8. Queued(c)'
  BY <1>4 DEF Queued, Queue, op, new
<1>9. \A d \in Clients : d # c => (Queued(d)' <=> Queued(d))
  <2> SUFFICES ASSUME NEW d \in Clients, d # c PROVE Queued(d)' <=> Queued(d)
    OBVIOUS
  <2>1. CASE ServerQueue[d] = op
    <3>1. ASSUME Queued(d)' PROVE Queued(d)
      <4>1. PICK i \in 1 .. Len(requests'[op]) : requests'[op][i].client = d
        BY <2>1, <3>1 DEF Queued, Queue
      <4>2. new.client = c
        BY DEF new
      <4>3. i # Len(requests[op]) + 1
        BY <1>4, <4>1, <4>2
      <4>4. i \in 1 .. Len(requests[op])
        BY <1>4, <4>1, <4>3
      <4> QED
        BY <1>4, <2>1, <4>1, <4>4 DEF Queued, Queue
    <3>2. ASSUME Queued(d) PROVE Queued(d)'
      <4>1. PICK i \in 1 .. Len(requests[op]) : requests[op][i].client = d
        BY <2>1, <3>2 DEF Queued, Queue
      <4>2. i \in 1 .. Len(requests'[op]) /\ requests'[op][i].client = d
        BY <1>4, <4>1
      <4> QED
        BY <2>1, <4>2 DEF Queued, Queue
    <3> QED
      BY <3>1, <3>2
  <2>2. CASE ServerQueue[d] # op
    BY <1>3, <2>2 DEF Queued, Queue
  <2> QED
    BY <2>1, <2>2
<1>10. \A m \in Requests : \A o \in Operations : Fresh(m, o) => Fresh(m, o)'
  BY <1>5 DEF Fresh, Requests, Idle
<1>11. QueuedFresh'
  <2> SUFFICES ASSUME NEW o \in Operations, NEW i \in 1 .. Len(requests'[o])
               PROVE  Fresh(requests[o][i], o)'
    BY DEF QueuedFresh
  <2>1. CASE o = op /\ i = Len(requests[op]) + 1
    BY <1>4, <1>5, <2>1 DEF Fresh, op, new, Idle
  <2>2. CASE ~(o = op /\ i = Len(requests[op]) + 1)
    <3>1. i \in 1 .. Len(requests[o]) /\ requests'[o][i] = requests[o][i]
      BY <1>3, <1>4, <2>2
    <3>2. requests[o][i] \in Requests /\ Fresh(requests[o][i], o)
      BY <3>1 DEF CalcInv, CalcTypes, TypeOK, QueuedFresh
    <3> QED
      BY <1>10, <3>1, <3>2 DEF Fresh
  <2> QED
    BY <2>1, <2>2
<1>12. QueuedOnce'
  <2> SUFFICES ASSUME NEW o \in Operations,
                      NEW i \in 1 .. Len(requests'[o]), NEW j \in 1 .. Len(requests'[o]),
                      requests'[o][i].client = requests'[o][j].client
               PROVE  i = j
    BY DEF QueuedOnce
  <2>1. CASE o # op
    BY <1>3, <2>1 DEF CalcInv, QueuedOnce
  <2>2. CASE o = op
    <3>1. \A k \in 1 .. Len(requests[op]) : requests[op][k].client # c
      BY <1>1 DEF Queued, Queue, op
    <3>2. new.client = c
      BY DEF new
    <3>3. \A k \in 1 .. Len(requests'[op]) :
            k \in 1 .. Len(requests[op]) \/ k = Len(requests[op]) + 1
      BY <1>4
    <3> QED
      BY <1>2, <1>4, <2>2, <3>1, <3>2, <3>3 DEF CalcInv, QueuedOnce
  <2> QED
    BY <2>1, <2>2
<1>13. ServedFresh'
  <2> SUFFICES ASSUME NEW o \in Operations, Working(o)
               PROVE  /\ job[o] \in Requests
                      /\ Fresh(job[o], o)'
                      /\ workerAt[o] # "compute" => ~DividesByZero(o, job[o].input)
    BY <1>5 DEF ServedFresh, Working, DividesByZero, Fresh
  <2> QED
    BY <1>5, <1>10 DEF Fresh, CalcInv, ServedFresh
<1>14. AnswerFresh'
  BY <1>1, <1>5, <1>7 DEF CalcInv, AnswerFresh, DividesByZero, Result, Answered
<1>15. OnePlace' /\ WaitsForSomething'
  BY <1>1, <1>5, <1>7, <1>8, <1>9 DEF CalcInv, OnePlace, WaitsForSomething
<1> QED
  BY <1>6, <1>11, <1>12, <1>13, <1>14, <1>15 DEF CalcInv
(* The answer is taken: nothing of the client is under way any more.       *)
LEMMA ClientReceivesInv ==
  ASSUME CalcInv, NEW c \in Clients, ClientReceives(c) PROVE CalcInv'
<1> USE ClientsAssumption DEF Proceed, workerVars, mainVars
<1>1. answers[c] \in Seq(Nat) /\ Len(answers[c]) = 1 /\ answers[c] # <<>>
  BY DEF ClientReceives, CalcInv, CalcTypes, TypeOK, AnswerFresh, Answered
<1>2. Tail(answers[c]) \in Seq(Nat) /\ Tail(answers[c]) = <<>>
  <2>1. Tail(answers[c]) \in Seq(Nat) /\ Len(Tail(answers[c])) = 0
    BY <1>1, HeadTailProperties
  <2> QED
    BY <2>1, EmptySeq
<1>3. /\ at' = [at EXCEPT ![c] = "open"]
      /\ at'[c] = "open"
      /\ answers' = [answers EXCEPT ![c] = Tail(answers[c])]
      /\ answers'[c] = <<>>
      /\ \A d \in Clients : d # c => at'[d] = at[d] /\ answers'[d] = answers[d]
      /\ UNCHANGED <<requests, stopQueued, asked, workerAt, job, mainAt, nextStop, sigint, up>>
  BY <1>2 DEF ClientReceives, CalcInv, CalcTypes, TypeOK
<1>4. CalcTypes'
  <2>1. answers' \in [Clients -> Seq(Nat)]
    BY <1>2, <1>3 DEF CalcInv, CalcTypes, TypeOK
  <2> QED
    BY <1>3, <2>1 DEF CalcInv, CalcTypes, TypeOK, Stored, ClientSteps
<1>5. ~Queued(c) /\ ~Served(c)
  BY <1>1 DEF CalcInv, OnePlace, Answered
<1>6. \A d \in Clients : (Queued(d)' <=> Queued(d)) /\ (Served(d)' <=> Served(d))
  BY <1>3 DEF Queued, Queue, Served, Serves
<1>7. ~Answered(c)' /\ \A d \in Clients : d # c => (Answered(d)' <=> Answered(d))
  BY <1>3 DEF Answered
<1>8. QueuedFresh'
  <2> SUFFICES ASSUME NEW op \in Operations, NEW i \in 1 .. Len(requests[op])
               PROVE  Fresh(requests[op][i], op)'
    BY <1>3 DEF QueuedFresh
  <2>1. requests[op][i] \in Requests /\ Fresh(requests[op][i], op)
    BY DEF CalcInv, CalcTypes, TypeOK, QueuedFresh
  <2>2. requests[op][i].client \in Clients
    BY <2>1 DEF Requests
  <2>3. requests[op][i].client # c
    BY <1>5, <2>1 DEF Fresh, Queued, Queue
  <2> QED
    BY <1>3, <2>1, <2>2, <2>3 DEF Fresh
<1>9. QueuedOnce'
  BY <1>3 DEF CalcInv, QueuedOnce
<1>10. ServedFresh'
  <2> SUFFICES ASSUME NEW op \in Operations, Working(op)
               PROVE  /\ job[op] \in Requests
                      /\ Fresh(job[op], op)'
                      /\ workerAt[op] # "compute" => ~DividesByZero(op, job[op].input)
    BY <1>3 DEF ServedFresh, Working, DividesByZero, Fresh
  <2>1. job[op] \in Requests /\ job[op].client \in Clients /\ Fresh(job[op], op)
    BY DEF CalcInv, ServedFresh, Requests
  <2>2. job[op].client # c
    BY <1>5, <2>1 DEF Fresh, Served, Serves, Working
  <2> QED
    BY <1>3, <2>1, <2>2 DEF Fresh, CalcInv, ServedFresh
<1>11. AnswerFresh'
  BY <1>3, <1>7 DEF CalcInv, AnswerFresh, DividesByZero, Result, Answered
<1>12. OnePlace' /\ WaitsForSomething'
  BY <1>3, <1>6, <1>7 DEF CalcInv, OnePlace, WaitsForSomething
<1> QED
  BY <1>4, <1>8, <1>9, <1>10, <1>11, <1>12 DEF CalcInv

LEMMA ClientNextInv ==
  ASSUME CalcInv, NEW c \in Clients, ClientNext(c) PROVE CalcInv'
<1> USE DEF Proceed, Idle, ClientSteps
<1>1. CASE ClientOpens(c)
  BY <1>1, ClientMoves DEF ClientOpens
<1>2. CASE ClientOpenFails(c)
  BY <1>2, ClientMoves DEF ClientOpenFails
<1>3. CASE ClientReads(c)
  BY <1>3, ClientReadsInv
<1>4. CASE EndOfInput(c)
  BY <1>4, ClientMoves DEF EndOfInput
<1>5. CASE ClientSends(c)
  BY <1>5, ClientSendsInv
<1>6. CASE ClientReceives(c)
  BY <1>6, ClientReceivesInv
<1>7. CASE ClientTimesOut(c)
  BY <1>7, ClientMoves DEF ClientTimesOut
<1>8. CASE ClientUnlinks(c)
  BY <1>8, ClientMoves DEF ClientUnlinks
<1>9. CASE ClientDies(c)
  BY <1>9, ClientMoves DEF ClientDies
<1> QED
  BY <1>1, <1>2, <1>3, <1>4, <1>5, <1>6, <1>7, <1>8, <1>9 DEF ClientNext
-----------------------------------------------------------------------------
(* The oldest request goes from the queue into the worker's hands.         *)
LEMMA WorkerReceivesInv ==
  ASSUME CalcInv, NEW op \in Operations, WorkerReceives(op) PROVE CalcInv'
<1> DEFINE c == requests[op][1].client
<1> USE ClientsAssumption DEF WorkerProceeds, clientVars, mainVars
<1>1. requests[op] \in Seq(Requests) /\ requests[op] # <<>> /\ Len(requests[op]) \in Nat \ {0}
  BY EmptySeq DEF WorkerReceives, CalcInv, CalcTypes, TypeOK
<1>2. /\ Head(requests[op]) = requests[op][1]
      /\ requests[op][1] \in Requests
      /\ Tail(requests[op]) \in Seq(Requests)
      /\ Len(Tail(requests[op])) = Len(requests[op]) - 1
      /\ \A i \in 1 .. Len(Tail(requests[op])) : Tail(requests[op])[i] = requests[op][i + 1]
  BY <1>1, HeadTailProperties
<1>3. /\ requests' = [requests EXCEPT ![op] = Tail(requests[op])]
      /\ requests'[op] = Tail(requests[op])
      /\ job' = [job EXCEPT ![op] = requests[op][1]]
      /\ job'[op] = requests[op][1]
      /\ workerAt' = [workerAt EXCEPT ![op] = "compute"]
      /\ workerAt'[op] = "compute"
      /\ workerAt[op] = "receive"
      /\ \A o \in Operations : o # op => /\ requests'[o] = requests[o]
                                         /\ job'[o] = job[o]
                                         /\ workerAt'[o] = workerAt[o]
      /\ UNCHANGED <<stopQueued, answers, at, asked, mainAt, nextStop, sigint, up>>
  BY <1>2 DEF WorkerReceives, CalcInv, CalcTypes, TypeOK
<1>4. Len(requests'[op]) = Len(requests[op]) - 1
      /\ \A i \in 1 .. Len(requests'[op]) :
           i + 1 \in 1 .. Len(requests[op]) /\ requests'[op][i] = requests[op][i + 1]
  <2>1. \A n \in Nat \ {0} : \A i \in 1 .. (n - 1) : i + 1 \in 1 .. n
    OBVIOUS
  <2>2. Len(requests'[op]) = Len(requests[op]) - 1
    BY <1>2, <1>3
  <2>3. \A i \in 1 .. Len(requests'[op]) : requests'[op][i] = requests[op][i + 1]
    BY <1>2, <1>3
  <2> QED
    BY <1>1, <2>1, <2>2, <2>3
<1>5. CalcTypes'
  <2>1. requests' \in [Operations -> Seq(Requests)] /\ job' \in [Operations -> Requests \cup {NoJob}]
    BY <1>2, <1>3 DEF CalcInv, CalcTypes, TypeOK
  <2>2. \A o \in Operations : Stored(o)' <= MaxMsg
    <3> SUFFICES ASSUME NEW o \in Operations PROVE Stored(o)' <= MaxMsg
      OBVIOUS
    <3> DEFINE stop == IF stopQueued[o] THEN 1 ELSE 0
    <3>1. stop' = stop
      BY <1>3
    <3>2. stop \in {0, 1}
      OBVIOUS
    <3>3. Stored(o) = Len(requests[o]) + stop /\ Stored(o)' = Len(requests'[o]) + stop'
      BY DEF Stored
    <3>4. Stored(o) <= MaxMsg /\ Len(requests[o]) \in Nat
      BY DEF CalcInv, CalcTypes, TypeOK
    <3> HIDE DEF stop
    <3>5. Len(requests'[o]) <= Len(requests[o]) /\ Len(requests'[o]) \in Nat
      BY <1>1, <1>3, <1>4, <3>4
    <3> QED
      BY <3>1, <3>2, <3>3, <3>4, <3>5, QueueAssumption
  <2>3. workerAt' \in [Operations -> WorkerSteps]
    BY <1>3 DEF CalcInv, CalcTypes, TypeOK, WorkerSteps
  <2> QED
    BY <1>3, <2>1, <2>2, <2>3 DEF CalcInv, CalcTypes, TypeOK
<1>6. c \in Clients /\ ServerQueue[c] = op /\ Fresh(requests[op][1], op)
  BY <1>1, <1>2 DEF CalcInv, QueuedFresh, Fresh, Requests
<1>7. Queued(c) /\ ~Served(c) /\ ~Answered(c)
  BY <1>1, <1>6 DEF CalcInv, OnePlace, Queued, Queue
<1> HIDE DEF c
<1>8. \A d \in Clients : Answered(d)' <=> Answered(d)
  BY <1>3 DEF Answered
<1>9. \A d \in Clients : Served(d)' <=> (Served(d) \/ d = c)
  BY <1>3, <1>6 DEF Served, Serves, c
<1>10. \A i \in 1 .. Len(requests[op]) : requests[op][i].client = c => i = 1
  BY <1>1 DEF CalcInv, QueuedOnce, c
<1>11. \A d \in Clients : Queued(d)' <=> (Queued(d) /\ d # c)
  <2> SUFFICES ASSUME NEW d \in Clients PROVE Queued(d)' <=> (Queued(d) /\ d # c)
    OBVIOUS
  <2>1. CASE ServerQueue[d] # op
    BY <1>3, <1>6, <2>1 DEF Queued, Queue
  <2>2. CASE ServerQueue[d] = op
    <3>1. ASSUME Queued(d)' PROVE Queued(d) /\ d # c
      <4>1. PICK i \in 1 .. Len(requests'[op]) : requests'[op][i].client = d
        BY <2>2, <3>1 DEF Queued, Queue
      <4>2. i + 1 \in 1 .. Len(requests[op]) /\ requests[op][i + 1].client = d /\ i + 1 # 1
        BY <1>4, <4>1
      <4> QED
        BY <1>10, <2>2, <4>2 DEF Queued, Queue
    <3>2. ASSUME Queued(d), d # c PROVE Queued(d)'
      <4>1. PICK i \in 1 .. Len(requests[op]) : requests[op][i].client = d
        BY <2>2, <3>2 DEF Queued, Queue
      <4>2. i # 1
        BY <3>2, <4>1 DEF c
      <4>3. i - 1 \in 1 .. Len(requests'[op])
        BY <1>1, <1>4, <4>2
      <4>4. requests'[op][i - 1] = requests[op][(i - 1) + 1] /\ (i - 1) + 1 = i
        BY <1>4, <4>3
      <4> QED
        BY <2>2, <4>1, <4>3, <4>4 DEF Queued, Queue
    <3> QED
      BY <3>1, <3>2
  <2> QED
    BY <2>1, <2>2
<1>12. \A m : \A o \in Operations : Fresh(m, o)' <=> Fresh(m, o)
  BY <1>3 DEF Fresh
<1>13. QueuedFresh'
  <2> SUFFICES ASSUME NEW o \in Operations, NEW i \in 1 .. Len(requests'[o])
               PROVE  Fresh(requests[o][i], o)'
    BY DEF QueuedFresh
  <2>1. CASE o # op
    BY <1>3, <2>1 DEF CalcInv, QueuedFresh, Fresh
  <2>2. CASE o = op
    BY <1>3, <1>4, <2>2 DEF CalcInv, QueuedFresh, Fresh
  <2> QED
    BY <2>1, <2>2
<1>14. QueuedOnce'
  <2> SUFFICES ASSUME NEW o \in Operations,
                      NEW i \in 1 .. Len(requests'[o]), NEW j \in 1 .. Len(requests'[o]),
                      requests'[o][i].client = requests'[o][j].client
               PROVE  i = j
    BY DEF QueuedOnce
  <2>1. CASE o # op
    BY <1>3, <2>1 DEF CalcInv, QueuedOnce
  <2>2. CASE o = op
    <3>1. /\ i + 1 \in 1 .. Len(requests[op])
          /\ j + 1 \in 1 .. Len(requests[op])
          /\ requests[op][i + 1].client = requests[op][j + 1].client
      BY <1>4, <2>2
    <3>2. i + 1 = j + 1
      BY <3>1 DEF CalcInv, QueuedOnce
    <3> QED
      BY <1>1, <1>4, <2>2, <3>2
  <2> QED
    BY <2>1, <2>2
<1>15. ServedFresh'
  <2> SUFFICES ASSUME NEW o \in Operations, Working(o)'
               PROVE  /\ job'[o] \in Requests
                      /\ Fresh(job[o], o)'
                      /\ workerAt'[o] # "compute" => ~DividesByZero(o, job'[o].input)
    BY DEF ServedFresh, DividesByZero
  <2>1. CASE o # op
    BY <1>3, <2>1 DEF CalcInv, ServedFresh, Working, Fresh
  <2>2. CASE o = op
    BY <1>2, <1>3, <1>6, <2>2 DEF Fresh
  <2> QED
    BY <2>1, <2>2
<1>16. AnswerFresh'
  BY <1>3, <1>8 DEF CalcInv, AnswerFresh, DividesByZero, Result, Answered
<1>17. OnePlace' /\ WaitsForSomething'
  BY <1>3, <1>7, <1>8, <1>9, <1>11 DEF CalcInv, OnePlace, WaitsForSomething
<1> QED
  BY <1>5, <1>13, <1>14, <1>15, <1>16, <1>17 DEF CalcInv
(* The request leaves the worker's hands, its result is the only answer.   *)
LEMMA WorkerSendsInv ==
  ASSUME CalcInv, NEW op \in Operations, WorkerSends(op) PROVE CalcInv'
<1> DEFINE c == job[op].client
           r == Result(op, job[op].input)
<1> USE ClientsAssumption DEF WorkerProceeds, clientVars, mainVars
<1>1. /\ workerAt[op] = "send"
      /\ job[op] \in Requests
      /\ Fresh(job[op], op)
      /\ ~DividesByZero(op, job[op].input)
  BY DEF WorkerSends, CalcInv, ServedFresh, Working
<1>2. c \in Clients /\ ServerQueue[c] = op /\ job[op].input = asked[c] /\ r \in Nat
  BY <1>1, ResultType DEF Requests, Fresh
<1>3. ~Queued(c) /\ Served(c) /\ ~Answered(c)
  BY <1>1, <1>2 DEF CalcInv, OnePlace, Served, Serves
<1>4. Append(answers[c], r) = <<r>>
  <2>1. answers[c] = <<>>
    BY <1>3 DEF Answered
  <2>2. \A x : Append(<<>>, x) = <<x>>
    OBVIOUS
  <2> QED
    BY <2>1, <2>2
<1>5. /\ workerAt' = [workerAt EXCEPT ![op] = "receive"]
      /\ workerAt'[op] = "receive"
      /\ answers' = [answers EXCEPT ![c] = <<r>>]
      /\ answers'[c] = <<r>>
      /\ \A o \in Operations : o # op => workerAt'[o] = workerAt[o]
      /\ \A d \in Clients : d # c => answers'[d] = answers[d]
      /\ UNCHANGED <<requests, stopQueued, at, asked, job, mainAt, nextStop, sigint, up>>
  BY <1>2, <1>4 DEF WorkerSends, CalcInv, CalcTypes, TypeOK
<1>6. CalcTypes'
  <2>1. answers' \in [Clients -> Seq(Nat)]
    BY <1>2, <1>5 DEF CalcInv, CalcTypes, TypeOK
  <2>2. workerAt' \in [Operations -> WorkerSteps]
    BY <1>5 DEF CalcInv, CalcTypes, TypeOK, WorkerSteps
  <2> QED
    BY <1>5, <2>1, <2>2 DEF CalcInv, CalcTypes, TypeOK, Stored
<1>7. answers'[c] # <<>> /\ Len(answers'[c]) = 1 /\ answers'[c][1] = r
  BY <1>5
<1>8. ~DividesByZero(ServerQueue[c], asked[c]) /\ r = Result(ServerQueue[c], asked[c])
  BY <1>1, <1>2
<1>9. at[c] \notin Idle
  BY <1>1 DEF Fresh
<1> HIDE DEF c, r
<1>10. \A d \in Clients : Queued(d)' <=> Queued(d)
  BY <1>5 DEF Queued, Queue
<1>11. \A d \in Clients : Served(d)' <=> (Served(d) /\ d # c)
  BY <1>2, <1>5 DEF Served, Serves, c
<1>12. \A d \in Clients : Answered(d)' <=> (Answered(d) \/ d = c)
  BY <1>5, <1>7 DEF Answered
<1>13. QueuedFresh' /\ QueuedOnce'
  BY <1>5 DEF CalcInv, QueuedFresh, QueuedOnce, Fresh
<1>14. ServedFresh'
  <2> SUFFICES ASSUME NEW o \in Operations, Working(o)'
               PROVE  /\ job[o] \in Requests
                      /\ Fresh(job[o], o)'
                      /\ workerAt'[o] # "compute" => ~DividesByZero(o, job[o].input)
    BY <1>5 DEF ServedFresh, DividesByZero, Fresh
  <2>1. o # op
    BY <1>5 DEF Working
  <2> QED
    BY <1>5, <2>1 DEF CalcInv, ServedFresh, Working, Fresh
<1>15. AnswerFresh'
  <2> SUFFICES ASSUME NEW d \in Clients, Answered(d)'
               PROVE  /\ Len(answers'[d]) = 1
                      /\ at[d] \notin Idle
                      /\ ~DividesByZero(ServerQueue[d], asked[d])
                      /\ answers'[d][1] = Result(ServerQueue[d], asked[d])
    BY <1>5 DEF AnswerFresh, DividesByZero, Result
  <2>1. CASE d = c
    BY <1>7, <1>8, <1>9, <2>1
  <2>2. CASE d # c
    BY <1>5, <1>12, <2>2 DEF CalcInv, AnswerFresh
  <2> QED
    BY <2>1, <2>2
<1>16. OnePlace' /\ WaitsForSomething'
  BY <1>3, <1>5, <1>10, <1>11, <1>12 DEF CalcInv, OnePlace, WaitsForSomething
<1> QED
  BY <1>6, <1>13, <1>14, <1>15, <1>16 DEF CalcInv

(* The steps of a worker that move no request.                             *)
LEMMA WorkerMoves ==
  ASSUME CalcInv, NEW op \in Operations, NEW to \in WorkerSteps,
         workerAt' = [workerAt EXCEPT ![op] = to],
         \/ Working(op) /\ to \in {"open", "send"} /\ ~DividesByZero(op, job[op].input)
         \/ ~Working(op) /\ to = "stopped",
         stopQueued' = stopQueued \/ stopQueued' = [stopQueued EXCEPT ![op] = FALSE],
         UNCHANGED <<requests, answers, clientVars, job, mainVars, up>>
  PROVE  CalcInv'
<1> USE DEF clientVars, mainVars
<1>1. workerAt'[op] = to /\ \A o \in Operations : o # op => workerAt'[o] = workerAt[o]
  BY DEF CalcInv, CalcTypes, TypeOK
<1>2. \A o \in Operations : Stored(o)' <= MaxMsg
  <2> SUFFICES ASSUME NEW o \in Operations PROVE Stored(o)' <= MaxMsg
    OBVIOUS
  <2>1. Stored(o) <= MaxMsg /\ Len(requests[o]) \in Nat
    BY DEF CalcInv, CalcTypes, TypeOK
  <2> DEFINE stop == IF stopQueued[o] THEN 1 ELSE 0
             stopAfter == IF stopQueued'[o] THEN 1 ELSE 0
  <2>2. stopQueued' = stopQueued \/ stopQueued'[o] = stopQueued[o] \/ stopQueued'[o] = FALSE
    BY DEF CalcInv, CalcTypes, TypeOK
  <2>3. stop \in {0, 1} /\ stopAfter \in {0, stop}
    BY <2>2
  <2>4. Stored(o) = Len(requests[o]) + stop /\ Stored(o)' = Len(requests[o]) + stopAfter
    BY DEF Stored
  <2> HIDE DEF stop, stopAfter
  <2> QED
    BY <2>1, <2>3, <2>4, QueueAssumption
<1>3. CalcTypes'
  BY <1>2 DEF CalcInv, CalcTypes, TypeOK
<1>4. \A o \in Operations : Working(o)' <=> Working(o)
  BY <1>1 DEF Working
<1>5. \A o \in Operations : Working(o) /\ workerAt'[o] # "compute" => ~DividesByZero(o, job[o].input)
  BY <1>1 DEF CalcInv, ServedFresh
<1> QED
  BY <1>3, <1>4, <1>5, NothingMoves

(* A crash leaves everything where it is.                                  *)
LEMMA CrashInv ==
  ASSUME CalcInv, up' \in BOOLEAN, UNCHANGED <<queueVars, clientVars, workerVars, mainVars>>
  PROVE  CalcInv'
<1> USE DEF queueVars, clientVars, workerVars, mainVars
<1>1. CalcTypes'
  BY DEF CalcInv, CalcTypes, TypeOK, Stored
<1>2. \A o \in Operations : Working(o) /\ workerAt'[o] # "compute" => ~DividesByZero(o, job[o].input)
  BY DEF CalcInv, ServedFresh
<1> QED
  BY <1>1, <1>2, NothingMoves DEF Working

LEMMA WorkerNextInv ==
  ASSUME CalcInv, NEW op \in Operations, WorkerNext(op) PROVE CalcInv'
<1> USE DEF WorkerProceeds, WorkerSteps, queueVars
<1>1. CASE WorkerStops(op)
  BY <1>1, WorkerMoves DEF WorkerStops, Working
<1>2. CASE WorkerReceives(op)
  BY <1>2, WorkerReceivesInv
<1>3. CASE WorkerComputes(op)
  BY <1>3, WorkerMoves DEF WorkerComputes, Working
<1>4. CASE WorkerTraps(op)
  BY <1>4, CrashInv DEF WorkerTraps, ServerCrashes
<1>5. CASE WorkerOpens(op)
  <2>1. ~DividesByZero(op, job[op].input)
    BY <1>5 DEF WorkerOpens, CalcInv, ServedFresh, Working
  <2> QED
    BY <1>5, <2>1, WorkerMoves DEF WorkerOpens, Working
<1>6. CASE WorkerOpenFails(op)
  BY <1>6, CrashInv DEF WorkerOpenFails, ServerCrashes
<1>7. CASE WorkerSends(op)
  BY <1>7, WorkerSendsInv
<1> QED
  BY <1>1, <1>2, <1>3, <1>4, <1>5, <1>6, <1>7 DEF WorkerNext
-----------------------------------------------------------------------------
(* Main and the user only touch the stop messages.                         *)
LEMMA OthersMoveNothing ==
  ASSUME CalcInv, CalcTypes', UNCHANGED <<requests, answers, clientVars, workerVars>>
  PROVE  CalcInv'
<1> USE DEF clientVars, workerVars
<1>1. \A o \in Operations : Working(o) /\ workerAt'[o] # "compute" => ~DividesByZero(o, job[o].input)
  BY DEF CalcInv, ServedFresh
<1> QED
  BY <1>1, NothingMoves DEF Working

LEMMA MainSendsStopInv ==
  ASSUME CalcInv, MainSendsStop PROVE CalcInv'
<1> DEFINE op == StopOrder[nextStop]
<1> USE DEF MainProceeds, clientVars, workerVars
<1>1. nextStop \in 1 .. 3 /\ op \in Operations
  BY DEF MainSendsStop, CalcInv, CalcTypes, StopOrder, Operations
<1>2. /\ stopQueued' = [stopQueued EXCEPT ![op] = TRUE]
      /\ nextStop' = nextStop + 1
      /\ mainAt' = IF nextStop < 3 THEN "stopping" ELSE "joining"
      /\ UNCHANGED <<requests, answers, at, asked, workerAt, job, sigint, up>>
      /\ Stored(op) < MaxMsg
  BY DEF MainSendsStop
<1>3. \A o \in Operations : Stored(o)' <= MaxMsg
  <2> SUFFICES ASSUME NEW o \in Operations PROVE Stored(o)' <= MaxMsg
    OBVIOUS
  <2>1. Stored(o) <= MaxMsg /\ Len(requests[o]) \in Nat
    BY DEF CalcInv, CalcTypes, TypeOK
  <2>2. CASE o = op
    <3> DEFINE stop == IF stopQueued[o] THEN 1 ELSE 0
               stopAfter == IF stopQueued'[o] THEN 1 ELSE 0
    <3>1. stop \in {0, 1} /\ stopAfter \in {0, 1}
      OBVIOUS
    <3>2. Stored(o) = Len(requests[o]) + stop /\ Stored(o)' = Len(requests[o]) + stopAfter
      BY <1>2 DEF Stored
    <3>3. Stored(o) < MaxMsg
      BY <1>2, <2>2
    <3> HIDE DEF stop, stopAfter
    <3> QED
      BY <2>1, <3>1, <3>2, <3>3, QueueAssumption
  <2>3. CASE o # op
    <3>1. stopQueued'[o] = stopQueued[o]
      BY <1>2, <2>3 DEF CalcInv, CalcTypes, TypeOK
    <3>2. Stored(o)' = Stored(o)
      BY <1>2, <3>1 DEF Stored
    <3> QED
      BY <2>1, <3>2
  <2> QED
    BY <2>2, <2>3
<1>4. CalcTypes'
  <2>1. stopQueued' \in [Operations -> BOOLEAN]
    BY <1>1, <1>2 DEF CalcInv, CalcTypes, TypeOK
  <2>2. mainAt' \in MainSteps /\ nextStop' \in 1 .. 4 /\ (mainAt' \in {"sigwait", "stopping"} => nextStop' \in 1 .. 3)
    BY <1>1, <1>2 DEF MainSteps
  <2> QED
    BY <1>2, <1>3, <2>1, <2>2 DEF CalcInv, CalcTypes, TypeOK
<1> QED
  BY <1>2, <1>4, OthersMoveNothing

(* The other steps of main, and Ctrl+C, do not touch a queue.              *)
LEMMA OtherNextInv ==
  ASSUME CalcInv, MainWakes \/ MainJoins \/ MainUnlinks \/ UserInterrupts PROVE CalcInv'
<1> USE DEF queueVars, clientVars, workerVars
<1>1. UNCHANGED <<requests, stopQueued, answers, at, asked, workerAt, job, nextStop, up>>
  BY DEF MainWakes, MainJoins, MainUnlinks, UserInterrupts
<1>2. mainAt' \in MainSteps /\ sigint' \in BOOLEAN
  BY DEF MainWakes, MainJoins, MainUnlinks, UserInterrupts, MainProceeds, MainSteps,
    CalcInv, CalcTypes, TypeOK
<1>3. mainAt' \in {"sigwait", "stopping"} => nextStop \in 1 .. 3
  BY DEF MainWakes, MainJoins, MainUnlinks, UserInterrupts, MainProceeds, CalcInv, CalcTypes
<1>4. CalcTypes'
  BY <1>1, <1>2, <1>3 DEF CalcInv, CalcTypes, TypeOK, Stored
<1> QED
  BY <1>1, <1>4, OthersMoveNothing

LEMMA CalcStepInv == CalcInv /\ [Next]_vars => CalcInv'
<1> SUFFICES ASSUME CalcInv, [Next]_vars PROVE CalcInv'
  OBVIOUS
<1>1. ASSUME NEW c \in Clients, ClientNext(c) PROVE CalcInv'
  BY <1>1, ClientNextInv
<1>2. ASSUME NEW op \in Operations, WorkerNext(op) PROVE CalcInv'
  BY <1>2, WorkerNextInv
<1>3. CASE MainNext
  BY <1>3, MainSendsStopInv, OtherNextInv DEF MainNext
<1>4. CASE UserInterrupts
  BY <1>4, OtherNextInv
<1>5. CASE UNCHANGED vars
  BY <1>5, CrashInv DEF vars, CalcInv, CalcTypes, TypeOK
<1> QED
  BY <1>1, <1>2, <1>3, <1>4, <1>5 DEF Next

LEMMA CalcInvHolds == Spec => []CalcInv
  BY CalcInitInv, CalcStepInv, PTL DEF Spec
-----------------------------------------------------------------------------
(* Type correctness; in particular no queue ever holds more than its limit *)
(* of messages, stop messages included (server.c:42-160, client.c:63-97). *)
THEOREM CalculatorTypeCorrect == Spec => []TypeOK
<1>1. CalcInv => TypeOK
  BY DEF CalcInv, CalcTypes
<1> QED
  BY <1>1, CalcInvHolds, PTL

(* An answer in a client's queue answers the request sent last, however    *)
(* late it comes and whoever has died (client.c:80-92, server.c:52-76).    *)
THEOREM CalculatorAnswersMatch == Spec => []AnswersMatch
<1>1. CalcInv => AnswersMatch
  BY DEF CalcInv, AnswerFresh, AnswersMatch, Answered, CalcTypes, TypeOK
<1> QED
  BY <1>1, CalcInvHolds, PTL

(* A client has at most one request under way, and one exactly while it    *)
(* waits, for any number of clients (client.c:63-97, server.c:42-78).     *)
THEOREM CalculatorOneOutstanding == Spec => []OneOutstanding
<1>1. ASSUME CalcInv PROVE OneOutstanding
  <2> SUFFICES ASSUME NEW c \in Clients
               PROVE  Outstanding(c) <= 1 /\ (at[c] = "wait" => Outstanding(c) = 1)
    BY DEF OneOutstanding
  <2> DEFINE q == {i \in 1 .. Len(Queue(c)) : Queue(c)[i].client = c}
             n == Cardinality(q)
             s == IF Served(c) THEN 1 ELSE 0
             a == Len(answers[c])
  <2>1. Outstanding(c) = n + s + a
    BY DEF Outstanding, Queue, Served
  <2>2. n = IF Queued(c) THEN 1 ELSE 0
    <3>1. CASE Queued(c)
      <4>1. PICK i \in 1 .. Len(Queue(c)) : Queue(c)[i].client = c
        BY <3>1 DEF Queued
      <4>2. q = {i}
        BY <1>1, <4>1, ClientsAssumption DEF CalcInv, QueuedOnce, Queue
      <4> QED
        BY <3>1, <4>2, FS_Singleton
    <3>2. CASE ~Queued(c)
      <4>1. q = {}
        BY <3>2 DEF Queued
      <4> QED
        BY <3>2, <4>1, FS_EmptySet
    <3> QED
      BY <3>1, <3>2
  <2>3. a = IF Answered(c) THEN 1 ELSE 0
    <3>1. CASE Answered(c)
      BY <1>1, <3>1 DEF CalcInv, AnswerFresh
    <3>2. CASE ~Answered(c)
      BY <3>2, EmptySeq DEF Answered
    <3> QED
      BY <3>1, <3>2
  <2>4. s = IF Served(c) THEN 1 ELSE 0
    OBVIOUS
  <2> HIDE DEF n, s, a
  <2> QED
    BY <1>1, <2>1, <2>2, <2>3, <2>4 DEF CalcInv, OnePlace, WaitsForSomething
<1> QED
  BY <1>1, CalcInvHolds, PTL
-----------------------------------------------------------------------------
(* What a client sees of the calculator, as the abstract service has it.   *)
Asking == [c \in Clients |-> IF at[c] = "wait" THEN <<asked[c]>> ELSE <<>>]
Ready == [c \in Clients |-> IF at[c] = "wait" THEN answers[c] ELSE <<>>]
Left == [c \in Clients |-> Leaves(c)]

LEMMA ViewIsMapped ==
  /\ Call!callVars = <<Asking, Ready, Left>>
  /\ \A c \in Clients :
       /\ Call!Ask(c) <=> /\ ~Left[c]
                          /\ Asking[c] = <<>>
                          /\ \E q \in Inputs : Asking' = [Asking EXCEPT ![c] = <<q>>]
                          /\ Ready' = Ready /\ Left' = Left
       /\ Call!Take(c) <=> /\ Ready[c] # <<>>
                           /\ Asking' = [Asking EXCEPT ![c] = <<>>]
                           /\ Ready' = [Ready EXCEPT ![c] = <<>>]
                           /\ Left' = Left
       /\ Call!Stop(c) <=> /\ ~Left[c]
                           /\ Left' = [Left EXCEPT ![c] = TRUE]
                           /\ Asking' = [Asking EXCEPT ![c] = <<>>]
                           /\ Ready' = [Ready EXCEPT ![c] = <<>>]
  BY Zenon DEF Call!callVars, Call!Ask, Call!Take, Call!Stop, Asking, Ready, Left

(* A step that no waiting client can see.                                  *)
LEMMA UnseenStep ==
  ASSUME \A d \in Clients : /\ at'[d] = "wait" <=> at[d] = "wait"
                            /\ Leaves(d)' <=> Leaves(d)
                            /\ at[d] = "wait" => asked'[d] = asked[d] /\ answers'[d] = answers[d]
  PROVE  UNCHANGED Call!callVars
<1>1. Asking' = Asking /\ Ready' = Ready
  BY DEF Asking, Ready
<1>2. Left' = Left
  BY DEF Left, Leaves
<1> QED
  BY <1>1, <1>2, Zenon DEF Call!callVars, Asking, Ready, Left

LEMMA AnyCallStep ==
  \A d \in Clients : Call!Ask(d) \/ Call!Answer(d) \/ Call!Take(d) \/ Call!Stop(d) => Call!CallNext
  BY Zenon DEF Call!CallNext

(* A client that leaves stops asking, whatever was under way.              *)
LEMMA LeavingStops ==
  ASSUME CalcInv, NEW c \in Clients, ~Leaves(c),
         NEW to \in {"unlink", "gone", "failed", "dead"},
         at' = [at EXCEPT ![c] = to], UNCHANGED <<asked, answers>>
  PROVE  Call!Stop(c)
<1>1. /\ at'[c] = to
      /\ \A d \in Clients : d # c => at'[d] = at[d]
  BY DEF CalcInv, CalcTypes, TypeOK
<1>2. Left' = [Left EXCEPT ![c] = TRUE]
  <2>1. Leaves(c)' = TRUE /\ \A d \in Clients : d # c => Leaves(d)' = Leaves(d)
    BY <1>1 DEF Leaves
  <2>2. \A d \in Clients : Left'[d] = [Left EXCEPT ![c] = TRUE][d]
    BY <2>1 DEF Left
  <2> QED
    BY <2>2, Zenon DEF Left
<1>3. Asking' = [Asking EXCEPT ![c] = <<>>] /\ Ready' = [Ready EXCEPT ![c] = <<>>]
  BY <1>1 DEF Asking, Ready
<1>4. ~Left[c]
  BY DEF Left
<1> QED
  BY <1>2, <1>3, <1>4, ViewIsMapped

(* The client that sends had no answer left from an earlier question.      *)
LEMMA SendingAsks ==
  ASSUME CalcInv, NEW c \in Clients, ClientSends(c) PROVE Call!Ask(c)
<1>1. ~Answered(c)
  BY IdleHasNothing DEF ClientSends, Proceed, Idle
<1>2. /\ at[c] = "send" /\ at'[c] = "wait"
      /\ \A d \in Clients : d # c => at'[d] = at[d]
      /\ asked' = asked /\ answers' = answers
      /\ asked[c] \in Inputs
  BY DEF ClientSends, Proceed, CalcInv, CalcTypes, TypeOK
<1>3. Asking[c] = <<>> /\ Asking' = [Asking EXCEPT ![c] = <<asked[c]>>]
  BY <1>2 DEF Asking
<1>4. Ready' = Ready
  <2>1. answers[c] = <<>>
    BY <1>1 DEF Answered
  <2> QED
    BY <1>2, <2>1 DEF Ready
<1>5. ~Left[c] /\ Left' = Left
  <2>1. ~Leaves(c) /\ \A d \in Clients : Leaves(d)' = Leaves(d)
    BY <1>2 DEF Leaves
  <2> QED
    BY <2>1 DEF Left
<1> QED
  BY <1>2, <1>3, <1>4, <1>5, ViewIsMapped

LEMMA ReceivingTakes ==
  ASSUME CalcInv, NEW c \in Clients, ClientReceives(c) PROVE Call!Take(c)
<1>1. /\ at[c] = "wait" /\ at'[c] = "open"
      /\ \A d \in Clients : d # c => at'[d] = at[d] /\ answers'[d] = answers[d]
      /\ asked' = asked /\ answers[c] # <<>>
  BY DEF ClientReceives, Proceed, CalcInv, CalcTypes, TypeOK
<1>2. Asking' = [Asking EXCEPT ![c] = <<>>] /\ Ready' = [Ready EXCEPT ![c] = <<>>]
  BY <1>1 DEF Asking, Ready
<1>3. Ready[c] # <<>>
  BY <1>1 DEF Ready
<1>4. Left' = Left
  BY <1>1 DEF Left, Leaves
<1> QED
  BY <1>2, <1>3, <1>4, ViewIsMapped

(* The result goes to the client that has asked for it, unless it has left. *)
LEMMA SendingAnswers ==
  ASSUME CalcInv, NEW op \in Operations, WorkerSends(op)
  PROVE  [Call!CallNext]_(Call!callVars)
<1> USE ClientsAssumption
<1>1. /\ workerAt[op] = "send"
      /\ job[op] \in Requests
      /\ Fresh(job[op], op)
      /\ ~DividesByZero(op, job[op].input)
  BY DEF WorkerSends, WorkerProceeds, CalcInv, ServedFresh, Working
<1>2. PICK c \in Clients : /\ c = job[op].client
                          /\ ServerQueue[c] = op
                          /\ job[op].input = asked[c]
  BY <1>1 DEF Requests, Fresh
<1> DEFINE r == Result(op, job[op].input)
<1>3. ~Answered(c)
  BY <1>1, <1>2 DEF CalcInv, OnePlace, Served, Serves
<1>4. Append(answers[c], r) = <<r>>
  <2>1. answers[c] = <<>>
    BY <1>3 DEF Answered
  <2>2. \A x : Append(<<>>, x) = <<x>>
    OBVIOUS
  <2> QED
    BY <2>1, <2>2
<1>5. /\ answers'[c] = <<r>>
      /\ \A d \in Clients : d # c => answers'[d] = answers[d]
      /\ at' = at /\ asked' = asked
  BY <1>2, <1>4 DEF WorkerSends, CalcInv, CalcTypes, TypeOK, clientVars
<1>6. asked[c] \in Inputs
  BY <1>2 DEF CalcInv, CalcTypes, TypeOK
<1>7. CASE at[c] = "wait"
  <2>1. Asking' = Asking /\ Left' = Left
    BY <1>5 DEF Asking, Left, Leaves
  <2>2. Asking[c] = <<asked[c]>> /\ Ready[c] = <<>>
    BY <1>2, <1>3, <1>7 DEF Asking, Ready, Answered
  <2>3. Ready' = [Ready EXCEPT ![c] = <<r>>]
    BY <1>2, <1>5, <1>7 DEF Ready
  <2>4. Head(Asking[c]) = asked[c] /\ Asking[c] # <<>>
    BY <2>2
  <2>5. r = Result(ServerQueue[c], asked[c]) /\ ~DividesByZero(ServerQueue[c], asked[c])
    BY <1>1, <1>2
  <2> HIDE DEF r
  <2> DEFINE right == [d \in Clients |-> [in \in Inputs |->
                        IF DividesByZero(ServerQueue[d], in)
                        THEN {} ELSE {Result(ServerQueue[d], in)}]]
  <2>6. r \in right[c][Head(Asking[c])]
    BY <1>2, <1>6, <2>4, <2>5
  <2>7. Call!Answer(c)
    <3>1. Call!Answer(c) <=> /\ Asking[c] # <<>>
                             /\ Ready[c] = <<>>
                             /\ \E x \in right[c][Head(Asking[c])] :
                                  Ready' = [Ready EXCEPT ![c] = <<x>>]
                             /\ Asking' = Asking /\ Left' = Left
      BY Zenon DEF Call!Answer, Asking, Ready, Left
    <3> HIDE DEF right
    <3> QED
      BY <2>1, <2>2, <2>3, <2>4, <2>6, <3>1
  <2>8. Call!CallNext
    BY <2>7, AnyCallStep
  <2> QED
    BY <2>8
<1>8. CASE at[c] # "wait"
  <2>1. UNCHANGED Call!callVars
    BY <1>5, <1>8, UnseenStep DEF Leaves
  <2> QED
    BY <2>1
<1> QED
  BY <1>7, <1>8, Zenon


LEMMA ClientStepMaps ==
  ASSUME CalcInv, NEW c \in Clients, ClientNext(c)
  PROVE  Call!CallNext \/ UNCHANGED Call!callVars
<1> USE DEF Proceed, queueVars
<1>1. at \in [Clients -> ClientSteps]
  BY DEF CalcInv, CalcTypes, TypeOK
<1>2. CASE ClientOpens(c)
  BY <1>1, <1>2, UnseenStep DEF ClientOpens, Leaves
<1>3. CASE ClientOpenFails(c)
  <2>1. ~Leaves(c)
    BY <1>3 DEF ClientOpenFails, Leaves
  <2> QED
    BY <1>3, <2>1, LeavingStops, AnyCallStep DEF ClientOpenFails
<1>4. CASE ClientReads(c)
  <2>1. /\ at[c] = "scan" /\ at'[c] = "send"
        /\ \A d \in Clients : d # c => at'[d] = at[d] /\ asked'[d] = asked[d]
        /\ answers' = answers
    BY <1>4 DEF ClientReads, CalcInv, CalcTypes, TypeOK
  <2> QED
    BY <2>1, UnseenStep DEF Leaves
<1>5. CASE EndOfInput(c)
  <2>1. ~Leaves(c)
    BY <1>5 DEF EndOfInput, Leaves
  <2> QED
    BY <1>5, <2>1, LeavingStops, AnyCallStep DEF EndOfInput
<1>6. CASE ClientSends(c)
  BY <1>6, SendingAsks, AnyCallStep
<1>7. CASE ClientReceives(c)
  BY <1>7, ReceivingTakes, AnyCallStep
<1>8. CASE ClientTimesOut(c)
  <2>1. ~Leaves(c)
    BY <1>8 DEF ClientTimesOut, Leaves
  <2> QED
    BY <1>8, <2>1, LeavingStops, AnyCallStep DEF ClientTimesOut
<1>9. CASE ClientUnlinks(c)
  BY <1>1, <1>9, UnseenStep DEF ClientUnlinks, Leaves
<1>10. CASE ClientDies(c)
  <2>1. CASE Leaves(c)
    BY <1>1, <1>10, <2>1, UnseenStep DEF ClientDies, Leaves
  <2>2. CASE ~Leaves(c)
    BY <1>10, <2>2, LeavingStops, AnyCallStep DEF ClientDies
  <2> QED
    BY <2>1, <2>2
<1> QED
  BY <1>2, <1>3, <1>4, <1>5, <1>6, <1>7, <1>8, <1>9, <1>10 DEF ClientNext

LEMMA CalcStepMaps == CalcInv /\ [Next]_vars => [Call!CallNext]_(Call!callVars)
<1> SUFFICES ASSUME CalcInv, [Next]_vars
             PROVE  [Call!CallNext]_(Call!callVars)
  OBVIOUS
<1>1. ASSUME UNCHANGED clientVars, UNCHANGED answers
      PROVE  UNCHANGED Call!callVars
  BY <1>1, UnseenStep DEF clientVars, Leaves
<1>2. ASSUME NEW c \in Clients, ClientNext(c) PROVE [Call!CallNext]_(Call!callVars)
  BY <1>2, ClientStepMaps
<1>3. ASSUME NEW op \in Operations, WorkerNext(op) PROVE [Call!CallNext]_(Call!callVars)
  <2>1. CASE WorkerSends(op)
    BY <2>1, SendingAnswers
  <2>2. CASE ~WorkerSends(op)
    <3>1. UNCHANGED clientVars /\ UNCHANGED answers
      BY <1>3, <2>2 DEF WorkerNext, WorkerStops, WorkerReceives, WorkerComputes, WorkerTraps,
        WorkerOpens, WorkerOpenFails, ServerCrashes, queueVars
    <3> QED
      BY <1>1, <3>1
  <2> QED
    BY <2>1, <2>2
<1>4. CASE MainNext \/ UserInterrupts \/ UNCHANGED vars
  <2>1. UNCHANGED clientVars /\ UNCHANGED answers
    BY <1>4 DEF MainNext, MainWakes, MainSendsStop, MainJoins, MainUnlinks, UserInterrupts,
      vars, queueVars
  <2> QED
    BY <1>1, <2>1
<1> QED
  BY <1>2, <1>3, <1>4 DEF Next

LEMMA CalcInitMaps == Init => Call!CallInit
<1> SUFFICES ASSUME Init PROVE Call!CallInit
  OBVIOUS
<1>1. /\ Asking = [c \in Clients |-> <<>>]
      /\ Ready = [c \in Clients |-> <<>>]
      /\ Left = [c \in Clients |-> FALSE]
  <2>1. \A c \in Clients : at[c] # "wait" /\ Leaves(c) = FALSE
    BY DEF Init, Leaves
  <2>2. Left = [c \in Clients |-> FALSE]
    BY <2>1, Zenon DEF Left
  <2> QED
    BY <2>1, <2>2 DEF Asking, Ready
<1> QED
  BY <1>1, Zenon DEF Call!CallInit, Asking, Ready, Left

(* The calculator implements the service: each client's question gets at   *)
(* most one answer, a right one to this question, wherever messages wait,  *)
(* clients give up or die and the server crashes or stops, for any clients,*)
(* operations, numbers and length of the queues (client.c:63-97,          *)
(* server.c:42-78).                                                        *)
THEOREM CalculatorImplementsCalls == Spec => RefinesCalls
  BY CalcInvHolds, CalcInitMaps, CalcStepMaps, PTL DEF Spec, RefinesCalls, Call!CallSpec
=============================================================================
