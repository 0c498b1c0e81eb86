---------------------------- MODULE MqCalculator ----------------------------
(***************************************************************************)
(* The calculator over POSIX message queues of                             *)
(* Lab2_tutorial/Zad1/Etap3: server.c has one request queue and one thread *)
(* per operation, client.c sends a pair of numbers with its pid and waits  *)
(* 100 ms for the answer in a queue of its own.  SIGINT makes the server's *)
(* main thread send every worker a stop message of higher priority.        *)
(*                                                                         *)
(* A queue outlives the processes that use it, and a process that has      *)
(* opened it may use it after its name is unlinked.  A worker that cannot  *)
(* open the client's queue exits, and a worker that divides by zero is     *)
(* killed: both take the whole server down.  Closing descriptors and       *)
(* printing are left out; numbers are natural, so that C's / and % are     *)
(* \div and %.                                                             *)
(***************************************************************************)
EXTENDS Naturals, Sequences, FiniteSets

CONSTANTS Clients,
          ServerQueue,    \* ServerQueue[c]: argv[1], the operation c asks for
          Inputs,         \* the pairs of numbers a user types
          MaxMsg,         \* mq_maxmsg
          NoJob

Operations == {"sum", "div", "mod"}
StopOrder == <<"sum", "div", "mod">>
Requests == [client : Clients, input : Inputs]

ASSUME ClientsAssumption == ServerQueue \in [Clients -> Operations]
ASSUME InputsAssumption == Inputs \subseteq Nat \X Nat /\ Inputs # {}
ASSUME QueueAssumption == MaxMsg \in Nat \ {0} /\ NoJob \notin Requests

VARIABLES requests,       \* requests[op]: requests in the server's queue, oldest first
          stopQueued,     \* stopQueued[op]: the stop message is in that queue too
          answers,        \* answers[c]: the answers in c's queue
          at,             \* at[c]: next step of client c
          asked,          \* asked[c]: the numbers in c's msg
          workerAt,       \* workerAt[op]: next step of the server's thread
          job,            \* job[op]: its msg
          mainAt,         \* next step of the server's main thread
          nextStop,       \* how many stop messages main goes on from
          sigint,         \* SIGINT is pending
          up              \* the server has not crashed

queueVars == <<requests, stopQueued, answers>>
clientVars == <<at, asked>>
workerVars == <<workerAt, job>>
mainVars == <<mainAt, nextStop, sigint>>
vars == <<queueVars, clientVars, workerVars, mainVars, up>>

ClientSteps == {"open", "scan", "send", "wait", "unlink", "gone", "failed", "dead"}
WorkerSteps == {"receive", "compute", "open", "send", "stopped"}
MainSteps == {"sigwait", "stopping", "joining", "unlink", "ended"}

Stored(op) == Len(requests[op]) + (IF stopQueued[op] THEN 1 ELSE 0)

TypeOK == /\ requests \in [Operations -> Seq(Requests)]
          /\ stopQueued \in [Operations -> BOOLEAN]
          /\ \A op \in Operations : Stored(op) <= MaxMsg
          /\ answers \in [Clients -> Seq(Nat)]
          /\ at \in [Clients -> ClientSteps]
          /\ asked \in [Clients -> Inputs]
          /\ workerAt \in [Operations -> WorkerSteps]
          /\ job \in [Operations -> Requests \cup {NoJob}]
          /\ mainAt \in MainSteps
          /\ nextStop \in 1 .. 4
          /\ sigint \in BOOLEAN
          /\ up \in BOOLEAN

(* The queues exist and the threads run; asked is unset before the first   *)
(* scanf, any value stands for it.                                         *)
Init == /\ requests = [op \in Operations |-> <<>>]
        /\ stopQueued = [op \in Operations |-> FALSE]
        /\ answers = [c \in Clients |-> <<>>]
        /\ at = [c \in Clients |-> "open"]
        /\ asked \in [Clients -> {CHOOSE in \in Inputs : TRUE}]
        /\ workerAt = [op \in Operations |-> "receive"]
        /\ job = [op \in Operations |-> NoJob]
        /\ mainAt = "sigwait"
        /\ nextStop = 1
        /\ sigint = FALSE
        /\ up = TRUE
-----------------------------------------------------------------------------
(* The client *)

Proceed(c, from, to) == /\ at[c] = from
                        /\ at' = [at EXCEPT ![c] = to]

ClientOpens(c) == /\ Proceed(c, "open", "scan")
                  /\ mainAt # "ended"
                  /\ UNCHANGED <<queueVars, asked, workerVars, mainVars, up>>

(* The server has removed its queue: exit without removing the own one. *)
ClientOpenFails(c) == /\ Proceed(c, "open", "failed")
                      /\ mainAt = "ended"
                      /\ UNCHANGED <<queueVars, asked, workerVars, mainVars, up>>

ClientReads(c) == /\ Proceed(c, "scan", "send")
                  /\ \E in \in Inputs : asked' = [asked EXCEPT ![c] = in]
                  /\ UNCHANGED <<queueVars, workerVars, mainVars, up>>

EndOfInput(c) == /\ Proceed(c, "scan", "unlink")
                 /\ UNCHANGED <<queueVars, asked, workerVars, mainVars, up>>

(* Mutant: a non-blocking queue, whose EAGAIN the client ignores. *)
ClientSendsOrDrops(c) ==
  LET op == ServerQueue[c]
  IN /\ Proceed(c, "send", "wait")
     /\ requests' = IF Stored(op) < MaxMsg
                    THEN [requests EXCEPT ![op] = Append(@, [client |-> c, input |-> asked[c]])]
                    ELSE requests
     /\ UNCHANGED <<stopQueued, answers, asked, workerVars, mainVars, up>>

(* mq_send; it blocks while the queue is full. *)
ClientSends(c) == LET op == ServerQueue[c]
                  IN /\ Proceed(c, "send", "wait")
                     /\ Stored(op) < MaxMsg
                     /\ requests' = [requests EXCEPT ![op] =
                                       Append(@, [client |-> c, input |-> asked[c]])]
                     /\ UNCHANGED <<stopQueued, answers, asked, workerVars, mainVars, up>>

(* mq_timedreceive returns the answer. *)
ClientReceives(c) == /\ Proceed(c, "wait", "open")
                     /\ answers[c] # <<>>
                     /\ answers' = [answers EXCEPT ![c] = Tail(@)]
                     /\ UNCHANGED <<requests, stopQueued, asked, workerVars, mainVars, up>>

(* Mutant: the client tries again after a timeout. *)
ClientRetries(c) == /\ Proceed(c, "wait", "open")
                    /\ answers[c] = <<>>
                    /\ UNCHANGED <<queueVars, asked, workerVars, mainVars, up>>

(* No answer within 100 ms: leave the loop. *)
ClientTimesOut(c) == /\ Proceed(c, "wait", "unlink")
                     /\ answers[c] = <<>>
                     /\ UNCHANGED <<queueVars, asked, workerVars, mainVars, up>>

ClientUnlinks(c) == /\ Proceed(c, "unlink", "gone")
                    /\ UNCHANGED <<queueVars, asked, workerVars, mainVars, up>>

(* The user kills the client, whose queue stays behind. *)
ClientDies(c) == /\ at[c] \notin {"gone", "failed", "dead"}
                 /\ at' = [at EXCEPT ![c] = "dead"]
                 /\ UNCHANGED <<queueVars, asked, workerVars, mainVars, up>>
-----------------------------------------------------------------------------
(* server_work *)

WorkerProceeds(op, from, to) == /\ up
                                /\ workerAt[op] = from
                                /\ workerAt' = [workerAt EXCEPT ![op] = to]

(* The server's process ends at once; its queues stay. *)
ServerCrashes(op, step) == /\ up
                           /\ workerAt[op] = step
                           /\ up' = FALSE
                           /\ UNCHANGED <<queueVars, clientVars, workerVars, mainVars>>

(* The stop message has the higher priority and is received first. *)
WorkerStops(op) == /\ WorkerProceeds(op, "receive", "stopped")
                   /\ stopQueued[op]
                   /\ stopQueued' = [stopQueued EXCEPT ![op] = FALSE]
                   /\ UNCHANGED <<requests, answers, clientVars, job, mainVars, up>>

WorkerReceives(op) == /\ WorkerProceeds(op, "receive", "compute")
                      /\ ~stopQueued[op]
                      /\ requests[op] # <<>>
                      /\ job' = [job EXCEPT ![op] = Head(requests[op])]
                      /\ requests' = [requests EXCEPT ![op] = Tail(@)]
                      /\ UNCHANGED <<stopQueued, answers, clientVars, mainVars, up>>

DividesByZero(op, in) == op # "sum" /\ in[2] = 0

Result(op, in) == CASE op = "sum" -> in[1] + in[2]
                    [] op = "div" -> in[1] \div in[2]
                    [] op = "mod" -> in[1] % in[2]

WorkerComputes(op) == /\ WorkerProceeds(op, "compute", "open")
                      /\ ~DividesByZero(op, job[op].input)
                      /\ UNCHANGED <<queueVars, clientVars, job, mainVars, up>>

(* SIGFPE *)
WorkerTraps(op) == /\ ServerCrashes(op, "compute")
                   /\ DividesByZero(op, job[op].input)

WorkerOpens(op) == /\ WorkerProceeds(op, "open", "send")
                   /\ at[job[op].client] # "gone"
                   /\ UNCHANGED <<queueVars, clientVars, job, mainVars, up>>

(* The client has timed out and removed its queue: ERR. *)
WorkerOpenFails(op) == /\ ServerCrashes(op, "open")
                       /\ at[job[op].client] = "gone"

(* Mutant: the queue's name lacks the pid, so anyone may get the answer. *)
WorkerSendsToAnyone(op) ==
  /\ WorkerProceeds(op, "send", "receive")
  /\ \E c \in Clients : /\ ServerQueue[c] = op
                         /\ Len(answers[c]) < MaxMsg
                         /\ answers' = [answers EXCEPT ![c] =
                                          Append(@, Result(op, job[op].input))]
  /\ UNCHANGED <<requests, stopQueued, clientVars, job, mainVars, up>>

WorkerSends(op) == LET c == job[op].client
                   IN /\ WorkerProceeds(op, "send", "receive")
                      /\ Len(answers[c]) < MaxMsg
                      /\ answers' = [answers EXCEPT ![c] =
                                       Append(@, Result(op, job[op].input))]
                      /\ UNCHANGED <<requests, stopQueued, clientVars, job, mainVars, up>>
-----------------------------------------------------------------------------
(* The server's main *)

MainProceeds(from, to) == /\ up
                          /\ mainAt = from
                          /\ mainAt' = to

MainWakes == /\ MainProceeds("sigwait", "stopping")
             /\ sigint
             /\ UNCHANGED <<queueVars, clientVars, workerVars, nextStop, sigint, up>>

(* Mutant: the last stop message goes to the second queue again. *)
MainForgetsMod ==
  LET op == IF nextStop < 3 THEN StopOrder[nextStop] ELSE "div"
  IN /\ MainProceeds("stopping", IF nextStop < 3 THEN "stopping" ELSE "joining")
     /\ Stored(op) < MaxMsg
     /\ stopQueued' = [stopQueued EXCEPT ![op] = TRUE]
     /\ nextStop' = nextStop + 1
     /\ UNCHANGED <<requests, answers, clientVars, workerVars, sigint, up>>

(* mq_send of priority 1, to one queue after the other; it blocks while    *)
(* the queue is full.                                                      *)
MainSendsStop == LET op == StopOrder[nextStop]
                 IN /\ MainProceeds("stopping", IF nextStop < 3 THEN "stopping" ELSE "joining")
                    /\ Stored(op) < MaxMsg
                    /\ stopQueued' = [stopQueued EXCEPT ![op] = TRUE]
                    /\ nextStop' = nextStop + 1
                    /\ UNCHANGED <<requests, answers, clientVars, workerVars, sigint, up>>

MainJoins == /\ MainProceeds("joining", "unlink")
             /\ \A op \in Operations : workerAt[op] = "stopped"
             /\ UNCHANGED <<queueVars, clientVars, workerVars, nextStop, sigint, up>>

(* Removes the three queues; a client uses only one of them. *)
MainUnlinks == /\ MainProceeds("unlink", "ended")
               /\ UNCHANGED <<queueVars, clientVars, workerVars, nextStop, sigint, up>>

UserInterrupts == /\ ~sigint
                  /\ sigint' = TRUE
                  /\ UNCHANGED <<queueVars, clientVars, workerVars, mainAt, nextStop, up>>
-----------------------------------------------------------------------------
ClientNext(c) == \/ ClientOpens(c) \/ ClientOpenFails(c) \/ ClientReads(c) \/ EndOfInput(c)
                 \/ ClientSends(c) \/ ClientReceives(c) \/ ClientTimesOut(c)
                 \/ ClientUnlinks(c) \/ ClientDies(c)

WorkerNext(op) == \/ WorkerStops(op) \/ WorkerReceives(op) \/ WorkerComputes(op)
                  \/ WorkerTraps(op) \/ WorkerOpens(op) \/ WorkerOpenFails(op)
                  \/ WorkerSends(op)

MainNext == MainWakes \/ MainSendsStop \/ MainJoins \/ MainUnlinks

Next == \/ \E c \in Clients : ClientNext(c)
        \/ \E op \in Operations : WorkerNext(op)
        \/ MainNext
        \/ UserInterrupts

(* The server's threads run.  A sender that is blocked on a full queue is  *)
(* served by the kernel when a message is taken out, hence SF for main.    *)
(* Nothing is assumed of the clients or their users.                       *)
Fairness == /\ SF_vars(MainNext)
            /\ \A op \in Operations : WF_vars(WorkerNext(op))

Spec == Init /\ [][Next]_vars
FairSpec == Spec /\ Fairness
-----------------------------------------------------------------------------
(* The thread of op holds a request of client c. *)
Serves(op, c) == /\ workerAt[op] \in {"compute", "open", "send"}
                 /\ job[op].client = c

Outstanding(c) ==
  LET op == ServerQueue[c]
      queued == {i \in 1 .. Len(requests[op]) : requests[op][i].client = c}
  IN Cardinality(queued) + (IF Serves(op, c) THEN 1 ELSE 0) + Len(answers[c])

(* An answer in a client's queue answers the request the client has sent   *)
(* last, never an earlier one it has given up on.                          *)
AnswersMatch == \A c \in Clients : \A i \in 1 .. Len(answers[c]) :
                   /\ ~DividesByZero(ServerQueue[c], asked[c])
                   /\ answers[c][i] = Result(ServerQueue[c], asked[c])

(* A client that waits has exactly one request under way, in the queue, in *)
(* the thread's hands or answered, and no client ever has two; so neither  *)
(* a client's queue nor, with at most MaxMsg clients, the server's fills.  *)
OneOutstanding == \A c \in Clients : /\ Outstanding(c) <= 1
                                     /\ at[c] = "wait" => Outstanding(c) = 1

(* The client has left its loop or its process has ended. *)
Leaves(c) == at[c] \in {"unlink", "gone", "failed", "dead"}

Call == INSTANCE RequestReply WITH
  Questions <- Inputs,
  AnswersTo <- [c \in Clients |-> [in \in Inputs |->
                 IF DividesByZero(ServerQueue[c], in) THEN {} ELSE {Result(ServerQueue[c], in)}]],
  question <- [c \in Clients |-> IF at[c] = "wait" THEN <<asked[c]>> ELSE <<>>],
  reply <- [c \in Clients |-> IF at[c] = "wait" THEN answers[c] ELSE <<>>],
  over <- [c \in Clients |-> Leaves(c)]

(* Seen from the clients, the queues and the three threads are one service *)
(* that answers each question at most once and rightly; what is still sent *)
(* to a client that has left is never taken for anything (client.c:63-97, *)
(* server.c:42-78).                                                        *)
RefinesCalls == Call!CallSpec

(* SIGINT ends the server, however many requests are queued and whatever   *)
(* the clients do (it may crash first).                                    *)
SigintStops == sigint ~> (mainAt = "ended" \/ ~up)
=============================================================================
