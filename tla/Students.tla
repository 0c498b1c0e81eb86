------------------------------ MODULE Students ------------------------------
(***************************************************************************)
(* The students of SOP1/Lab3_tutorial/prog20.c: a thread per student walks *)
(* through three years with a counter each, main cancels threads at        *)
(* random, joins them all and prints the counters.                         *)
(*                                                                         *)
(* Cancellation is deferred: a cancelled thread ends in the nanosleep of a *)
(* year, and there the cleanup handler takes it out of the year's counter. *)
(* The random times and the clock only say that main kicks at least once   *)
(* and stops some time.                                                    *)
(***************************************************************************)
EXTENDS Naturals, FiniteSets

CONSTANTS Pupils          \* the threads, one per student

ASSUME PupilsAssumption == IsFiniteSet(Pupils)

VARIABLES counters,       \* counters[y]: yearCounters.values
          studentAt,      \* studentAt[s]: next step of thread s
          year,           \* year[s]: args.year
          cancelled,      \* pthread_cancel was called for these
          removed, present,
          studentsMainAt  \* next step of main

studentsMainVars == <<cancelled, removed, present, studentsMainAt>>
studentsVars == <<counters, studentAt, year, studentsMainVars>>

Years == 0 .. 3

StudentsTypeOK == /\ counters \in [Years -> 0 .. Cardinality(Pupils)]
                  /\ studentAt \in [Pupils -> {"enroll", "study", "leave", "ended"}]
                  /\ year \in [Pupils -> Years]
                  /\ cancelled \subseteq Pupils
                  /\ removed \subseteq Pupils
                  /\ present = Cardinality(Pupils \ removed)
                  /\ studentsMainAt \in {"kick", "tick", "join", "printed"}

StudentsInit == /\ counters = [y \in Years |-> 0]
                /\ studentAt = [s \in Pupils |-> "enroll"]
                /\ year = [s \in Pupils |-> 0]
                /\ cancelled = {}
                /\ removed = {}
                /\ present = Cardinality(Pupils)
                /\ studentsMainAt = "kick"

StudentStep(s, from, to) == /\ studentAt[s] = from
                            /\ studentAt' = [studentAt EXCEPT ![s] = to]
                            /\ UNCHANGED studentsMainVars
-----------------------------------------------------------------------------
(* student_life *)

(* increment_counter of one of the three years. *)
StartYear(s) == /\ StudentStep(s, "enroll", "study")
                /\ year[s] < 3
                /\ counters' = [counters EXCEPT ![year[s]] = @ + 1]
                /\ UNCHANGED year

(* The sleep ends before a cancellation has been seen; main may cancel the *)
(* thread after that, which is too late until the next sleep.              *)
FinishYear(s) == /\ StudentStep(s, "study", "leave")
                 /\ s \notin cancelled
                 /\ UNCHANGED <<counters, year>>

(* pthread_cleanup_pop(1) runs decrement_counter. *)
LeaveYear(s) == /\ StudentStep(s, "leave", "enroll")
                /\ counters' = [counters EXCEPT ![year[s]] = @ - 1]
                /\ year' = [year EXCEPT ![s] = @ + 1]

(* Mutant: the thread is cancelled without the cleanup handler. *)
VanishMidYear(s) == /\ StudentStep(s, "study", "ended")
                    /\ s \in cancelled
                    /\ UNCHANGED <<counters, year>>

(* The cancellation point: the cleanup handler runs, the thread ends. *)
KickedOut(s) == /\ StudentStep(s, "study", "ended")
                /\ s \in cancelled
                /\ counters' = [counters EXCEPT ![year[s]] = @ - 1]
                /\ UNCHANGED year

Graduate(s) == /\ StudentStep(s, "enroll", "ended")
               /\ year[s] = 3
               /\ counters' = [counters EXCEPT ![3] = @ + 1]
               /\ UNCHANGED year
-----------------------------------------------------------------------------
(* main *)

StudentsMainStep(from, to) == /\ studentsMainAt = from
                              /\ studentsMainAt' = to
                              /\ UNCHANGED <<counters, studentAt, year>>

(* kick_student draws until it finds one that is not removed yet; it may   *)
(* have ended long ago.                                                    *)
KickStudent == /\ StudentsMainStep("kick", "tick")
               /\ present # 0
               /\ \E s \in Pupils \ removed : /\ cancelled' = cancelled \cup {s}
                                              /\ removed' = removed \cup {s}
               /\ present' = present - 1

NobodyToKick == /\ StudentsMainStep("kick", "tick")
                /\ present = 0
                /\ UNCHANGED <<cancelled, removed, present>>

(* do ... while less than four seconds have passed. *)
TermGoesOn == /\ StudentsMainStep("tick", "kick")
              /\ UNCHANGED <<cancelled, removed, present>>

TermEnds == /\ StudentsMainStep("tick", "join")
            /\ UNCHANGED <<cancelled, removed, present>>

PrintYears == /\ StudentsMainStep("join", "printed")
              /\ \A s \in Pupils : studentAt[s] = "ended"
              /\ UNCHANGED <<cancelled, removed, present>>

Live(s) == \/ StartYear(s) \/ FinishYear(s) \/ LeaveYear(s)
           \/ KickedOut(s) \/ Graduate(s)
StudentsMain == KickStudent \/ NobodyToKick \/ TermGoesOn \/ TermEnds \/ PrintYears

StudentsNext == StudentsMain \/ \E s \in Pupils : Live(s)

StudentsSpec == StudentsInit /\ [][StudentsNext]_studentsVars
-----------------------------------------------------------------------------
(* What main prints (prog20.c:83-86): wherever the cancellations hit,      *)
(* nobody is left in a year, and everyone who was not removed is an        *)
(* engineer, with those for whom the cancellation came after the last      *)
(* sleep.                                                                  *)
NobodyLeftInAYear == studentsMainAt = "printed" =>
                        /\ \A y \in 0 .. 2 : counters[y] = 0
                        /\ counters[3] >= present
=============================================================================
