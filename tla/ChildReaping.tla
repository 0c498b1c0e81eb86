---------------------------- MODULE ChildReaping ----------------------------
(***************************************************************************)
(* How SOP1/Lab2_tutorial/prog14.c reaps its children: a SIGCHLD handler   *)
(* while the parent sends its signals, wait when it has finished.          *)
(*                                                                         *)
(* SIGCHLD is blocked in its handler; while it is pending a second one is  *)
(* lost.  The parent ignores the SIGUSR1 and SIGUSR2 it sends to its group *)
(* and leaves its loop some time, when SIGALRM has come.  What the         *)
(* children print is left out.                                             *)
(***************************************************************************)
EXTENDS Naturals

CONSTANTS Kids            \* the children

VARIABLES kidAt,          \* kidAt[k]: the state of process k
          chldPending,    \* SIGCHLD is pending for the parent
          inHandler,      \* sigchld_handler runs
          reaperAt        \* next step of the parent

reaperVars == <<kidAt, chldPending, inHandler, reaperAt>>

ReapingTypeOK == /\ kidAt \in [Kids -> {"lives", "zombie", "reaped"}]
                 /\ chldPending \in BOOLEAN
                 /\ inHandler \in BOOLEAN
                 /\ reaperAt \in {"loop", "wait", "leave", "exited"}

ReapingInit == /\ kidAt = [k \in Kids |-> "lives"]
               /\ chldPending = FALSE
               /\ inHandler = FALSE
               /\ reaperAt = "loop"

(* child_work ends. *)
KidExits(k) == /\ kidAt[k] = "lives"
               /\ reaperAt # "exited"
               /\ kidAt' = [kidAt EXCEPT ![k] = "zombie"]
               /\ chldPending' = TRUE
               /\ UNCHANGED <<inHandler, reaperAt>>

Zombies == {k \in Kids : kidAt[k] = "zombie"}
Reap(k) == /\ kidAt[k] = "zombie"
           /\ kidAt' = [kidAt EXCEPT ![k] = "reaped"]
-----------------------------------------------------------------------------
(* sigchld_handler *)

(* wait may be interrupted: it fails with EINTR, and the loop around it    *)
(* takes that for the end of the children.                                 *)
HandlerStarts == /\ chldPending
                 /\ ~inHandler
                 /\ reaperAt # "exited"
                 /\ chldPending' = FALSE
                 /\ inHandler' = TRUE
                 /\ reaperAt' \in {reaperAt} \cup {s \in {"leave"} : reaperAt = "wait"}
                 /\ UNCHANGED kidAt

(* Mutant: one waitpid for one signal. *)
HandlerReapsOne(k) == /\ inHandler
                      /\ Reap(k)
                      /\ inHandler' = FALSE
                      /\ UNCHANGED <<chldPending, reaperAt>>

HandlerReaps(k) == /\ inHandler
                   /\ Reap(k)
                   /\ UNCHANGED <<chldPending, inHandler, reaperAt>>

(* waitpid returns 0 or fails with ECHILD. *)
HandlerReturns == /\ inHandler
                  /\ Zombies = {}
                  /\ inHandler' = FALSE
                  /\ UNCHANGED <<kidAt, chldPending, reaperAt>>
-----------------------------------------------------------------------------
(* parent_work and the end of main *)

ReaperStep(from, to) == /\ ~inHandler
                        /\ reaperAt = from
                        /\ reaperAt' = to
                        /\ UNCHANGED <<chldPending, inHandler>>

AlarmEndsLoop == ReaperStep("loop", "wait") /\ UNCHANGED kidAt

WaitReaps(k) == ReaperStep("wait", "wait") /\ Reap(k)

NoChildLeft == /\ ReaperStep("wait", "leave")
               /\ \A k \in Kids : kidAt[k] = "reaped"
               /\ UNCHANGED kidAt

ReaperExits == ReaperStep("leave", "exited") /\ UNCHANGED kidAt

Reaper == \/ HandlerStarts \/ HandlerReturns \/ AlarmEndsLoop \/ NoChildLeft \/ ReaperExits
          \/ \E k \in Kids : HandlerReaps(k) \/ WaitReaps(k)

ReapingNext == Reaper \/ \E k \in Kids : KidExits(k)

ReapingSpec == ReapingInit /\ [][ReapingNext]_reaperVars
-----------------------------------------------------------------------------
(* Signals merge, children do not: whenever the parent is in its loop and  *)
(* a child is a zombie, a SIGCHLD is still to be handled                   *)
(* (prog14.c:29-50).                                                       *)
NoZombieForgotten == reaperAt = "loop" /\ ~inHandler /\ ~chldPending => Zombies = {}
=============================================================================
