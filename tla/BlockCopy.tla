------------------------------ MODULE BlockCopy ------------------------------
(***************************************************************************)
(* SOP1/Lab2_tutorial/prog16b.c: the parent copies blocks while its child  *)
(* sends it SIGUSR1 without end; at last the parent sends SIGUSR1 to the   *)
(* whole group, which is to end the child.                                 *)
(*                                                                         *)
(* A read or a write may be interrupted before it has done anything, which *)
(* TEMP_FAILURE_RETRY repeats, or fall short of what was asked for, which  *)
(* bulk_read and bulk_write make up for.  What is copied is left out, and  *)
(* so are other failing calls.                                             *)
(***************************************************************************)
EXTENDS Naturals

CONSTANTS BlockCount,     \* b
          BlockLen        \* s, in pieces a call may stop at

ASSUME CopyAssumption == BlockCount \in Nat /\ BlockLen \in Nat \ {0}

VARIABLES copierAt,       \* next step of the parent
          copied,         \* its i
          gotLen,         \* len of the bulk_read or bulk_write that runs
          askedLen,       \* what that call was asked for
          outSize,        \* size of the output file
          senderAt,       \* the child: whether SIGUSR1 is still its parent's handler's
          copyUsr1        \* SIGUSR1 is pending for the parent

copyVars == <<copierAt, copied, gotLen, askedLen, outSize, senderAt, copyUsr1>>

CopyTypeOK == /\ copierAt \in {"next", "read", "write", "kill", "wait", "exited"}
              /\ copied \in 0 .. BlockCount
              /\ gotLen \in 0 .. BlockLen
              /\ askedLen \in 0 .. BlockLen
              /\ outSize \in 0 .. BlockCount * BlockLen
              /\ senderAt \in {"inherits", "default", "killed"}
              /\ copyUsr1 \in BOOLEAN

CopyInit == /\ copierAt = "next"
            /\ copied = 0
            /\ gotLen = 0
            /\ askedLen = 0
            /\ outSize = 0
            /\ senderAt = "inherits"
            /\ copyUsr1 = FALSE
-----------------------------------------------------------------------------
(* child_work *)

SenderResets == /\ senderAt = "inherits"
                /\ senderAt' = "default"
                /\ UNCHANGED <<copierAt, copied, gotLen, askedLen, outSize, copyUsr1>>

SenderSends == /\ senderAt = "default"
               /\ copierAt # "exited"
               /\ copyUsr1' = TRUE
               /\ UNCHANGED <<copierAt, copied, gotLen, askedLen, outSize, senderAt>>
-----------------------------------------------------------------------------
(* parent_work, bulk_read and bulk_write *)

CopyStep(from, to) == /\ copierAt = from
                      /\ copierAt' = to
                      /\ UNCHANGED <<senderAt, copyUsr1>>

NextBlock == /\ CopyStep("next", IF copied < BlockCount THEN "read" ELSE "kill")
             /\ gotLen' = 0
             /\ askedLen' = BlockLen
             /\ UNCHANGED <<copied, outSize>>

(* Mutant: what one call has done is taken for all, as in prog16a.c. *)
OneCall == /\ gotLen > 0
           /\ gotLen <= askedLen

(* The loop of bulk_read and bulk_write ends. *)
AllDone == gotLen = askedLen

ReadSome == /\ CopyStep("read", "read")
            /\ \E c \in 1 .. askedLen - gotLen : gotLen' = gotLen + c
            /\ UNCHANGED <<copied, askedLen, outSize>>

(* bulk_write is asked for as much as bulk_read has returned. *)
BlockIsRead == /\ CopyStep("read", "write")
               /\ AllDone
               /\ askedLen' = gotLen
               /\ gotLen' = 0
               /\ UNCHANGED <<copied, outSize>>

WriteSome == /\ CopyStep("write", "write")
             /\ \E c \in 1 .. askedLen - gotLen : /\ gotLen' = gotLen + c
                                                  /\ outSize' = outSize + c
             /\ UNCHANGED <<copied, askedLen>>

BlockIsWritten == /\ CopyStep("write", "next")
                  /\ AllDone
                  /\ copied' = copied + 1
                  /\ UNCHANGED <<gotLen, askedLen, outSize>>

(* sig_handler; wait is not repeated: the loop around it ends with EINTR.  *)
CopyHandles == /\ copyUsr1
               /\ copyUsr1' = FALSE
               /\ copierAt' \in {copierAt} \cup {s \in {"exited"} : copierAt = "wait"}
               /\ UNCHANGED <<copied, gotLen, askedLen, outSize, senderAt>>

(* kill(0, SIGUSR1): a child that has not reset its handler lives on.      *)
KillGroup == /\ copierAt = "kill"
             /\ copierAt' = "wait"
             /\ copyUsr1' = TRUE
             /\ senderAt' = IF senderAt = "default" THEN "killed" ELSE senderAt
             /\ UNCHANGED <<copied, gotLen, askedLen, outSize>>

CopyWaits == /\ CopyStep("wait", "exited")
             /\ senderAt = "killed"
             /\ UNCHANGED <<copied, gotLen, askedLen, outSize>>

CopyNext == \/ SenderResets \/ SenderSends \/ NextBlock \/ ReadSome \/ BlockIsRead
            \/ WriteSome \/ BlockIsWritten \/ CopyHandles \/ KillGroup \/ CopyWaits

CopySpec == CopyInit /\ [][CopyNext]_copyVars
-----------------------------------------------------------------------------
(* However the calls are cut by signals, the file holds whole blocks, and  *)
(* all of them when the parent asks its child to end (prog16b.c:40-101).   *)
CopyComplete == /\ copierAt \in {"next", "read"} => outSize = copied * BlockLen
                /\ copierAt \in {"kill", "wait", "exited"} => outSize = BlockCount * BlockLen
=============================================================================
