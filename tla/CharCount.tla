----------------------------- MODULE CharCount -----------------------------
(***************************************************************************)
(* The character counter of Lab3_tutorial/Zad1/etap4.c: every child maps   *)
(* the file, counts the characters of its part in shared memory and exits; *)
(* three out of ten abort before.  The parent waits for all and prints the *)
(* counts if nobody failed.                                                *)
(*                                                                         *)
(* count[c]++ is a critical section of its own and one step.  Any child    *)
(* may abort.  A file that is empty or cannot be read kills the process    *)
(* group (ERR) and is left out.                                            *)
(***************************************************************************)
EXTENDS Naturals, Sequences, FiniteSets

CONSTANTS ChildCount,     \* n
          Text            \* the characters of file.txt

ASSUME TextAssumption == /\ ChildCount \in Nat \ {0}
                         /\ Text \in Seq({Text[i] : i \in DOMAIN Text})
                         /\ Text # <<>>

VARIABLES charCount,      \* count, in shared memory
          childAt,        \* childAt[i]: next step of child i
          childPos,       \* childPos[i]: the characters of Text before the next one
          reaped,         \* the children that wait has returned
          failed,
          counterParentAt \* next step of the parent

childVars == <<charCount, childAt, childPos>>
charParentVars == <<reaped, failed, counterParentAt>>
charVars == <<childVars, charParentVars>>

Children == 0 .. ChildCount - 1
Chars == {Text[i] : i \in DOMAIN Text}

CharTypeOK == /\ charCount \in [Chars -> 0 .. Len(Text)]
              /\ childAt \in [Children -> {"start", "count", "exited", "aborted"}]
              /\ childPos \in [Children -> 0 .. Len(Text)]
              /\ reaped \subseteq Children
              /\ failed \in BOOLEAN
              /\ counterParentAt \in {"wait", "report", "failed", "printed"}

CharInit == /\ charCount = [c \in Chars |-> 0]
            /\ childAt = [i \in Children |-> "start"]
            /\ childPos = [i \in Children |-> 0]
            /\ reaped = {}
            /\ failed = FALSE
            /\ counterParentAt = "wait"
-----------------------------------------------------------------------------
(* child_work and count_chars *)

ChunkSize == Len(Text) \div ChildCount
ChunkStart(i) == i * ChunkSize

(* Mutant: the last child counts no more than the others do. *)
EvenChunkEnd(i) == ChunkStart(i) + ChunkSize

(* The last child counts what the division leaves. *)
ChunkEnd(i) == IF i = ChildCount - 1 THEN Len(Text) ELSE ChunkStart(i) + ChunkSize

CountingChildStep(i, from, to) == /\ childAt[i] = from
                                  /\ childAt' = [childAt EXCEPT ![i] = to]
                                  /\ UNCHANGED charParentVars

ChildAborts(i) == /\ CountingChildStep(i, "start", "aborted")
                  /\ UNCHANGED <<charCount, childPos>>

ChildMapsFile(i) == /\ CountingChildStep(i, "start", "count")
                    /\ childPos' = [childPos EXCEPT ![i] = ChunkStart(i)]
                    /\ UNCHANGED charCount

CountChar(i) == /\ CountingChildStep(i, "count", "count")
                /\ childPos[i] < ChunkEnd(i)
                /\ charCount' = [charCount EXCEPT ![Text[childPos[i] + 1]] = @ + 1]
                /\ childPos' = [childPos EXCEPT ![i] = @ + 1]

ChildExits(i) == /\ CountingChildStep(i, "count", "exited")
                 /\ childPos[i] = ChunkEnd(i)
                 /\ UNCHANGED <<charCount, childPos>>
-----------------------------------------------------------------------------
(* main, after create_children *)

WaitForChild == /\ counterParentAt = "wait"
                /\ \E i \in Children \ reaped :
                      /\ childAt[i] \in {"exited", "aborted"}
                      /\ reaped' = reaped \cup {i}
                      /\ failed' = (failed \/ childAt[i] = "aborted")
                /\ counterParentAt' = IF reaped' = Children THEN "report" ELSE "wait"
                /\ UNCHANGED childVars

TaskFailed == /\ counterParentAt = "report"
              /\ failed
              /\ counterParentAt' = "failed"
              /\ UNCHANGED <<childVars, reaped, failed>>

PrintCounts == /\ counterParentAt = "report"
               /\ ~failed
               /\ counterParentAt' = "printed"
               /\ UNCHANGED <<childVars, reaped, failed>>

CountingChild(i) == ChildAborts(i) \/ ChildMapsFile(i) \/ CountChar(i) \/ ChildExits(i)
CountingParent == WaitForChild \/ TaskFailed \/ PrintCounts

CharNext == CountingParent \/ \E i \in Children : CountingChild(i)

CharSpec == CharInit /\ [][CharNext]_charVars
-----------------------------------------------------------------------------
(* Counts are printed only when they are the counts of the whole file: no  *)
(* part is left out or counted twice, also when the size is not a multiple *)
(* of n, and no child has aborted (etap4.c:63-67, 135-162).                *)
CountsAreTheFiles == counterParentAt = "printed" =>
   \A c \in Chars : charCount[c] = Cardinality({i \in DOMAIN Text : Text[i] = c})
=============================================================================
