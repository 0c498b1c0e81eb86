-------------------------------- MODULE Fifo --------------------------------
(***************************************************************************)
(* The fifo of Lab1_tutorial/tutorial/Zad1: writers (etap2.c) send a file  *)
(* in packets of PIPE_BUF bytes that begin with their pid, one reader      *)
(* (etap3.c) prints packets until the end of file and removes the fifo.    *)
(*                                                                         *)
(* A packet is its writer; a write of PIPE_BUF bytes is atomic, and since  *)
(* all are of this size a read takes exactly one.  A process that calls    *)
(* open counts as reader or writer at once and is blocked until the other  *)
(* side has called it too.  A file is a number of packets.  Calls that     *)
(* fail are left out, except where the other side is gone.                 *)
(***************************************************************************)
EXTENDS Naturals, Sequences

CONSTANTS FifoWriters,    \* the writing processes
          PacketsOf,      \* PacketsOf[w]: the packets of w's file
          FifoCapacity    \* packets the fifo holds

ASSUME FifoAssumption == /\ PacketsOf \in [FifoWriters -> Nat]
                         /\ FifoCapacity \in Nat \ {0}

VARIABLES fifo,           \* the packets in the fifo
          fifoThere,      \* the fifo has its name
          fifoReaderAt,   \* next step of the reader
          fifoPrinted,    \* fifoPrinted[w]: packets of w the reader has printed
          fifoWriterAt,   \* fifoWriterAt[w]: next step of writer w
          packetsLeft,    \* packetsLeft[w]: packets w has not sent yet
          late            \* history: writers that opened after the reader saw the end

fifoVars == <<fifo, fifoThere, fifoReaderAt, fifoPrinted, fifoWriterAt, packetsLeft, late>>

FifoTypeOK ==
  /\ fifo \in Seq(FifoWriters) /\ Len(fifo) <= FifoCapacity
  /\ fifoThere \in BOOLEAN
  /\ fifoReaderAt \in {"make", "open", "opening", "read", "close", "unlink", "done"}
  /\ fifoPrinted \in [FifoWriters -> Nat]
  /\ fifoWriterAt \in [FifoWriters -> {"make", "open", "opening", "send", "done", "failed"}]
  /\ packetsLeft \in [FifoWriters -> Nat]
  /\ late \subseteq FifoWriters

FifoInit == /\ fifo = <<>>
            /\ fifoThere = FALSE
            /\ fifoReaderAt = "make"
            /\ fifoPrinted = [w \in FifoWriters |-> 0]
            /\ fifoWriterAt = [w \in FifoWriters |-> "make"]
            /\ packetsLeft = PacketsOf
            /\ late = {}

HasReader == fifoReaderAt \in {"opening", "read", "close"}
HasWriter == \E w \in FifoWriters : fifoWriterAt[w] \in {"opening", "send"}
-----------------------------------------------------------------------------
(* etap2.c: a writer *)

FifoWriterStep(w, from, to) == /\ fifoWriterAt[w] = from
                               /\ fifoWriterAt' = [fifoWriterAt EXCEPT ![w] = to]
                               /\ UNCHANGED <<fifoReaderAt, fifoPrinted>>

WriterMakes(w) == /\ FifoWriterStep(w, "make", "open")
                  /\ fifoThere' = TRUE
                  /\ UNCHANGED <<fifo, packetsLeft, late>>

(* The reader may have removed the fifo since mkfifo found it. *)
WriterOpens(w) == /\ FifoWriterStep(w, "open", IF fifoThere THEN "opening" ELSE "failed")
                  /\ UNCHANGED <<fifo, fifoThere, packetsLeft, late>>

(* After the reader's close this never happens: the writer waits for ever. *)
WriterOpened(w) == /\ FifoWriterStep(w, "opening", "send")
                   /\ HasReader
                   /\ late' = late \cup {v \in {w} : fifoReaderAt = "close"}
                   /\ UNCHANGED <<fifo, fifoThere, packetsLeft>>

SendPacket(w) == /\ FifoWriterStep(w, "send", "send")
                 /\ packetsLeft[w] > 0
                 /\ HasReader
                 /\ Len(fifo) < FifoCapacity
                 /\ fifo' = Append(fifo, w)
                 /\ packetsLeft' = [packetsLeft EXCEPT ![w] = @ - 1]
                 /\ UNCHANGED <<fifoThere, late>>

(* SIGPIPE *)
SendToNobody(w) == /\ FifoWriterStep(w, "send", "failed")
                   /\ packetsLeft[w] > 0
                   /\ ~HasReader
                   /\ UNCHANGED <<fifo, fifoThere, packetsLeft, late>>

FileSent(w) == /\ FifoWriterStep(w, "send", "done")
               /\ packetsLeft[w] = 0
               /\ UNCHANGED <<fifo, fifoThere, packetsLeft, late>>
-----------------------------------------------------------------------------
(* etap3.c: the reader *)

FifoReaderStep(from, to) == /\ fifoReaderAt = from
                            /\ fifoReaderAt' = to
                            /\ UNCHANGED <<fifoWriterAt, packetsLeft, late>>

ReaderMakes == /\ FifoReaderStep("make", "open")
               /\ fifoThere' = TRUE
               /\ UNCHANGED <<fifo, fifoPrinted>>

ReaderOpens == /\ FifoReaderStep("open", "opening")
               /\ UNCHANGED <<fifo, fifoThere, fifoPrinted>>

(* A writer has opened it, and may have closed it again. *)
ReaderOpened == /\ FifoReaderStep("opening", "read")
                /\ \E w \in FifoWriters : fifoWriterAt[w] \notin {"make", "open"}
                /\ UNCHANGED <<fifo, fifoThere, fifoPrinted>>

ReadPacket == /\ FifoReaderStep("read", "read")
              /\ fifo # <<>>
              /\ fifo' = Tail(fifo)
              /\ fifoPrinted' = [fifoPrinted EXCEPT ![Head(fifo)] = @ + 1]
              /\ UNCHANGED fifoThere

(* Mutant: an empty fifo is taken for its end. *)
FifoIsEmpty == fifo = <<>>

EndOfFile == fifo = <<>> /\ ~HasWriter

ReadEndOfFile == /\ FifoReaderStep("read", "close")
                 /\ EndOfFile
                 /\ UNCHANGED <<fifo, fifoThere, fifoPrinted>>

ReaderCloses == /\ FifoReaderStep("close", "unlink")
                /\ UNCHANGED <<fifo, fifoThere, fifoPrinted>>

ReaderUnlinks == /\ FifoReaderStep("unlink", "done")
                 /\ fifoThere' = FALSE
                 /\ UNCHANGED <<fifo, fifoPrinted>>

FifoNext == \/ ReaderMakes \/ ReaderOpens \/ ReaderOpened \/ ReadPacket \/ ReadEndOfFile
            \/ ReaderCloses \/ ReaderUnlinks
            \/ \E w \in FifoWriters : \/ WriterMakes(w) \/ WriterOpens(w) \/ WriterOpened(w)
                                      \/ SendPacket(w) \/ SendToNobody(w) \/ FileSent(w)

FifoSpec == FifoInit /\ [][FifoNext]_fifoVars
-----------------------------------------------------------------------------
(* When the reader has seen the end, every packet of every writer that got *)
(* the fifo open before is printed, though the writers come and go and may *)
(* be gone before the reader's open returns; only a writer that opens it   *)
(* between the end and the close loses packets (etap2.c:20-40,             *)
(* etap3.c:28-62).                                                         *)
FifoComplete == fifoReaderAt \in {"close", "unlink", "done"} =>
                   \A w \in FifoWriters \ late :
                      fifoWriterAt[w] \in {"send", "done"} => fifoPrinted[w] = PacketsOf[w]
=============================================================================
