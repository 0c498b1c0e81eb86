---------------------------- MODULE MCLetterFirm ----------------------------
(* Small instances of LetterFirm for TLC. *)
EXTENDS LetterFirm

CONSTANTS f1, f2

(* Letter 1 stands in both files and letter 2 in f1 only, so workers       *)
(* compete for a mutex and skip one; the numbers tell the files apart.     *)
MCLettersIn == [f \in Files |-> [l \in Letters |-> CASE f = f1 -> l
                                                     [] l = 1  -> 3
                                                     [] OTHER  -> 0]]
=============================================================================
