------------------------------ MODULE Timespec ------------------------------
(***************************************************************************)
(* The arithmetic of cable.c on struct timespec.                           *)
(***************************************************************************)
EXTENDS Integers

Second == 1000000000  \* nanoseconds

(* The times that clock_gettime returns and nanosleep takes are normal.    *)
Normal == [tv_sec : Int, tv_nsec : 0..Second - 1]

Nanoseconds(t) == t.tv_sec * Second + t.tv_nsec
TimeOf(n) == [tv_sec |-> n \div Second, tv_nsec |-> n % Second]

timespec_diff_no_borrow(t2, t1) == \* mutant
    [tv_sec |-> t2.tv_sec - t1.tv_sec, tv_nsec |-> t2.tv_nsec - t1.tv_nsec]

timespec_diff(t2, t1) ==
    LET nsec == t2.tv_nsec - t1.tv_nsec
    IN  IF nsec < 0
        THEN [tv_sec |-> t2.tv_sec - t1.tv_sec - 1, tv_nsec |-> nsec + Second]
        ELSE [tv_sec |-> t2.tv_sec - t1.tv_sec, tv_nsec |-> nsec]

timespec_sum_no_carry(t1, t2) == \* mutant
    [tv_sec |-> t1.tv_sec + t2.tv_sec, tv_nsec |-> t1.tv_nsec + t2.tv_nsec]

timespec_sum(t1, t2) ==
    LET nsec == t1.tv_nsec + t2.tv_nsec
    IN  IF nsec >= Second
        THEN [tv_sec |-> t1.tv_sec + t2.tv_sec + 1, tv_nsec |-> nsec - Second]
        ELSE [tv_sec |-> t1.tv_sec + t2.tv_sec, tv_nsec |-> nsec]

timespec_is_negative(t) == t.tv_sec < 0 \/ t.tv_nsec < 0
=============================================================================
