------------------------------ MODULE MCThreads ------------------------------
(* Instances of Threads for TLC. *)
EXTENDS Threads

NoLineCount == {-1}   \* only the timer ends a thread's uninterruptible start
Settings == {15, 0, Blank}
LineSettings == {-1, 1000, Blank}
RisingPriority == [t \in 1..Timers |-> t - 1]
SamePriority == [t \in 1..Timers |-> 0]

=============================================================================
