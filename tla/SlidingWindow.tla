---------------------------- MODULE SlidingWindow ----------------------------
(***************************************************************************)
(* What a stream promises to transcribe: the latest samples heard, in the  *)
(* order they were heard, none missing between them.  The n-th sample is   *)
(* called n; 0 is silence nobody recorded.                                 *)
(***************************************************************************)
EXTENDS Integers, Sequences

CONSTANTS
    Longest(_, _),  \* how many samples a window has: on which platform, after how many
    MaxHeard        \* bound: samples heard

VARIABLES
    platform,  \* where the stream runs; it never changes
    heard,     \* how many samples have been heard
    window     \* the window shown last

Sample(n) == IF n > 0 THEN n ELSE 0
Latest(n) == [i \in 1..n |-> Sample(heard - n + i)]

SWInit == heard = 0 /\ window = <<>>

Hear == heard < MaxHeard /\ heard' = heard + 1 /\ UNCHANGED <<platform, window>>

Show == window' = Latest(Longest(platform, heard)) /\ UNCHANGED <<platform, heard>>

SWNext == Hear \/ Show

SWSpec == SWInit /\ [][SWNext]_<<platform, heard, window>>

=============================================================================
