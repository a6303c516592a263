--------------------------- MODULE AnnouncedReads ---------------------------
(***************************************************************************)
(* What the served lists promise, without caches, keys or threads: one     *)
(* register.  Writers write it and now and then announce what they have    *)
(* written (data_version.bump).  A reader is given some value that was     *)
(* written after what was announced when it asked, and before it was       *)
(* answered; two readers that ask together may be given different ones.    *)
(*                                                                         *)
(* The value is the number of writes so far.                               *)
(***************************************************************************)
EXTENDS Naturals

CONSTANT Reader

VARIABLES
    written,    \* writes so far
    announced,  \* how many of them have been announced
    reading     \* what each reader is about

vars == <<written, announced, reading>>

NotReading == [phase |-> "idle", floor |-> 0, value |-> 0]

Init ==
    /\ written = 0
    /\ announced = 0
    /\ reading = [r \in Reader |-> NotReading]

Write ==
    /\ written' = written + 1
    /\ UNCHANGED <<announced, reading>>

Announce ==
    /\ announced' \in announced..written
    /\ UNCHANGED <<written, reading>>

Ask(r) ==
    /\ reading[r] = NotReading
    /\ reading' = [reading EXCEPT ![r] = [phase |-> "asked", floor |-> announced,
                                          value |-> 0]]
    /\ UNCHANGED <<written, announced>>

Answer(r) ==
    /\ reading[r].phase = "asked"
    /\ \E value \in reading[r].floor..written :
          reading' = [reading EXCEPT ![r] = [phase |-> "answered", floor |-> @.floor,
                                             value |-> value]]
    /\ UNCHANGED <<written, announced>>

Finish(r) ==
    /\ reading[r].phase = "answered"
    /\ reading' = [reading EXCEPT ![r] = NotReading]
    /\ UNCHANGED <<written, announced>>

Next ==
    \/ Write
    \/ Announce
    \/ \E r \in Reader : Ask(r) \/ Answer(r) \/ Finish(r)

Spec == Init /\ [][Next]_vars

=============================================================================
