---------------------------- MODULE ProbeOutcomes ----------------------------
(***************************************************************************)
(* What may become of asking for the tracks of a title                     *)
(* (_fetch_tracks in src/app/crawler/worker.py): all that a probe knows of *)
(* it, and what TrackFetch explains.                                       *)
(***************************************************************************)

Outcome == {"none", "untagged", "tagged", "error", "defer", "blocked"}

\* ffprobe says whether there is one to use, allow whether it is its turn.
OutcomesOf(ffprobe, allow) ==
    {"error", "tagged", "untagged"} \union
    (IF ffprobe /\ ~ allow THEN {"defer"} ELSE {"none"}) \union
    (IF ffprobe /\ allow THEN {"blocked"} ELSE {})

=============================================================================
