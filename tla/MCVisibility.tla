---------------------------- MODULE MCVisibility ----------------------------
(* Instances of Visibility and Playlist for TLC.                            *)
EXTENDS Playlist

\* Urls of the title, as a channel and as a movie, of an episode that has its number,
\* of a channel that is not visible, and one that does not end in a number.
EachKind ==
    [url \in Url |-> CASE url = "/movie/own"   -> "vod"
                       [] url = "/series/own"  -> "series"
                       [] OTHER                -> "live"]
EachId ==
    [url \in Url |-> CASE url = "/other" -> "other"
                       [] url = "/"      -> "none"
                       [] OTHER          -> "own"]

\* A series has the number too.
SomeSeries == [kind \in Kind |-> IF kind = "series" THEN {"own"} ELSE {}]

=============================================================================
