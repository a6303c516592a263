------------------------------ MODULE Playlist -------------------------------
(***************************************************************************)
(* What the filters leave of a playlist: the pass over its lines           *)
(* (M3uFilter) with the visible sets (Visibility).                         *)
(*                                                                         *)
(* A url stands for a title only through the kind and the number that are  *)
(* read off it.  Those of a channel or a movie give its kind and id; those *)
(* of an episode say "series", and the number is the episode's own         *)
(* (worker.py:766), which is looked up among the ids of the series.  The   *)
(* title of Visibility is here a channel or a movie.                       *)
(***************************************************************************)
EXTENDS Visibility, M3uFilter

CONSTANTS
    Id,         \* numbers that are found in urls
    NoId,       \* of a url that does not end in one
    OwnId,      \* that of the title
    Url,        \* what comes after a title in a playlist
    KindIn,     \* the kind its path says, "live" if it says none
    IdIn,       \* the number it ends in
    Others,     \* the ids of each kind that are visible, those of other titles
    MaxEntries  \* bound on the entries of a playlist

Kind == {"live", "vod", "series"}

\* A url is none of the lines that stand alone.
ASSUME PlaylistAssumption ==
    /\ Url \intersect {"#EXTM3U", "comment"} = {}
    /\ OwnId \in Id
    /\ NoId \notin Id
    /\ KindIn \in [Url -> Kind]
    /\ IdIn \in [Url -> Id \union {NoId}]
    /\ Others \in [Kind -> SUBSET Id]
    /\ MaxEntries \in Nat

\* The visible ids of each kind, with that of the title or without.
VisibleIds(visible) ==
    [Others EXCEPT ![title.kind] = IF visible THEN @ \union {OwnId} ELSE @ \ {OwnId}]

\* The urls with a number that is not a visible id of the kind the url is taken for.
Hidden(ids) == {url \in Url : IdIn[url] # NoId /\ IdIn[url] \notin ids[KindIn[url]]}

\* _filter_m3u asks for the visible sets without the names of the categories.
InPlaylist == Visible([title EXCEPT !.named = FALSE, !.combined = title.name], config)

-----------------------------------------------------------------------------
Playlists == BoundedSeq(Entries(Url), MaxEntries)

OwnUrl(url) == KindIn[url] = title.kind /\ IdIn[url] = OwnId

\* The urls of the title, if the lists do not have it, and the numbers of no other
\* visible title of the kind.
Lost ==
    {url \in Url : IF OwnUrl(url) THEN ~ Visible(title, config)
                   ELSE IdIn[url] # NoId /\ IdIn[url] \notin Others[KindIn[url]]}

\* A playlist loses a channel or a movie with its url exactly when the player_api
\* lists do, then the entries with a number no visible title of the kind has, and
\* nothing else but blank lines; what has no number stays.  Provided that each title
\* has its url in the next line and that category names are not matched
\* (xtream.py:448).  It says nothing of a series: an episode stays if a visible series
\* happens to have its number, and goes otherwise, whatever the lists do with its own.
PlaylistFiltered ==
    ~ config.match_category =>
        LET hidden == Hidden(VisibleIds(InPlaylist))
            lost   == Lost
        IN  \A entries \in Playlists :
                FilterM3u(FlattenSeq(entries), hidden) = Remaining(entries, lost)

=============================================================================
