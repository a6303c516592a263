---------------------------- MODULE MCTrackFetch -----------------------------
(***************************************************************************)
(* A small instance of TrackFetch: the entries a panel and ffprobe give    *)
(* for titles with German and Portuguese audio.                            *)
(***************************************************************************)
EXTENDS TrackFetch

EntryOf(part, tagLanguage, tagTitle, language) ==
    [part |-> part, tagLanguage |-> tagLanguage, tagTitle |-> tagTitle,
     language |-> language, title |-> NoWord, codec |-> NoWord]

\* A language in the title; a label where the language belongs; a label in the title
\* and the language beside the tags; subtitles.
MCEntries ==
    {EntryOf("stream", NoWord, "por", NoWord),
     EntryOf("stream", "stereo", "german", NoWord),
     EntryOf("audio", NoWord, "stereo", "german"),
     EntryOf("other", "german", NoWord, NoWord)}

=============================================================================
