----------------------------- MODULE AudioTracks -----------------------------
(***************************************************************************)
(* Audio tracks as panels and ffprobe describe them                        *)
(* (src/app/core/audio_parser.py): which language a track has, and the     *)
(* text filters are searched in.                                           *)
(*                                                                         *)
(* The words of a tag are one value.  A pattern is the word it finds.      *)
(***************************************************************************)
EXTENDS Integers, Sequences

CONSTANTS
    Word,    \* what tags say
    Label,   \* the words of _NON_LANGUAGE_TAGS
    NoWord   \* the value of a tag that is missing

ASSUME WordAssumption == Label \subseteq Word /\ NoWord \notin Word

Tag == Word \union {NoWord}

\* An entry of info.audio or info.streams, where not all are audio; codec is any
\* of the words about codec and channels.
Entry == [part : {"audio", "stream", "other"}, tagLanguage : Tag, tagTitle : Tag,
          language : Tag, title : Tag, codec : Tag]

-----------------------------------------------------------------------------
First(tag, otherwise) == IF tag # NoWord THEN tag ELSE otherwise

\* _extract_language: a title in the tags may be one.
LanguageOf(e) ==
    First(e.tagLanguage, IF e.tagTitle \in Word \ Label THEN e.tagTitle ELSE e.language)

TitleOf(e) == First(e.tagTitle, e.title)

Track(e) == [language |-> LanguageOf(e),
             text     |-> {LanguageOf(e), TitleOf(e), e.codec} \ {NoWord}]

HasLanguage(track) == track.language \in Word \ Label

\* Fault: subtitles are taken for audio.
ParseTracksOfAny(info) == {Track(e) : e \in info}

\* parse_audio_tracks, without the order of the tracks.
ParseTracks(info) == {Track(e) : e \in {x \in info : x.part # "other"}}

\* The first episode with tracks stands for the series; a film has one episode.
EpisodeTracks(answer) ==
    UNION {ParseTracks(answer[n]) : n \in
              {n \in DOMAIN answer :
                  \A m \in 1..n-1 : ParseTracks(answer[m]) = {}}}

=============================================================================
