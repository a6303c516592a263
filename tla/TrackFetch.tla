------------------------------ MODULE TrackFetch -----------------------------
(***************************************************************************)
(* How the crawler finds out about the tracks of a title                   *)
(* (src/app/crawler/worker.py, ffprobe.py): it asks the API and, when that *)
(* is not enough for the include filter, has ffprobe open the stream, one  *)
(* await after the other; and what the title is then taken for.            *)
(*                                                                         *)
(* The configuration is that of the iteration.  Cooldown and recheck may   *)
(* refuse the slot at any time here; CrawlerClock has their clocks.        *)
(***************************************************************************)
EXTENDS AudioTracks, ProbeOutcomes

CONSTANTS
    Entries,        \* the entries panels and ffprobe give
    MaxEpisodes,    \* bound on the episodes of a series
    MaxConnections  \* max_connections of the account

ASSUME EntriesAssumption == Entries \subseteq Entry
ASSUME BoundsAssumption == {MaxEpisodes, MaxConnections} \subseteq Nat

VARIABLES
    title,    \* what the API says of the title, and what the stream holds
    config,   \* the part of the configuration that matters here
    allow,    \* allow_ffprobe
    phase,    \* what is awaited
    tracks,   \* what has been found so far
    others,   \* connections other than the crawler's at the check; -1: not known
    outcome   \* what the title is taken for

vars == <<title, config, allow, phase, tracks, others, outcome>>

-----------------------------------------------------------------------------
Info == SUBSET Entries

\* ffprobe puts what it knows into tags.
Container == SUBSET {e \in Entries : e.part # "audio" /\ {e.language, e.title} = {NoWord}}

\* A film is taken for a series of one episode; a series may have none that is known.
Title ==
    {t \in [kind : {"vod", "series"}, answer : UNION {[1..n -> Info] : n \in 0..MaxEpisodes},
            container : Container] :
        t.kind = "vod" => DOMAIN t.answer = 1..1}

\* ffprobe: enabled, and there is one.
Config == [include : SUBSET Word, ffprobe : BOOLEAN, ignore : BOOLEAN,
           reserve : 0..MaxConnections]

Phase == {"asking", "checking", "opening", "probing", "done"}

TypeOK ==
    /\ title \in Title
    /\ config \in Config
    /\ allow \in BOOLEAN
    /\ phase \in Phase
    /\ tracks \subseteq {Track(e) : e \in {x \in Entries : x.part # "other"}}
    /\ others \in -1..MaxConnections
    /\ outcome \in Outcome

Init ==
    /\ title \in Title
    /\ config \in Config
    /\ allow \in BOOLEAN
    /\ phase = "asking"
    /\ tracks = {}
    /\ others = -1
    /\ outcome = "none"

given == <<title, config, allow>>

-----------------------------------------------------------------------------
\* _tracks_satisfy_include
Satisfies(found, include) ==
    include = {} \/ \E track \in found : track.text \intersect include # {}

\* What _probe_item takes a title for that these tracks were found of.
Verdict(found) ==
    IF found = {} THEN "none"
    ELSE IF \E track \in found : HasLanguage(track) THEN "tagged" ELSE "untagged"

Finish(result) == phase' = "done" /\ outcome' = result

\* The panel does not answer, or about connections in a way that is an exception;
\* ffprobe cannot be started, or is killed after a while, says that it failed, or
\* cannot be read.
Fail(at) ==
    /\ phase = at
    /\ Finish("error")
    /\ UNCHANGED <<given, tracks, others>>

\* Fault: tracks the API has are good enough.
NeededIfNone(found) == found = {}

\* ffprobe_needed
Needed(found) == found = {} \/ ~ Satisfies(found, config.include)

\* _guess_stream_url
HasUrl == title.kind = "vod" \/ title.answer # <<>>

\* Fault: a title is deferred as often as ffprobe is needed.
ApiAnswersDeferringAgain ==
    /\ phase = "asking"
    /\ tracks' = EpisodeTracks(title.answer)
    /\ \/ ~ (Needed(tracks') /\ config.ffprobe) /\ Finish(Verdict(tracks'))
       \/ Needed(tracks') /\ config.ffprobe /\ Finish("defer")
    /\ UNCHANGED <<given, others>>

\* The API is enough, or there is nothing else; or the title is put off; or its
\* stream is to be opened.
ApiAnswers ==
    /\ phase = "asking"
    /\ tracks' = EpisodeTracks(title.answer)
    /\ \/ /\ ~ (Needed(tracks') /\ config.ffprobe)
          /\ Finish(Verdict(tracks'))
       \/ /\ Needed(tracks') /\ config.ffprobe /\ ~ allow
          /\ Finish("defer")
       \/ /\ Needed(tracks') /\ config.ffprobe /\ allow /\ ~ HasUrl
          /\ Finish(Verdict(tracks'))
       \/ /\ Needed(tracks') /\ config.ffprobe /\ allow /\ HasUrl
          /\ phase' = IF config.ignore THEN "opening" ELSE "checking"
          /\ UNCHANGED outcome
    /\ UNCHANGED <<given, others>>

-----------------------------------------------------------------------------
(* _has_free_slot *)

Most(m, n) == IF m < n THEN n ELSE m

\* Fault: the connection of the request itself is not thought of.
HasSlotCountingAll(active) == active < MaxConnections - config.reserve

\* The panel counts the connection of the request itself.
HasSlot(active) == Most(0, active - 1) < MaxConnections - config.reserve

\* Cooldown or recheck.
RefuseEarly ==
    /\ phase = "checking"
    /\ Finish("blocked")
    /\ UNCHANGED <<given, tracks, others>>

\* The number of connections is known ...
CountConnections ==
    /\ phase = "checking"
    /\ others' \in 0..MaxConnections
    /\ \/ /\ HasSlot(others' + 1)
          /\ phase' = "opening"
          /\ UNCHANGED outcome
       \/ /\ ~ HasSlot(others' + 1)
          /\ Finish("blocked")
    /\ UNCHANGED <<given, tracks>>

\* ... or taken not to matter.
CannotTell ==
    /\ phase = "checking"
    /\ phase' = "opening"
    /\ UNCHANGED <<given, tracks, others, outcome>>

-----------------------------------------------------------------------------
(* run_ffprobe *)

Launch ==
    /\ phase = "opening"
    /\ phase' = "probing"
    /\ UNCHANGED <<given, tracks, others, outcome>>

\* ffprobe sees the container, and what it finds replaces what the API said.
FfprobeAnswers ==
    /\ phase = "probing"
    /\ LET found == ParseTracks(title.container)
       IN  tracks' = IF found # {} THEN found ELSE tracks
    /\ Finish(Verdict(tracks'))
    /\ UNCHANGED <<given, others>>

\* It exits at once without a word: the slot was not free after all.
FfprobeIsTurnedAway ==
    /\ phase = "probing"
    /\ ~ config.ignore
    /\ Finish("blocked")
    /\ UNCHANGED <<given, tracks, others>>

Next ==
    \/ \E at \in Phase \ {"done"} : Fail(at)
    \/ ApiAnswers
    \/ RefuseEarly
    \/ CountConnections
    \/ CannotTell
    \/ Launch
    \/ FfprobeAnswers
    \/ FfprobeIsTurnedAway

Spec == Init /\ [][Next]_vars

-----------------------------------------------------------------------------
\* What the probe of a title may have to deal with is what ProbeWorker deals with,
\* for ffprobe configured or not and its turn or not (worker.py:611).
OutcomesKnown == phase = "done" => outcome \in OutcomesOf(config.ffprobe, allow)

\* e is audio, and a word of the include filter is in what the container says of it.
AskedFor(e) ==
    e.part = "stream" /\ {e.tagLanguage, e.tagTitle, e.codec} \intersect config.include # {}

\* A title whose stream holds a track the include filter asks for is not settled with
\* tracks that have none: not on the word of an API that leaves tracks out, and not on
\* that of an ffprobe that failed (worker.py:637, ffprobe.py:11).
IncludedNeverMissed ==
    /\ phase = "done"
    /\ outcome \in {"none", "untagged", "tagged"}
    /\ config.ffprobe /\ HasUrl
    /\ \E e \in title.container : AskedFor(e)
    => Satisfies(tracks, config.include)

\* A stream is opened exactly if reserve_slots connections remain beside it and the
\* others, on an account of one connection too (worker.py:368).
SlotCheckExact ==
    [][phase = "checking" /\ others' # -1 =>
          (phase' = "opening" <=> others' + 1 + config.reserve <= MaxConnections)]_vars

=============================================================================
