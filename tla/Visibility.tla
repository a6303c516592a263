----------------------------- MODULE Visibility ------------------------------
(***************************************************************************)
(* Which titles pass the operator's filters (src/app/core/filters.py and   *)
(* catalog.py), why the others do not (the breakdown of GET /api/stats),   *)
(* what POST /api/preview says of filters that are not in force yet.       *)
(*                                                                         *)
(* A text is the set of the patterns that are found in it.  Titles do not  *)
(* meet: one title is every title.                                         *)
(***************************************************************************)
EXTENDS FiniteSets, Integers

CONSTANTS
    Category,      \* category ids
    NoCategory,    \* a title without a category
    TitlePattern,  \* the patterns in use in title filters
    AudioPattern,  \* and in audio filters
    MaxTracks      \* bound on the audio tracks of a title

ASSUME CategoryAssumption == NoCategory \notin Category

VARIABLES
    title,  \* a title that is listed
    config  \* the filters of its kind

vars == <<title, config>>

-----------------------------------------------------------------------------
Status == {"pending", "deferred", "skipped", "error", "ok", "no_audio_info"}

\* combined is the name with that of the category, if the category has one.
Title ==
    {t \in [kind : {"live", "vod"}, category : Category \union {NoCategory},
            named : BOOLEAN, name : SUBSET TitlePattern, combined : SUBSET TitlePattern,
            overridden : BOOLEAN, status : Status,
            tracks : SUBSET SUBSET AudioPattern] :
        /\ Cardinality(t.tracks) <= MaxTracks
        /\ t.kind = "live" => t.tracks = {} /\ t.status = "pending"
        /\ t.category = NoCategory => ~ t.named
        /\ ~ t.named => t.combined = t.name}

Filter(pattern) == [include : SUBSET pattern, exclude : SUBSET pattern]

\* validate_config rejects a category that is in both sets.
Config ==
    {c \in [excluded : SUBSET Category, always : SUBSET Category,
            title : Filter(TitlePattern), match_category : BOOLEAN,
            audio : Filter(AudioPattern), on_unknown : {"keep", "drop"}] :
        c.excluded \intersect c.always = {}}

TypeOK == title \in Title /\ config \in Config

-----------------------------------------------------------------------------
(* filters.py *)

\* Fault: what is included is never excluded.
IncludeFirst(filter, found) ==
    \/ found \intersect filter.include # {}
    \/ filter.include = {} /\ found \intersect filter.exclude = {}

\* CompiledFilter.matches
Matches(filter, found) ==
    /\ found \intersect filter.exclude = {}
    /\ filter.include = {} \/ found \intersect filter.include # {}

TitlePasses(t, c) ==
    Matches(c.title, IF c.match_category /\ t.named THEN t.combined ELSE t.name)

\* One track that matches is enough, one that is excluded is too many.
AudioPasses(t, c, hasKnownTracks) ==
    IF ~ hasKnownTracks THEN c.on_unknown = "keep"
    ELSE Matches(c.audio, UNION t.tracks)

-----------------------------------------------------------------------------
(* catalog.py *)

HasKnownTracks(t) == t.status = "ok" /\ t.tracks # {}

\* Fault: titles without known tracks are not thought of.
AudioHasPatterns(t, c) ==
    t.kind = "vod" /\ (c.audio.include # {} \/ c.audio.exclude # {})

\* The stage is skipped, with its tables, when it would not hide anything.
AudioActive(t, c) ==
    /\ t.kind = "vod"
    /\ c.audio.include # {} \/ c.audio.exclude # {} \/ c.on_unknown = "drop"

\* compute_visible_for_kind
Visible(t, c) ==
    \/ t.overridden
    \/ t.category \in c.always
    \/ /\ t.category \notin c.excluded
       /\ TitlePasses(t, c)
       /\ AudioActive(t, c) => AudioPasses(t, c, HasKnownTracks(t))

\* Fault: an override is looked for after the categories.
HiddenByCategoryFirst(t, c) ==
    IF t.category \in c.always THEN "nothing"
    ELSE IF t.category \in c.excluded THEN "category"
    ELSE IF t.overridden THEN "nothing"
    ELSE IF ~ TitlePasses(t, c) THEN "title"
    ELSE IF AudioActive(t, c) /\ ~ AudioPasses(t, c, HasKnownTracks(t)) THEN "audio"
    ELSE "nothing"

\* compute_hidden_breakdown_for_kind, which goes through the stages on its own:
\* what it counts the title under.
HiddenBy(t, c) ==
    IF t.overridden THEN "nothing"
    ELSE IF t.category \in c.always THEN "nothing"
    ELSE IF t.category \in c.excluded THEN "category"
    ELSE IF ~ TitlePasses(t, c) THEN "title"
    ELSE IF AudioActive(t, c) /\ ~ AudioPasses(t, c, HasKnownTracks(t)) THEN "audio"
    ELSE "nothing"

-----------------------------------------------------------------------------
(* admin.py *)

\* Fault: whatever has been probed is known.
ProbedIsKnown(t) == t.status \in {"ok", "no_audio_info", "error"}

PreviewKnowsTracks(t) ==
    t.status \in {"ok", "no_audio_info", "error"} /\ t.tracks # {}

\* The preview is asked about title and audio filters only, and gives no category
\* name to match.
PreviewPasses(t, c) ==
    /\ Matches(c.title, t.name)
    /\ t.kind = "vod" => AudioPasses(t, c, PreviewKnowsTracks(t))

-----------------------------------------------------------------------------
(* The operator edits one thing, or something becomes of the title.         *)

Toggle(S, x) == IF x \in S THEN S \ {x} ELSE S \union {x}

EditCategories ==
    \E cat \in Category, list \in {"excluded", "always"} :
        config' = [config EXCEPT ![list] = Toggle(@, cat)]

EditPatterns ==
    \E list \in {"include", "exclude"} :
        \/ \E p \in TitlePattern : config' = [config EXCEPT !.title[list] = Toggle(@, p)]
        \/ \E p \in AudioPattern : config' = [config EXCEPT !.audio[list] = Toggle(@, p)]

EditOptions ==
    \/ config' = [config EXCEPT !.match_category = ~ @]
    \/ \E choice \in {"keep", "drop"} : config' = [config EXCEPT !.on_unknown = choice]

\* Fault: nothing is validated.
SaveUnchecked ==
    /\ EditCategories \/ EditPatterns \/ EditOptions
    /\ UNCHANGED title

\* POST /config
SaveConfig ==
    /\ EditCategories \/ EditPatterns \/ EditOptions
    /\ config' \in Config
    /\ UNCHANGED title

\* POST and DELETE /overrides
Override ==
    /\ title' = [title EXCEPT !.overridden = ~ @]
    /\ UNCHANGED config

\* The result of a probe: with tracks, "ok" or, when they carry no language,
\* "no_audio_info"; without, "no_audio_info"; after a failure what is stored
\* stays.
Probe ==
    /\ title.kind = "vod"
    /\ \/ \E tracks \in SUBSET SUBSET AudioPattern, status \in {"ok", "no_audio_info"} :
             /\ tracks = {} => status = "no_audio_info"
             /\ title' = [title EXCEPT !.status = status,
                                       !.tracks = IF tracks = {} THEN @ ELSE tracks]
       \/ title' = [title EXCEPT !.status = "error"]
    /\ title' \in Title
    /\ UNCHANGED config

Init == title \in Title /\ config \in Config

Next == SaveConfig \/ Override \/ Probe

Spec == Init /\ [][Next]_vars

-----------------------------------------------------------------------------
\* The breakdown explains exactly the titles that are not visible, each by one
\* stage, although it is computed apart from the visible set: total = visible +
\* category + title + audio (catalog.py:156, admin.py:268).
BreakdownExplains == Visible(title, config) <=> HiddenBy(title, config) = "nothing"

\* Skipping the audio stage, with its tables, changes nothing (catalog.py:88).
ShortcutIsSound ==
    title.kind = "vod" /\ ~ AudioActive(title, config)
        => AudioPasses(title, config, HasKnownTracks(title))

\* No category filter and no override is in the way, the category name
\* is not matched, and only confirmed tracks are stored.
Previewable(t, c) ==
    /\ ~ t.overridden
    /\ t.category \notin c.excluded \union c.always
    /\ ~ c.match_category
    /\ t.status \in {"error", "no_audio_info"} => t.tracks = {}

\* What the preview says of title and audio filters is what the clients get when
\* they are saved (admin.py:360).
PreviewAgrees ==
    Previewable(title, config) => (PreviewPasses(title, config) <=> Visible(title, config))

NarrowerFilter(f, g) ==
    /\ f.exclude \subseteq g.exclude
    /\ f.include = {} \/ (g.include # {} /\ g.include \subseteq f.include)

\* d lets through less than c, each in its own terms.
Narrower(c, d) ==
    /\ c.excluded \subseteq d.excluded
    /\ d.always \subseteq c.always
    /\ NarrowerFilter(c.title, d.title)
    /\ NarrowerFilter(c.audio, d.audio)
    /\ c.match_category = d.match_category
    /\ c.on_unknown = "drop" => d.on_unknown = "drop"

\* A narrower filter reveals nothing that was hidden, in whichever stage it is
\* and whatever the stages after it would say (catalog.py:117).
NarrowingRevealsNothing ==
    [][title' = title /\ Narrower(config, config')
          => (Visible(title', config') => Visible(title, config))]_vars

=============================================================================
