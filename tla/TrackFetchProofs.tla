-------------------------- MODULE TrackFetchProofs --------------------------
(***************************************************************************)
(* What the fetch of tracks promises, for any entries, filters, numbers of *)
(* episodes and connections.  Each promise is about the last step of the   *)
(* fetch, so that no invariant but the types and IncludedNeverMissed and   *)
(* OutcomesKnown themselves is needed.                                     *)
(***************************************************************************)
EXTENDS TrackFetch, TLAPS

Audio == {e \in Entries : e.part # "other"}
Found == {Track(e) : e \in Audio}

\* Only audio is parsed.
LEMMA ParsedFound ==
  ASSUME NEW info \in SUBSET Entries
  PROVE  ParseTracks(info) \subseteq Found
BY DEF ParseTracks, Found, Audio

\* ... of every episode that stands for the series.
LEMMA EpisodesFound ==
  ASSUME NEW t \in Title
  PROVE  EpisodeTracks(t.answer) \subseteq Found
<1>1. PICK n \in 0..MaxEpisodes : t.answer \in [1..n -> Info]
  BY DEF Title
<1>2. ASSUME NEW m \in DOMAIN t.answer
      PROVE  ParseTracks(t.answer[m]) \subseteq Found
  <2>1. t.answer[m] \in SUBSET Entries
    BY <1>1, <1>2 DEF Info
  <2> QED
    BY <2>1, ParsedFound
<1>3. ASSUME NEW x \in EpisodeTracks(t.answer)
      PROVE  x \in Found
  <2>1. PICK m \in DOMAIN t.answer : x \in ParseTracks(t.answer[m])
    BY <1>3 DEF EpisodeTracks
  <2> QED
    BY <2>1, <1>2
<1> QED
  BY <1>3

LEMMA VerdictTyped == \A found : Verdict(found) \in {"none", "untagged", "tagged"}
BY DEF Verdict

\* The types are kept by every step: what a step puts into tracks is parsed from audio.
LEMMA TypeStep == TypeOK /\ [Next]_vars => TypeOK'
<1> SUFFICES ASSUME TypeOK, [Next]_vars
             PROVE  TypeOK'
  OBVIOUS
<1> USE BoundsAssumption DEF Phase, Outcome, Finish, given
<1>1. ASSUME NEW at \in Phase \ {"done"}, Fail(at)
      PROVE  TypeOK'
  BY <1>1 DEF TypeOK, Fail
<1>2. CASE ApiAnswers
  <2>1. tracks' \subseteq Found
    BY <1>2, EpisodesFound DEF ApiAnswers, TypeOK
  <2>2. phase' \in Phase /\ outcome' \in Outcome
    BY <1>2, VerdictTyped DEF ApiAnswers, TypeOK
  <2> QED
    BY <1>2, <2>1, <2>2 DEF ApiAnswers, TypeOK, Found, Audio
<1>3. CASE RefuseEarly
  BY <1>3 DEF TypeOK, RefuseEarly
<1>4. CASE CountConnections
  BY <1>4 DEF TypeOK, CountConnections
<1>5. CASE CannotTell
  BY <1>5 DEF TypeOK, CannotTell
<1>6. CASE Launch
  BY <1>6 DEF TypeOK, Launch
<1>7. CASE FfprobeAnswers
  <2>1. title.container \in SUBSET Entries
    BY DEF TypeOK, Title, Container
  <2>2. tracks' \subseteq Found
    BY <1>7, <2>1, ParsedFound DEF FfprobeAnswers, TypeOK, Found, Audio
  <2>3. outcome' \in Outcome
    BY <1>7, VerdictTyped DEF FfprobeAnswers
  <2> QED
    BY <1>7, <2>2, <2>3 DEF FfprobeAnswers, TypeOK, Found, Audio
<1>8. CASE FfprobeIsTurnedAway
  BY <1>8 DEF TypeOK, FfprobeIsTurnedAway
<1>9. CASE UNCHANGED vars
  BY <1>9 DEF TypeOK, vars
<1> QED
  BY <1>1, <1>2, <1>3, <1>4, <1>5, <1>6, <1>7, <1>8, <1>9 DEF Next

\* What is found is audio the panel or ffprobe spoke of.
THEOREM TypeCorrect == Spec => []TypeOK
<1>1. Init => TypeOK
  BY BoundsAssumption DEF Init, TypeOK, Phase, Outcome
<1> QED
  BY <1>1, TypeStep, PTL DEF Spec

-----------------------------------------------------------------------------
(* The outcome.  A stream is only opened when ffprobe is there and it is    *)
(* the turn of the title.                                                   *)

Opened == phase \in {"checking", "opening", "probing"} => config.ffprobe /\ allow

LEMMA OutcomeStep ==
  Opened /\ OutcomesKnown /\ [Next]_vars => Opened' /\ OutcomesKnown'
<1> SUFFICES ASSUME Opened, OutcomesKnown, [Next]_vars
             PROVE  Opened' /\ OutcomesKnown'
  OBVIOUS
<1> USE DEF Opened, OutcomesKnown, OutcomesOf, Finish, given
<1>1. ASSUME NEW at \in Phase \ {"done"}, Fail(at)
      PROVE  Opened' /\ OutcomesKnown'
  BY <1>1 DEF Fail
<1>2. CASE ApiAnswers
  <2>1. CASE ~ (Needed(tracks') /\ config.ffprobe) /\ Finish(Verdict(tracks'))
    <3>1. CASE config.ffprobe
      <4>1. Verdict(tracks') # "none"
        BY <2>1, <3>1 DEF Needed, Verdict
      <4> QED
        BY <1>2, <2>1, <4>1, VerdictTyped DEF ApiAnswers
    <3>2. CASE ~ config.ffprobe
      BY <1>2, <2>1, <3>2, VerdictTyped DEF ApiAnswers
    <3> QED
      BY <3>1, <3>2
  <2>2. CASE config.ffprobe /\ ~ allow /\ Finish("defer")
    BY <1>2, <2>2 DEF ApiAnswers
  <2>3. CASE config.ffprobe /\ allow /\ Finish(Verdict(tracks'))
    BY <1>2, <2>3, VerdictTyped DEF ApiAnswers
  <2>4. CASE config.ffprobe /\ allow /\ phase' = (IF config.ignore THEN "opening" ELSE "checking")
    BY <1>2, <2>4 DEF ApiAnswers
  <2> QED
    BY <1>2, <2>1, <2>2, <2>3, <2>4 DEF ApiAnswers
<1>3. CASE RefuseEarly
  BY <1>3 DEF RefuseEarly
<1>4. CASE CountConnections
  BY <1>4 DEF CountConnections
<1>5. CASE CannotTell
  BY <1>5 DEF CannotTell
<1>6. CASE Launch
  BY <1>6 DEF Launch
<1>7. CASE FfprobeAnswers
  BY <1>7, VerdictTyped DEF FfprobeAnswers
<1>8. CASE FfprobeIsTurnedAway
  BY <1>8 DEF FfprobeIsTurnedAway
<1>9. CASE UNCHANGED vars
  BY <1>9 DEF vars
<1> QED
  BY <1>1, <1>2, <1>3, <1>4, <1>5, <1>6, <1>7, <1>8, <1>9 DEF Next

\* ProbeWorker has to deal with no other outcome, whether there is an ffprobe or not and
\* whether it is its turn or not.
THEOREM OutcomesAlwaysKnown == Spec => []OutcomesKnown
<1>1. Init => Opened /\ OutcomesKnown
  BY DEF Init, Opened, OutcomesKnown
<1> QED
  BY <1>1, OutcomeStep, PTL DEF Spec

-----------------------------------------------------------------------------
(* The include filter.                                                      *)

\* A container with a track that is asked for satisfies the filter by what is parsed
\* from it: all that ffprobe says of a track is in its text.
LEMMA AskedIsParsed ==
  ASSUME NEW e \in title.container, AskedFor(e), config.include \subseteq Word
  PROVE  /\ ParseTracks(title.container) # {}
         /\ Satisfies(ParseTracks(title.container), config.include)
<1>1. PICK w \in config.include : w \in {e.tagLanguage, e.tagTitle, e.codec}
  BY DEF AskedFor
<1>2. w # NoWord
  BY <1>1, WordAssumption
<1>3. w \in Track(e).text
  <2>1. w \in {LanguageOf(e), TitleOf(e), e.codec}
    BY <1>1, <1>2 DEF LanguageOf, TitleOf, First
  <2> QED
    BY <1>2, <2>1 DEF Track
<1>4. Track(e) \in ParseTracks(title.container)
  BY DEF ParseTracks, AskedFor
<1> QED
  BY <1>1, <1>3, <1>4 DEF Satisfies

LEMMA IncludedStep == TypeOK /\ IncludedNeverMissed /\ [Next]_vars => IncludedNeverMissed'
<1> SUFFICES ASSUME TypeOK, IncludedNeverMissed, [Next]_vars
             PROVE  IncludedNeverMissed'
  OBVIOUS
<1> DEFINE Asked == \E e \in title.container : AskedFor(e)
<1>a. ASSUME UNCHANGED <<title, config>>
      PROVE  Asked' = Asked
  BY <1>a DEF AskedFor
<1>b. ASSUME UNCHANGED given, phase' # "done" \/ outcome' \notin {"none", "untagged", "tagged"}
      PROVE  IncludedNeverMissed'
  BY <1>b DEF IncludedNeverMissed
<1> HIDE DEF Asked
<1> USE DEF Finish, given
<1>1. ASSUME NEW at \in Phase \ {"done"}, Fail(at)
      PROVE  IncludedNeverMissed'
  BY <1>1, <1>b DEF Fail
<1>2. CASE ApiAnswers
  <2>1. CASE ~ (Needed(tracks') /\ config.ffprobe)
    <3>1. config' = config
      BY <1>2 DEF ApiAnswers
    <3>2. config.ffprobe => Satisfies(tracks', config.include)
      BY <2>1 DEF Needed
    <3> QED
      BY <3>1, <3>2 DEF IncludedNeverMissed, Satisfies
  <2>2. CASE Finish("defer")
    BY <1>2, <2>2, <1>b DEF ApiAnswers
  <2>3. CASE ~ HasUrl
    BY <1>2, <2>3 DEF ApiAnswers, IncludedNeverMissed, HasUrl
  <2>4. CASE phase' = IF config.ignore THEN "opening" ELSE "checking"
    BY <1>2, <2>4, <1>b DEF ApiAnswers
  <2> QED
    BY <1>2, <2>1, <2>2, <2>3, <2>4 DEF ApiAnswers
<1>3. CASE RefuseEarly
  BY <1>3, <1>b DEF RefuseEarly
<1>4. CASE CountConnections
  BY <1>4, <1>b DEF CountConnections
<1>5. CASE CannotTell
  BY <1>5, <1>b DEF CannotTell
<1>6. CASE Launch
  BY <1>6, <1>b DEF Launch
<1>7. CASE FfprobeAnswers
  <2>1. title' = title /\ config' = config
    BY <1>7 DEF FfprobeAnswers
  <2>2. config.include \subseteq Word
    BY DEF TypeOK, Config
  <2>3. Asked => /\ ParseTracks(title.container) # {}
                 /\ Satisfies(ParseTracks(title.container), config.include)
    BY <2>2, AskedIsParsed DEF Asked
  <2>4. Asked => Satisfies(tracks', config.include)
    BY <1>7, <2>3 DEF FfprobeAnswers
  <2>5. Asked' => Satisfies(tracks', config'.include)
    BY <1>a, <2>1, <2>4
  <2> QED
    BY <2>5 DEF IncludedNeverMissed, Asked, Satisfies
<1>8. CASE FfprobeIsTurnedAway
  BY <1>8, <1>b DEF FfprobeIsTurnedAway
<1>9. CASE UNCHANGED vars
  BY <1>9 DEF vars, IncludedNeverMissed, HasUrl, AskedFor, Satisfies
<1> QED
  BY <1>1, <1>2, <1>3, <1>4, <1>5, <1>6, <1>7, <1>8, <1>9 DEF Next

\* A title whose stream holds what the include filter asks for is settled with it, if
\* there is an ffprobe and a stream to open, whatever the API says.
THEOREM IncludedIsNeverMissed == Spec => []IncludedNeverMissed
<1>1. Init => IncludedNeverMissed
  BY DEF Init, IncludedNeverMissed
<1> QED
  BY <1>1, IncludedStep, TypeCorrect, PTL DEF Spec

-----------------------------------------------------------------------------
(* The slot check.                                                          *)

\* The check is exact, the connection of the request itself left out.
LEMMA HasSlotExact ==
  ASSUME NEW n \in Nat, NEW c \in Config
  PROVE  Most(0, n + 1 - 1) < MaxConnections - c.reserve
            <=> n + 1 + c.reserve <= MaxConnections
<1>1. c.reserve \in Int /\ MaxConnections \in Int
  BY BoundsAssumption DEF Config
<1>2. Most(0, n + 1 - 1) = n
  BY DEF Most
<1> QED
  BY <1>1, <1>2

\* The connections are not known before the check ends.
Counted == phase \in {"asking", "checking"} => others = -1

\* A stream is opened beside others exactly if the reserved connections remain.
THEOREM SlotCheckAlwaysExact == Spec => SlotCheckExact
<1> DEFINE Exact == phase = "checking" /\ others' # -1 =>
                      (phase' = "opening" <=> others' + 1 + config.reserve <= MaxConnections)
<1>1. Init => Counted
  BY DEF Init, Counted
<1>2. Counted /\ [Next]_vars => Counted'
  <2> SUFFICES ASSUME Counted, Next
               PROVE  Counted'
    BY DEF Counted, vars
  <2> QED
    BY DEF Next, Fail, ApiAnswers, RefuseEarly, CountConnections, CannotTell, Launch,
           FfprobeAnswers, FfprobeIsTurnedAway, Finish, given, Counted
<1>3. TypeOK /\ Counted /\ [Next]_vars => [Exact]_vars
  <2> SUFFICES ASSUME TypeOK, Counted, Next, phase = "checking", others' # -1
               PROVE  phase' = "opening" <=> others' + 1 + config.reserve <= MaxConnections
    BY DEF Exact, vars
  <2>1. CountConnections
    BY DEF Next, Fail, ApiAnswers, RefuseEarly, CannotTell, Launch,
           FfprobeAnswers, FfprobeIsTurnedAway, Counted
  <2>2. others' \in Nat /\ config \in Config
    BY <2>1, BoundsAssumption DEF CountConnections, TypeOK
  <2>3. HasSlot(others' + 1) <=> others' + 1 + config.reserve <= MaxConnections
    BY <2>2, HasSlotExact DEF HasSlot
  <2> QED
    BY <2>1, <2>3 DEF CountConnections, Finish
<1> QED
  BY <1>1, <1>2, <1>3, TypeCorrect, PTL DEF Spec, SlotCheckExact

=============================================================================
