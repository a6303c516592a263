-------------------------- MODULE VisibilityProofs --------------------------
(***************************************************************************)
(* The stages that decide about a title are gone through in three places:  *)
(* for the visible set, for the breakdown and for the preview.  They agree *)
(* for any patterns, categories and tracks.  The pass over a playlist      *)
(* leaves out their titles, however long the playlist is.                  *)
(***************************************************************************)
EXTENDS Playlist, SequenceTheorems, WellFoundedInduction, TLAPS

\* A filter that is narrower matches nothing more.
LEMMA NarrowerMatches ==
  ASSUME NEW f, NEW g, NEW found, NarrowerFilter(f, g), Matches(g, found)
  PROVE  Matches(f, found)
BY DEF NarrowerFilter, Matches

\* ... also in the audio stage, whether it is skipped or not.
LEMMA NarrowerAudio ==
  ASSUME NEW t, NEW c \in Config, NEW d \in Config, Narrower(c, d), t.kind = "vod",
         AudioActive(t, d) => AudioPasses(t, d, HasKnownTracks(t)),
         AudioActive(t, c)
  PROVE  AudioPasses(t, c, HasKnownTracks(t))
<1>1. NarrowerFilter(c.audio, d.audio)
  BY DEF Narrower
<1>2. c.on_unknown \in {"keep", "drop"} /\ d.on_unknown \in {"keep", "drop"}
  BY DEF Config
<1>3. CASE HasKnownTracks(t)
  <2>1. AudioActive(t, d) => Matches(d.audio, UNION t.tracks)
    BY <1>3 DEF AudioPasses
  <2>2. Matches(d.audio, UNION t.tracks)
    BY <2>1 DEF AudioActive, Matches
  <2> QED
    BY <1>1, <1>3, <2>2, NarrowerMatches DEF AudioPasses
<1>4. CASE ~ HasKnownTracks(t)
  BY <1>2, <1>4 DEF Narrower, AudioPasses, AudioActive
<1> QED
  BY <1>3, <1>4

\* What a title is visible by is not lost when a filter gets wider.
LEMMA NarrowerVisible ==
  ASSUME NEW t, NEW c \in Config, NEW d \in Config, Narrower(c, d), Visible(t, d)
  PROVE  Visible(t, c)
<1>1. CASE t.overridden \/ t.category \in d.always
  BY <1>1 DEF Narrower, Visible
<1>2. CASE ~ (t.overridden \/ t.category \in d.always)
  <2>1. t.category \notin c.excluded
    BY <1>2 DEF Narrower, Visible
  <2>2. TitlePasses(t, c)
    BY <1>2, NarrowerMatches DEF Narrower, Visible, TitlePasses
  <2>3. AudioActive(t, c) => AudioPasses(t, c, HasKnownTracks(t))
    <3>1. AudioActive(t, d) => AudioPasses(t, d, HasKnownTracks(t))
      BY <1>2 DEF Visible
    <3>2. AudioActive(t, c) => t.kind = "vod"
      BY DEF AudioActive
    <3> QED
      BY <3>1, <3>2, NarrowerAudio
  <2> QED
    BY <2>1, <2>2, <2>3 DEF Visible
<1> QED
  BY <1>1, <1>2

-----------------------------------------------------------------------------
\* Titles and filters keep their types, whatever is edited.
THEOREM TypeCorrect == Spec => []TypeOK
<1>1. Init => TypeOK
  BY DEF Init, TypeOK
<1>2. TypeOK /\ [Next]_vars => TypeOK'
  <2> SUFFICES ASSUME TypeOK, [Next]_vars
               PROVE  TypeOK'
    OBVIOUS
  <2>1. CASE SaveConfig
    BY <2>1 DEF TypeOK, SaveConfig
  <2>2. CASE Override
    <3>1. title' \in Title
      BY <2>2 DEF TypeOK, Override, Title
    <3> QED
      BY <2>2, <3>1 DEF TypeOK, Override
  <2>3. CASE Probe
    BY <2>3 DEF TypeOK, Probe
  <2>4. CASE UNCHANGED vars
    BY <2>4 DEF TypeOK, vars
  <2> QED
    BY <2>1, <2>2, <2>3, <2>4 DEF Next
<1> QED
  BY <1>1, <1>2, PTL DEF Spec

\* The breakdown counts every listed title that is not visible, once.
THEOREM BreakdownAlwaysExplains == Spec => []BreakdownExplains
<1>1. TypeOK => BreakdownExplains
  BY DEF TypeOK, BreakdownExplains, Visible, HiddenBy, Config
<1> QED
  BY <1>1, TypeCorrect, PTL

\* The audio stage is skipped only where it passes everything.
THEOREM ShortcutAlwaysSound == Spec => []ShortcutIsSound
<1>1. TypeOK => ShortcutIsSound
  <2> SUFFICES ASSUME TypeOK, title.kind = "vod", ~ AudioActive(title, config)
               PROVE  AudioPasses(title, config, HasKnownTracks(title))
    BY DEF ShortcutIsSound
  <2>1. config.on_unknown = "keep"
    BY DEF TypeOK, Config, AudioActive
  <2>2. config.audio.include = {} /\ config.audio.exclude = {}
    BY DEF AudioActive
  <2> QED
    BY <2>1, <2>2 DEF AudioPasses, Matches
<1> QED
  BY <1>1, TypeCorrect, PTL

\* Where no category or override is in the way, the preview tells what the clients
\* will get.
THEOREM PreviewAlwaysAgrees == Spec => []PreviewAgrees
<1>1. TypeOK /\ ShortcutIsSound => PreviewAgrees
  <2> SUFFICES ASSUME TypeOK, ShortcutIsSound, Previewable(title, config)
               PROVE  PreviewPasses(title, config) <=> Visible(title, config)
    BY DEF PreviewAgrees
  <2>1. TitlePasses(title, config) <=> Matches(config.title, title.name)
    BY DEF Previewable, TitlePasses
  <2>2. PreviewKnowsTracks(title) <=> HasKnownTracks(title)
    BY DEF Previewable, PreviewKnowsTracks, HasKnownTracks
  <2>3. AudioPasses(title, config, PreviewKnowsTracks(title))
          <=> AudioPasses(title, config, HasKnownTracks(title))
    BY <2>2 DEF AudioPasses
  <2>4. (AudioActive(title, config) => AudioPasses(title, config, HasKnownTracks(title)))
          <=> (title.kind = "vod" => AudioPasses(title, config, HasKnownTracks(title)))
    BY DEF ShortcutIsSound, AudioActive
  <2> QED
    BY <2>1, <2>3, <2>4 DEF Previewable, PreviewPasses, Visible
<1> QED
  BY <1>1, TypeCorrect, ShortcutAlwaysSound, PTL

\* Narrowing a filter reveals nothing.
THEOREM NarrowingNeverReveals == Spec => NarrowingRevealsNothing
<1>1. TypeOK /\ TypeOK' =>
        [title' = title /\ Narrower(config, config')
          => (Visible(title', config') => Visible(title, config))]_vars
  BY NarrowerVisible DEF TypeOK
<1> QED
  BY <1>1, TypeCorrect, PTL DEF NarrowingRevealsNothing

-----------------------------------------------------------------------------
(* Induction over the natural numbers, by way of the least number that is  *)
(* not in the set.                                                         *)

\* A set of numbers has a least one.
LEMMA LeastNumber ==
  ASSUME NEW S \in SUBSET Nat, S # {}
  PROVE  \E n \in S : \A m \in S : n <= m
<1>1. IsWellFoundedOn(OpToRel(<, Nat), Nat)
  BY NatLessThanWellFounded
<1>2. PICK n \in S : \A m \in S : <<m, n>> \notin OpToRel(<, Nat)
  BY <1>1, WFMin
<1>3. \A m \in S : <<m, n>> \in OpToRel(<, Nat) <=> m < n
  BY DEF OpToRel
<1>4. \A m \in S : ~ (m < n)
  BY <1>2, <1>3, Zenon
<1> HIDE <1>2
<1> QED
  BY <1>4

\* A set with zero and the successors of its numbers has them all.
LEMMA Induction ==
  ASSUME NEW S, 0 \in S, \A n \in Nat : n \in S => n + 1 \in S
  PROVE  Nat \subseteq S
<1> SUFFICES ASSUME Nat \ S # {}
             PROVE  FALSE
  OBVIOUS
<1>1. PICK n \in Nat \ S : \A m \in Nat \ S : n <= m
  BY LeastNumber
<1>2. n - 1 \in Nat /\ n - 1 \in S
  BY <1>1
<1> QED
  BY <1>2

-----------------------------------------------------------------------------
(* The two passes over sequences: FlattenSeq and FilterM3u.                *)

\* What comes together up to an element of s, from what did up to the one before.
FlattenTo(f, s, n) == IF n = 1 THEN s[n] ELSE f[n-1] \o s[n]

\* f is what comes together up to each element of s.
IsFlatten(f, s, T) ==
    /\ f \in [1..Len(s) -> Seq(T)]
    /\ \A i \in 1..Len(s) : f[i] = FlattenTo(f, s, i)

\* There is a function that follows the recursion in FlattenSeq ...
LEMMA FlattenExists ==
  ASSUME NEW T, NEW s \in Seq(Seq(T))
  PROVE  \A n \in 0..Len(s) : \E f \in [1..n -> Seq(T)] :
            \A i \in 1..n : f[i] = FlattenTo(f, s, i)
<1> DEFINE Good == {n \in Nat : n <= Len(s) => \E f \in [1..n -> Seq(T)] :
                                    \A i \in 1..n : f[i] = FlattenTo(f, s, i)}
<1>1. 0 \in Good
  <2> DEFINE f == [i \in 1..0 |-> <<>>]
  <2>1. f \in [1..0 -> Seq(T)] /\ \A i \in 1..0 : f[i] = FlattenTo(f, s, i)
    OBVIOUS
  <2> QED
    BY <2>1
<1>2. ASSUME NEW n \in Nat, n \in Good
      PROVE  n + 1 \in Good
  <2> SUFFICES ASSUME n + 1 <= Len(s)
               PROVE  \E f \in [1..n+1 -> Seq(T)] : \A i \in 1..n+1 : f[i] = FlattenTo(f, s, i)
    OBVIOUS
  <2>1. PICK f \in [1..n -> Seq(T)] : \A i \in 1..n : f[i] = FlattenTo(f, s, i)
    BY <1>2
  <2>2. s[n+1] \in Seq(T)
    BY ElementOfSeq
  <2>3. n # 0 => f[n] \in Seq(T) /\ f[n] \o s[n+1] \in Seq(T)
    BY <2>1, <2>2, ConcatProperties
  <2> DEFINE g == [i \in 1..n+1 |-> IF i = n + 1 THEN FlattenTo(f, s, n + 1) ELSE f[i]]
  <2>4. FlattenTo(f, s, n + 1) \in Seq(T)
    BY <2>2, <2>3 DEF FlattenTo
  <2>5. g \in [1..n+1 -> Seq(T)]
    BY <2>1, <2>4
  <2>6. ASSUME NEW i \in 1..n+1
        PROVE  g[i] = FlattenTo(g, s, i)
    <3>1. FlattenTo(g, s, i) = FlattenTo(f, s, i)
      <4>1. i # 1 => i - 1 \in 1..n+1 /\ i - 1 # n + 1
        OBVIOUS
      <4>2. i # 1 => g[i-1] = f[i-1]
        BY <4>1
      <4> HIDE DEF g
      <4> QED
        BY <4>2 DEF FlattenTo
    <3>2. i \in 1..n => g[i] = FlattenTo(f, s, i)
      BY <2>1
    <3>3. i = n + 1 => g[i] = FlattenTo(f, s, i)
      OBVIOUS
    <3> QED
      BY <3>1, <3>2, <3>3
  <2> QED
    BY <2>5, <2>6
<1>3. Nat \subseteq Good
  <2> HIDE DEF Good
  <2> QED
    BY <1>1, <1>2, Induction
<1>4. ASSUME NEW n \in 0..Len(s)
      PROVE  \E f \in [1..n -> Seq(T)] : \A i \in 1..n : f[i] = FlattenTo(f, s, i)
  <2>1. n \in Nat /\ n <= Len(s)
    BY LenProperties
  <2>2. n \in Good
    BY <1>3, <2>1, Zenon
  <2> QED
    BY <2>1, <2>2
<1> QED
  BY <1>4

\* ... and FlattenSeq is its last value.
LEMMA FlattenIs ==
  ASSUME NEW T, NEW s \in Seq(Seq(T)), s # <<>>
  PROVE  \E f : IsFlatten(f, s, T) /\ FlattenSeq(s) = f[Len(s)]
<1> DEFINE D == 1..Len(s)
           F == CHOOSE f : f = [i \in D |-> IF i = 1 THEN s[i] ELSE f[i-1] \o s[i]]
<1>1. Len(s) \in Nat /\ Len(s) # 0
  BY LenProperties, EmptySeq
<1>2. FlattenSeq(s) = F[Len(s)]
  BY <1>1, Zenon DEF FlattenSeq
<1>3. PICK g \in [D -> Seq(T)] : \A i \in D : g[i] = FlattenTo(g, s, i)
  <2>1. Len(s) \in 0..Len(s)
    BY <1>1
  <2> QED
    BY <2>1, FlattenExists, Zenon
<1>4. g = [i \in D |-> IF i = 1 THEN s[i] ELSE g[i-1] \o s[i]]
  BY <1>3 DEF FlattenTo
<1>5. F = [i \in D |-> IF i = 1 THEN s[i] ELSE F[i-1] \o s[i]]
  BY <1>4, Zenon
<1>. HIDE DEF F
<1>6. \A i \in D : F[i] = FlattenTo(F, s, i)
  BY <1>5, Zenon DEF FlattenTo
<1>7. F = g
  <2> DEFINE Good == {n \in Nat : n \in D => F[n] = g[n]}
  <2>1. 0 \in Good
    OBVIOUS
  <2>2. ASSUME NEW n \in Nat, n \in Good
        PROVE  n + 1 \in Good
    <3> SUFFICES ASSUME n + 1 \in D
                 PROVE  F[n + 1] = g[n + 1]
      OBVIOUS
    <3>1. n + 1 # 1 => F[(n + 1) - 1] = g[(n + 1) - 1]
      BY <2>2
    <3>2. FlattenTo(F, s, n + 1) = FlattenTo(g, s, n + 1)
      BY <3>1, Zenon DEF FlattenTo
    <3> QED
      BY <1>3, <1>6, <3>2, Zenon
  <2>3. Nat \subseteq Good
    <3> HIDE DEF Good
    <3> QED
      BY <2>1, <2>2, Induction
  <2>4. \A n \in D : F[n] = g[n]
    BY <2>3
  <2>5. F = [n \in D |-> F[n]]
    BY <1>5
  <2>6. g = [n \in D |-> g[n]]
    BY <1>3
  <2> QED
    BY <2>4, <2>5, <2>6, Zenon
<1> QED
  BY <1>2, <1>3, <1>7, Zenon DEF IsFlatten

-----------------------------------------------------------------------------
\* What the pass yields from a line on, from what it yields from the lines after.
ScanFrom(f, lines, hidden, n) ==
    IF n > Len(lines) THEN <<>>
    ELSE IF lines[n] = "#EXTINF"
         THEN (IF LineAt(lines, n + 1) \in hidden THEN <<>>
               ELSE <<lines[n], LineAt(lines, n + 1)>>) \o f[n + 2]
    ELSE IF lines[n] = "blank" THEN f[n + 1]
    ELSE <<lines[n]>> \o f[n + 1]

\* f is what the pass yields from each line on.
IsScan(f, lines, hidden, T) ==
    /\ f \in [1..Len(lines)+2 -> Seq(T)]
    /\ \A n \in 1..Len(lines)+2 : f[n] = ScanFrom(f, lines, hidden, n)

\* A step of the pass yields lines if the rest of the pass does.
LEMMA ScanTyped ==
  ASSUME NEW T, "blank" \in T, NEW lines \in Seq(T), NEW hidden, NEW f, NEW n \in 1..Len(lines)+2,
         n <= Len(lines) => f[n+1] \in Seq(T) /\ f[n+2] \in Seq(T)
  PROVE  ScanFrom(f, lines, hidden, n) \in Seq(T)
<1>1. CASE n > Len(lines)
  BY <1>1 DEF ScanFrom
<1>2. CASE n <= Len(lines)
  <2>1. n \in 1..Len(lines) /\ lines[n] \in T
    BY <1>2, ElementOfSeq
  <2>2. LineAt(lines, n + 1) \in T
    <3>1. n + 1 <= Len(lines) => n + 1 \in 1..Len(lines) /\ lines[n+1] \in T
      BY <2>1, ElementOfSeq
    <3> QED
      BY <3>1 DEF LineAt
  <2> DEFINE first == IF LineAt(lines, n + 1) \in hidden THEN <<>>
                      ELSE <<lines[n], LineAt(lines, n + 1)>>
  <2>3. <<lines[n]>> \in Seq(T) /\ first \in Seq(T)
    BY <2>1, <2>2
  <2>4. <<lines[n]>> \o f[n+1] \in Seq(T)
    BY <1>2, <2>3, ConcatProperties
  <2>5. first \o f[n+2] \in Seq(T)
    <3> HIDE DEF first
    <3> QED
      BY <1>2, <2>3, ConcatProperties
  <2>6. ~ (n > Len(lines))
    BY <1>2, LenProperties
  <2> QED
    BY <1>2, <2>4, <2>5, <2>6, Zenon DEF ScanFrom
<1> QED
  BY <1>1, <1>2, LenProperties

\* There is a function that follows the recursion in FilterM3u ...
LEMMA ScanExists ==
  ASSUME NEW T, "blank" \in T, NEW lines \in Seq(T), NEW hidden
  PROVE  \E f : IsScan(f, lines, hidden, T)
<1> DEFINE M == Len(lines) + 2
           From(k) == M - k .. M
           Good == {k \in Nat : k < M => \E f \in [From(k) -> Seq(T)] :
                                  \A n \in From(k) : f[n] = ScanFrom(f, lines, hidden, n)}
<1>0. Len(lines) \in Nat
  BY LenProperties
<1>1. 0 \in Good
  <2> DEFINE f == [n \in From(0) |-> <<>>]
  <2>1. f \in [From(0) -> Seq(T)]
    OBVIOUS
  <2>2. \A n \in From(0) : n > Len(lines) /\ f[n] = <<>>
    BY <1>0
  <2>3. \A n \in From(0) : f[n] = ScanFrom(f, lines, hidden, n)
    BY <2>2, Zenon DEF ScanFrom
  <2> QED
    BY <2>1, <2>3
<1>2. ASSUME NEW k \in Nat, k \in Good
      PROVE  k + 1 \in Good
  <2> SUFFICES ASSUME k + 1 < M
               PROVE  \E f \in [From(k + 1) -> Seq(T)] :
                         \A n \in From(k + 1) : f[n] = ScanFrom(f, lines, hidden, n)
    OBVIOUS
  <2>1. PICK f \in [From(k) -> Seq(T)] :
               \A n \in From(k) : f[n] = ScanFrom(f, lines, hidden, n)
    BY <1>0, <1>2
  <2> DEFINE m == M - (k + 1)
             g == [n \in From(k + 1) |-> IF n = m THEN ScanFrom(f, lines, hidden, m) ELSE f[n]]
  <2>2. ScanFrom(f, lines, hidden, m) \in Seq(T)
    <3>1. m \in 1..M
      BY <1>0
    <3>2. m <= Len(lines) => m + 1 \in From(k) /\ m + 2 \in From(k)
      BY <1>0
    <3>3. m <= Len(lines) => f[m+1] \in Seq(T) /\ f[m+2] \in Seq(T)
      BY <2>1, <3>2
    <3> HIDE DEF m
    <3> QED
      BY <3>1, <3>3, ScanTyped
  <2>3. \A n \in From(k + 1) : n = m \/ n \in From(k)
    BY <1>0
  <2>4. g \in [From(k + 1) -> Seq(T)]
    <3> HIDE DEF m, From, M
    <3> QED
      BY <2>1, <2>2, <2>3
  <2>5. ASSUME NEW n \in From(k + 1)
        PROVE  g[n] = ScanFrom(g, lines, hidden, n)
    <3>1. ~ (n > Len(lines)) => /\ n + 1 \in From(k + 1) /\ n + 1 # m
                                /\ n + 2 \in From(k + 1) /\ n + 2 # m
      BY <1>0
    <3>2. ~ (n > Len(lines)) => g[n+1] = f[n+1] /\ g[n+2] = f[n+2]
      <4> HIDE DEF m, From, M
      <4> QED
        BY <3>1
    <3>3. ScanFrom(g, lines, hidden, n) = ScanFrom(f, lines, hidden, n)
      <4> HIDE DEF g
      <4> QED
        BY <3>2, Zenon DEF ScanFrom
    <3>4. n # m => n \in From(k) /\ g[n] = f[n]
      <4> HIDE DEF m, From, M
      <4> QED
        BY <2>3
    <3>5. n = m => g[n] = ScanFrom(f, lines, hidden, n)
      <4> HIDE DEF m, From, M
      <4> QED
        OBVIOUS
    <3> HIDE DEF g, m, From, M
    <3> QED
      BY <2>1, <3>3, <3>4, <3>5
  <2> QED
    BY <2>4, <2>5
<1>3. M - 1 \in Good
  <2>1. M - 1 \in Nat
    BY <1>0
  <2>2. Nat \subseteq Good
    <3> HIDE DEF Good
    <3> QED
      BY <1>1, <1>2, Induction
  <2> QED
    BY <2>1, <2>2
<1>4. From(M - 1) = 1..M
  BY <1>0
<1>5. \E f \in [1..M -> Seq(T)] : \A n \in 1..M : f[n] = ScanFrom(f, lines, hidden, n)
  BY <1>0, <1>3, <1>4
<1> QED
  BY <1>5, Zenon DEF IsScan

\* ... and FilterM3u is its first value.
LEMMA FilterIs ==
  ASSUME NEW T, "blank" \in T, NEW lines \in Seq(T), NEW hidden
  PROVE  \E f : IsScan(f, lines, hidden, T) /\ FilterM3u(lines, hidden) = f[1]
<1> DEFINE D == 1..Len(lines)+2
           F == CHOOSE f : f = [n \in D |->
                  IF n > Len(lines) THEN <<>>
                  ELSE IF lines[n] = "#EXTINF"
                       THEN (IF LineAt(lines, n + 1) \in hidden THEN <<>>
                             ELSE <<lines[n], LineAt(lines, n + 1)>>) \o f[n + 2]
                  ELSE IF lines[n] = "blank" THEN f[n + 1]
                  ELSE <<lines[n]>> \o f[n + 1]]
<1>1. FilterM3u(lines, hidden) = F[1]
  BY Zenon DEF FilterM3u
<1>2. PICK g : IsScan(g, lines, hidden, T)
  BY ScanExists, Zenon
<1>3. g = [n \in D |->
                  IF n > Len(lines) THEN <<>>
                  ELSE IF lines[n] = "#EXTINF"
                       THEN (IF LineAt(lines, n + 1) \in hidden THEN <<>>
                             ELSE <<lines[n], LineAt(lines, n + 1)>>) \o g[n + 2]
                  ELSE IF lines[n] = "blank" THEN g[n + 1]
                  ELSE <<lines[n]>> \o g[n + 1]]
  <2>1. g = [n \in D |-> ScanFrom(g, lines, hidden, n)]
    BY <1>2, Zenon DEF IsScan
  <2> QED
    BY <2>1, Zenon DEF ScanFrom
<1>4. F = [n \in D |->
                  IF n > Len(lines) THEN <<>>
                  ELSE IF lines[n] = "#EXTINF"
                       THEN (IF LineAt(lines, n + 1) \in hidden THEN <<>>
                             ELSE <<lines[n], LineAt(lines, n + 1)>>) \o F[n + 2]
                  ELSE IF lines[n] = "blank" THEN F[n + 1]
                  ELSE <<lines[n]>> \o F[n + 1]]
  BY <1>3, Zenon
<1> HIDE DEF F
<1>5. F = [n \in D |-> ScanFrom(F, lines, hidden, n)]
  BY <1>4, Zenon DEF ScanFrom
<1>6. \A n \in D : F[n] = ScanFrom(F, lines, hidden, n)
  BY <1>5, Zenon
<1>7. \A n \in D : F[n] \in Seq(T)
  <2> DEFINE M == Len(lines) + 2
             Good == {k \in Nat : \A n \in D : n >= M - k => F[n] \in Seq(T)}
  <2>0. Len(lines) \in Nat
    BY LenProperties
  <2>1. 0 \in Good
    <3>1. \A n \in D : n >= M - 0 => n > Len(lines)
      BY <2>0
    <3>2. \A n \in D : n > Len(lines) => F[n] = <<>>
      BY <1>6, Zenon DEF ScanFrom
    <3>3. <<>> \in Seq(T)
      OBVIOUS
    <3>4. \A n \in D : n >= M - 0 => F[n] \in Seq(T)
      <4> HIDE DEF M, D
      <4> QED
        BY <3>1, <3>2, <3>3
    <3>5. 0 \in Nat
      OBVIOUS
    <3> HIDE DEF M, D
    <3> QED
      BY <3>4, <3>5
  <2>2. ASSUME NEW k \in Nat, k \in Good
        PROVE  k + 1 \in Good
    <3> SUFFICES ASSUME NEW n \in D, n >= M - (k + 1)
                 PROVE  F[n] \in Seq(T)
      OBVIOUS
    <3>1. n <= Len(lines) => F[n+1] \in Seq(T) /\ F[n+2] \in Seq(T)
      <4>1. n <= Len(lines) => /\ n + 1 \in D /\ n + 1 >= M - k
                               /\ n + 2 \in D /\ n + 2 >= M - k
        BY <2>0
      <4> QED
        BY <2>2, <4>1
    <3>2. ScanFrom(F, lines, hidden, n) \in Seq(T)
      BY <3>1, ScanTyped
    <3> QED
      BY <1>6, <3>2
  <2>3. Nat \subseteq Good
    <3> HIDE DEF Good
    <3> QED
      BY <2>1, <2>2, Induction
  <2>4. M \in Nat /\ \A n \in D : n >= M - M
    BY <2>0
  <2>5. M \in Good
    <3> HIDE DEF Good, M
    <3> QED
      BY <2>3, <2>4
  <2> HIDE DEF M, D
  <2> QED
    BY <2>4, <2>5
<1>8. F \in [D -> Seq(T)]
  BY <1>5, <1>7
<1> QED
  BY <1>1, <1>6, <1>8, Zenon DEF IsScan

-----------------------------------------------------------------------------
\* What a line of a playlist may be.
Lines(urls) == {"#EXTM3U", "#EXTINF", "comment", "blank"} \union urls

\* Only the line after a title can be hidden.
AreUrls(hidden) == hidden \intersect {"#EXTM3U", "comment"} = {}

\* An entry is one line or two, and so is what is left of it, or nothing.
LEMMA EntryTyped ==
  ASSUME NEW urls, NEW e \in Entries(urls), NEW hidden
  PROVE  /\ e \in Seq(Lines(urls)) /\ Len(e) \in 1..2
         /\ Kept(e, hidden) \in Seq(Lines(urls))
<1> DEFINE T == Lines(urls)
<1>1. (\E x \in T : e = <<x>>) \/ (\E x \in T, y \in T : e = <<x, y>>)
  BY DEF Entries, Lines
<1>2. e \in Seq(T)
  <2> HIDE DEF T
  <2>1. ASSUME NEW x \in T, e = <<x>>
        PROVE  e \in Seq(T)
    <3>1. <<x>> \in Seq(T)
      OBVIOUS
    <3> QED
      BY <2>1, <3>1, Zenon
  <2>2. ASSUME NEW x \in T, NEW y \in T, e = <<x, y>>
        PROVE  e \in Seq(T)
    <3>1. <<x, y>> \in Seq(T)
      OBVIOUS
    <3> QED
      BY <2>2, <3>1, Zenon
  <2> QED
    BY <1>1, <2>1, <2>2, Zenon
<1>3. Len(e) \in 1..2
  <2> HIDE DEF T
  <2> QED
    BY <1>1
<1>4. Kept(e, hidden) = e \/ Kept(e, hidden) = <<>>
  BY Zenon DEF Kept
<1>5. <<>> \in Seq(T)
  BY EmptySeq
<1> QED
  BY <1>2, <1>3, <1>4, <1>5

\* The lines of an entry are where it is in the playlist.
LEMMA ConcatAt ==
  ASSUME NEW T, NEW a \in Seq(T), NEW e \in Seq(T), NEW r \in Seq(T),
         NEW lines, lines = a \o (e \o r)
  PROVE  /\ lines \in Seq(T)
         /\ Len(lines) = Len(a) + Len(e) + Len(r)
         /\ \A i \in 1..Len(e) : lines[Len(a) + i] = e[i]
<1>1. e \o r \in Seq(T) /\ Len(e \o r) = Len(e) + Len(r)
  BY ConcatProperties
<1>2. Len(a) \in Nat /\ Len(e) \in Nat /\ Len(r) \in Nat
  BY LenProperties
<1>3. \A i \in 1..Len(e) : (e \o r)[i] = e[i]
  BY <1>2, ConcatProperties
<1>4. lines \in Seq(T) /\ Len(lines) = Len(a) + Len(e \o r)
  BY <1>1, ConcatProperties
<1>5. ASSUME NEW i \in 1..Len(e)
      PROVE  lines[Len(a) + i] = e[i]
  <2>1. Len(a) + i \in 1..Len(a) + Len(e \o r) /\ ~ (Len(a) + i <= Len(a))
    BY <1>1, <1>2
  <2>2. lines[Len(a) + i] = (e \o r)[(Len(a) + i) - Len(a)]
    BY <1>1, <2>1, ConcatProperties
  <2>3. (Len(a) + i) - Len(a) = i
    BY <1>2
  <2> QED
    BY <1>3, <2>2, <2>3
<1> QED
  BY <1>1, <1>2, <1>4, <1>5

\* The pass goes over one entry at a time.
Advances(f, lines, hidden, urls) ==
    \A a \in Seq(Lines(urls)), e \in Entries(urls), r \in Seq(Lines(urls)) :
        lines = a \o (e \o r)
          => f[Len(a) + 1] = Kept(e, hidden) \o f[Len(a) + Len(e) + 1]

LEMMA ScanEntry ==
  ASSUME NEW urls, NEW hidden, AreUrls(hidden),
         NEW lines, NEW f, IsScan(f, lines, hidden, Lines(urls))
  PROVE  Advances(f, lines, hidden, urls)
<1> SUFFICES ASSUME NEW a \in Seq(Lines(urls)), NEW e \in Entries(urls),
                    NEW r \in Seq(Lines(urls)), lines = a \o (e \o r)
             PROVE  f[Len(a) + 1] = Kept(e, hidden) \o f[Len(a) + Len(e) + 1]
  BY DEF Advances
<1> DEFINE n == Len(a) + 1
<1>1. e \in Seq(Lines(urls)) /\ Len(e) \in 1..2
  BY EntryTyped
<1>2. Len(a) \in Nat /\ Len(r) \in Nat
  BY LenProperties
<1>3. /\ Len(lines) = Len(a) + Len(e) + Len(r)
      /\ \A i \in 1..Len(e) : lines[Len(a) + i] = e[i]
  BY <1>1, ConcatAt
<1>4. n \in 1..Len(lines)+2 /\ ~ (n > Len(lines)) /\ lines[n] = e[1]
      /\ n + 1 = Len(a) + 2
  <2>1. 1 \in 1..Len(e)
    <3>1. Len(e) \in 1..2
      BY <1>1
    <3> QED
      BY <3>1
  <2>2. lines[Len(a) + 1] = e[1]
    BY <1>3, <2>1
  <2> QED
    BY <1>1, <1>2, <1>3, <2>2
<1>5. f[n] = ScanFrom(f, lines, hidden, n)
  BY <1>4, Zenon DEF IsScan
<1>6. \A m \in 1..Len(lines)+2 : f[m] \in Seq(Lines(urls))
  BY DEF IsScan
<1>7. CASE e = <<"blank">>
  <2>1. f[n] = f[n + 1]
    BY <1>4, <1>5, <1>7 DEF ScanFrom
  <2>2. Kept(e, hidden) = <<>> /\ Len(e) = 1
    BY <1>7 DEF Kept
  <2>3. n + 1 \in 1..Len(lines)+2 /\ n + 1 = Len(a) + Len(e) + 1
    BY <1>2, <1>3, <2>2
  <2> QED
    BY <1>6, <2>1, <2>2, <2>3, ConcatEmptySeq
<1>8. CASE e \in {<<"#EXTM3U">>, <<"comment">>}
  <2>1. e[1] \notin {"#EXTINF", "blank"} /\ Len(e) = 1 /\ e = <<e[1]>>
    BY <1>8
  <2>2. f[n] = <<lines[n]>> \o f[n + 1]
    BY <1>4, <1>5, <2>1, Zenon DEF ScanFrom
  <2>3. Kept(e, hidden) = e
    BY <1>8 DEF Kept, Last, AreUrls
  <2>4. n + 1 = Len(a) + Len(e) + 1
    BY <1>2, <2>1
  <2> QED
    BY <1>4, <2>1, <2>2, <2>3, <2>4
<1>9. CASE \E url \in urls : e = <<"#EXTINF", url>>
  <2>1. PICK url \in urls : e = <<"#EXTINF", url>>
    BY <1>9
  <2>2. Len(e) = 2 /\ e[1] = "#EXTINF" /\ e[2] = url /\ Last(e) = url /\ e # <<"blank">>
    BY <2>1 DEF Last
  <2>3. LineAt(lines, n + 1) = url
    BY <1>2, <1>3, <1>4, <2>2 DEF LineAt
  <2>4. f[n] = (IF url \in hidden THEN <<>> ELSE <<"#EXTINF", url>>) \o f[n + 2]
    BY <1>4, <1>5, <2>2, <2>3, Zenon DEF ScanFrom
  <2>5. Kept(e, hidden) = (IF url \in hidden THEN <<>> ELSE <<"#EXTINF", url>>)
    BY <2>1, <2>2, Zenon DEF Kept
  <2>6. n + 2 = Len(a) + Len(e) + 1
    BY <1>2, <2>2
  <2> QED
    BY <2>4, <2>5, <2>6
<1> QED
  BY <1>7, <1>8, <1>9 DEF Entries


\* What the pass leaves is what is left of the entries, one after the other.
LEMMA FilterRemains ==
  ASSUME NEW urls, NEW hidden, AreUrls(hidden),
         NEW entries \in Seq(Entries(urls))
  PROVE  FilterM3u(FlattenSeq(entries), hidden) = Remaining(entries, hidden)
<1> DEFINE T == Lines(urls)
           kept == [n \in DOMAIN entries |-> Kept(entries[n], hidden)]
           N == Len(entries)
<1>0. "blank" \in T
  BY DEF Lines
<1>1. N \in Nat /\ DOMAIN entries = 1..N
  BY LenProperties
<1>2. \A n \in 1..N : /\ entries[n] \in Entries(urls) /\ entries[n] \in Seq(T)
                       /\ kept[n] = Kept(entries[n], hidden) /\ kept[n] \in Seq(T)
  BY <1>1, ElementOfSeq, EntryTyped
<1>3. entries \in Seq(Seq(T))
  <2>1. entries \in [1..N -> Seq(T)]
    BY <1>1, <1>2, LenProperties
  <2> HIDE DEF T, N
  <2> QED
    BY <1>1, <2>1
<1>4. kept \in Seq(Seq(T)) /\ Len(kept) = N
  <2>1. kept \in [1..N -> Seq(T)]
    BY <1>1, <1>2
  <2> HIDE DEF T, N, kept
  <2> QED
    BY <1>1, <2>1
<1>5. Remaining(entries, hidden) = FlattenSeq(kept)
  BY DEF Remaining
<1>6. CASE N = 0
  <2>1. FlattenSeq(entries) = entries /\ FlattenSeq(kept) = kept
    BY <1>4, <1>6, Zenon DEF FlattenSeq
  <2>2. entries = <<>> /\ kept = <<>>
    BY <1>3, <1>4, <1>6, EmptySeq
  <2>3. <<>> \in Seq(T) /\ Len(<<>>) = 0
    BY EmptySeq
  <2>4. PICK scan : IsScan(scan, <<>>, hidden, T) /\ FilterM3u(<<>>, hidden) = scan[1]
    <3> HIDE DEF T
    <3> QED
      BY <1>0, <2>3, FilterIs, Zenon
  <2>5. scan[1] = <<>>
    <3>1. 1 \in 1..Len(<<>>)+2 /\ 1 > Len(<<>>)
      BY <2>3
    <3> QED
      BY <2>4, <3>1, Zenon DEF IsScan, ScanFrom
  <2> QED
    BY <1>5, <2>1, <2>2, <2>4, <2>5, Zenon
<1>7. CASE N # 0
  <2> HIDE DEF T, kept, N
  <2>1. entries # <<>> /\ kept # <<>>
    BY <1>4, <1>7, EmptySeq DEF N
  <2>2. PICK f : IsFlatten(f, entries, T) /\ FlattenSeq(entries) = f[N]
    BY <1>3, <2>1, FlattenIs, Zenon DEF N
  <2>3. PICK h : IsFlatten(h, kept, T) /\ FlattenSeq(kept) = h[N]
    BY <1>4, <2>1, FlattenIs, Zenon
  <2> DEFINE whole == f[N]
  <2>4. /\ \A n \in 1..N : f[n] \in Seq(T) /\ f[n] = FlattenTo(f, entries, n)
        /\ \A n \in 1..N : h[n] \in Seq(T) /\ h[n] = FlattenTo(h, kept, n)
    BY <1>4, <2>2, <2>3 DEF IsFlatten, N
  <2>5. N \in 1..N
    BY <1>1, <1>7
  <2>6. whole \in Seq(T)
    BY <2>4, <2>5
  <2> HIDE DEF whole
  <2>7. PICK scan : IsScan(scan, whole, hidden, T) /\ FilterM3u(whole, hidden) = scan[1]
    BY <1>0, <2>6, FilterIs, Zenon
  <2>8. \A s, t, u \in Seq(T) : (s \o t) \o u = s \o (t \o u)
    BY ConcatAssociative
  <2>9. \A a \in Seq(T), e \in Entries(urls), r \in Seq(T) :
           whole = a \o (e \o r)
             => scan[Len(a) + 1] = Kept(e, hidden) \o scan[Len(a) + Len(e) + 1]
    <3>1. IsScan(scan, whole, hidden, Lines(urls))
      BY <2>7, Zenon DEF T
    <3>2. Advances(scan, whole, hidden, urls)
      BY <3>1, ScanEntry, Zenon
    <3> QED
      BY <3>2, Zenon DEF T, Advances
  \* Up to each entry, the playlist begins with what comes before.
  <2>10. \A n \in 1..N : \E r \in Seq(T) : whole = f[n] \o r
    <3> DEFINE Good == {k \in Nat : k < N => \E r \in Seq(T) : whole = f[N - k] \o r}
    <3>1. 0 \in Good
      <4>1. whole = f[N - 0] \o <<>> /\ <<>> \in Seq(T)
        BY <1>1, <2>6, ConcatEmptySeq DEF whole
      <4> QED
        BY <4>1
    <3>2. ASSUME NEW k \in Nat, k \in Good
          PROVE  k + 1 \in Good
      <4> SUFFICES ASSUME k + 1 < N
                   PROVE  \E r \in Seq(T) : whole = f[N - (k + 1)] \o r
        <5>1. k + 1 \in Nat
          OBVIOUS
        <5> QED
          BY <5>1, Zenon
      <4> DEFINE m == N - k
      <4>1. m \in 1..N /\ m # 1 /\ m - 1 \in 1..N /\ N - (k + 1) = m - 1
        BY <1>1
      <4>2. PICK r \in Seq(T) : whole = f[m] \o r
        BY <1>1, <3>2
      <4> HIDE DEF m, Good
      <4>3. f[m] = f[m - 1] \o entries[m] /\ f[m - 1] \in Seq(T)
        BY <2>4, <4>1 DEF FlattenTo
      <4>4. entries[m] \in Seq(T) /\ entries[m] \o r \in Seq(T)
        BY <1>2, <4>1, <4>2, ConcatProperties
      <4>5. whole = f[m - 1] \o (entries[m] \o r)
        <5>1. (f[m - 1] \o entries[m]) \o r = f[m - 1] \o (entries[m] \o r)
          BY <2>8, <4>2, <4>3, <4>4, Zenon
        <5> QED
          BY <4>2, <4>3, <5>1, Zenon
      <4> QED
        BY <4>1, <4>4, <4>5
    <3>3. ASSUME NEW n \in 1..N
          PROVE  \E r \in Seq(T) : whole = f[n] \o r
      <4>1. N - n \in Good
        <5>1. N - n \in Nat
          BY <1>1
        <5> HIDE DEF Good
        <5> QED
          BY <3>1, <3>2, <5>1, Induction
      <4>2. N - n < N /\ N - (N - n) = n
        BY <1>1
      <4> QED
        BY <4>1, <4>2
    <3> QED
      BY <3>3
  \* Up to each entry, the pass has left what is left of the entries.
  <2>11. \A n \in 1..N : h[n] \o scan[Len(f[n]) + 1] = scan[1]
    <3> DEFINE Good == {n \in Nat : n \in 1..N => h[n] \o scan[Len(f[n]) + 1] = scan[1]}
    <3>0. \A n \in 1..N : scan[Len(f[n]) + 1] \in Seq(T)
      <4> SUFFICES ASSUME NEW n \in 1..N
                   PROVE  scan[Len(f[n]) + 1] \in Seq(T)
        OBVIOUS
      <4>1. PICK r \in Seq(T) : whole = f[n] \o r
        BY <2>10
      <4>2. Len(f[n]) \in Nat /\ Len(r) \in Nat /\ Len(whole) = Len(f[n]) + Len(r)
        BY <2>4, <4>1, ConcatProperties, LenProperties
      <4>3. Len(f[n]) + 1 \in 1..Len(whole)+2
        BY <4>2
      <4> QED
        BY <2>7, <4>3 DEF IsScan
    <3>1. 0 \in Good
      BY <1>1
    <3>2. ASSUME NEW n \in Nat, n \in Good
          PROVE  n + 1 \in Good
      <4> SUFFICES ASSUME n + 1 \in 1..N
                   PROVE  h[n + 1] \o scan[Len(f[n + 1]) + 1] = scan[1]
        <5>1. n + 1 \in Nat
          OBVIOUS
        <5> QED
          BY <5>1, Zenon
      <4> HIDE DEF Good
      <4>0. PICK r \in Seq(T) : whole = f[n + 1] \o r
        BY <2>10
      <4>1. /\ entries[n + 1] \in Entries(urls) /\ entries[n + 1] \in Seq(T)
            /\ kept[n + 1] = Kept(entries[n + 1], hidden) /\ kept[n + 1] \in Seq(T)
            /\ scan[Len(f[n + 1]) + 1] \in Seq(T)
        BY <1>2, <3>0
      <4>2. CASE n = 0
        <5>1. f[n + 1] = entries[n + 1] /\ h[n + 1] = kept[n + 1]
          BY <2>4, <4>2 DEF FlattenTo
        <5>2. whole = <<>> \o (entries[n + 1] \o r) /\ <<>> \in Seq(T) /\ Len(<<>>) = 0
          BY <2>6, <4>0, <5>1, ConcatEmptySeq, EmptySeq
        <5>3. scan[Len(<<>>) + 1] = kept[n + 1] \o scan[Len(<<>>) + Len(entries[n + 1]) + 1]
          <6>1. scan[Len(<<>>) + 1]
                  = Kept(entries[n + 1], hidden) \o scan[Len(<<>>) + Len(entries[n + 1]) + 1]
            BY <2>9, <4>0, <4>1, <5>2, Zenon
          <6> QED
            BY <4>1, <6>1, Zenon
        <5>4. /\ Len(<<>>) + 1 = 1
              /\ Len(<<>>) + Len(entries[n + 1]) + 1 = Len(entries[n + 1]) + 1
          BY <4>1, <5>2, LenProperties
        <5> QED
          BY <5>1, <5>3, <5>4, Zenon
      <4>3. CASE n # 0
        <5>1. n \in 1..N /\ (n + 1) - 1 = n /\ n + 1 # 1
          BY <1>1, <4>3
        <5>2. f[n + 1] = f[n] \o entries[n + 1] /\ h[n + 1] = h[n] \o kept[n + 1]
          BY <2>4, <5>1 DEF FlattenTo
        <5>3. f[n] \in Seq(T) /\ h[n] \in Seq(T)
          BY <2>4, <5>1
        <5>4. whole = f[n] \o (entries[n + 1] \o r)
          <6>1. (f[n] \o entries[n + 1]) \o r = f[n] \o (entries[n + 1] \o r)
            <7>1. \A t, u \in Seq(T) : (f[n] \o t) \o u = f[n] \o (t \o u)
              BY <2>8, <5>3, Zenon
            <7>2. \A u \in Seq(T) : (f[n] \o entries[n + 1]) \o u = f[n] \o (entries[n + 1] \o u)
              BY <4>1, <7>1, Zenon
            <7> QED
              BY <4>0, <7>2, Zenon
          <6> QED
            BY <4>0, <5>2, <6>1, Zenon
        <5>5. scan[Len(f[n]) + 1]
                = kept[n + 1] \o scan[Len(f[n]) + Len(entries[n + 1]) + 1]
          <6>1. scan[Len(f[n]) + 1]
                  = Kept(entries[n + 1], hidden) \o scan[Len(f[n]) + Len(entries[n + 1]) + 1]
            BY <2>9, <4>0, <4>1, <5>3, <5>4, Zenon
          <6> QED
            BY <4>1, <6>1, Zenon
        <5>6. Len(f[n + 1]) = Len(f[n]) + Len(entries[n + 1])
          BY <4>1, <5>2, <5>3, ConcatProperties
        <5>7. h[n] \o scan[Len(f[n]) + 1] = scan[1]
          BY <3>2, <5>1 DEF Good
        <5>8. h[n] \o (kept[n + 1] \o scan[Len(f[n + 1]) + 1]) = scan[1]
          BY <5>5, <5>6, <5>7, Zenon
        <5>9. (h[n] \o kept[n + 1]) \o scan[Len(f[n + 1]) + 1]
                = h[n] \o (kept[n + 1] \o scan[Len(f[n + 1]) + 1])
          <6>1. \A t, u \in Seq(T) : (h[n] \o t) \o u = h[n] \o (t \o u)
            BY <2>8, <5>3, Zenon
          <6>2. \A u \in Seq(T) : (h[n] \o kept[n + 1]) \o u = h[n] \o (kept[n + 1] \o u)
            BY <4>1, <6>1, Zenon
          <6> QED
            BY <4>1, <6>2, Zenon
        <5> QED
          BY <5>2, <5>8, <5>9, Zenon
      <4> QED
        BY <4>2, <4>3
    <3>3. Nat \subseteq Good
      <4> HIDE DEF Good
      <4> QED
        BY <3>1, <3>2, Induction
    <3>4. 1..N \subseteq Nat
      BY <1>1
    <3> QED
      BY <3>3, <3>4, Zenon
  \* Nothing comes after the last entry.
  <2>12. scan[Len(whole) + 1] = <<>>
    <3>1. Len(whole) + 1 \in 1..Len(whole)+2 /\ Len(whole) + 1 > Len(whole)
      BY <2>6, LenProperties
    <3> QED
      BY <2>7, <3>1, Zenon DEF IsScan, ScanFrom
  <2>13. h[N] = scan[1]
    <3>1. h[N] \o <<>> = scan[1]
      BY <2>5, <2>11, <2>12, Zenon DEF whole
    <3> QED
      BY <2>4, <2>5, <3>1, ConcatEmptySeq
  <2> QED
    BY <1>5, <2>2, <2>3, <2>7, <2>13, Zenon DEF whole
<1> QED
  BY <1>6, <1>7

-----------------------------------------------------------------------------
\* What the pass drops is what the lists do not have, if it sees the title as they do.
LEMMA HiddenIsLost ==
  ASSUME TypeOK, InPlaylist <=> Visible(title, config)
  PROVE  Hidden(VisibleIds(InPlaylist)) = Lost
<1> DEFINE ids == VisibleIds(InPlaylist)
<1>1. title.kind \in Kind
  BY DEF TypeOK, Title, Kind
<1>2. ids[title.kind] = IF Visible(title, config) THEN Others[title.kind] \union {OwnId}
                        ELSE Others[title.kind] \ {OwnId}
  BY <1>1, PlaylistAssumption DEF VisibleIds
<1>3. \A k \in Kind : k # title.kind => ids[k] = Others[k]
  BY <1>1, PlaylistAssumption DEF VisibleIds
<1> HIDE DEF ids
<1>4. ASSUME NEW url \in Url
      PROVE  (IdIn[url] # NoId /\ IdIn[url] \notin ids[KindIn[url]])
                <=> (IF OwnUrl(url) THEN ~ Visible(title, config)
                     ELSE IdIn[url] # NoId /\ IdIn[url] \notin Others[KindIn[url]])
  <2>1. KindIn[url] \in Kind /\ OwnId # NoId
    BY PlaylistAssumption
  <2>2. CASE KindIn[url] = title.kind
    BY <1>2, <2>1, <2>2 DEF OwnUrl
  <2>3. CASE KindIn[url] # title.kind
    BY <1>3, <2>1, <2>3 DEF OwnUrl
  <2> QED
    BY <2>2, <2>3
<1>5. Hidden(ids) = Lost
  BY <1>4 DEF Hidden, Lost
<1> QED
  BY <1>5 DEF ids

\* A playlist loses a channel or a movie exactly when the player_api lists do, and
\* all entries with numbers they do not know.
THEOREM PlaylistAlwaysFiltered == Spec => []PlaylistFiltered
<1>1. TypeOK => PlaylistFiltered
  <2> SUFFICES ASSUME TypeOK, ~ config.match_category,
                      NEW entries \in Playlists
               PROVE  FilterM3u(FlattenSeq(entries), Hidden(VisibleIds(InPlaylist)))
                        = Remaining(entries, Lost)
    BY DEF PlaylistFiltered
  <2>1. InPlaylist <=> Visible(title, config)
    <3> DEFINE t == [title EXCEPT !.named = FALSE, !.combined = title.name]
    <3>1. /\ t.overridden = title.overridden /\ t.category = title.category
          /\ t.name = title.name /\ t.kind = title.kind
          /\ t.status = title.status /\ t.tracks = title.tracks
      BY DEF TypeOK, Title
    <3> HIDE DEF t
    <3>2. TitlePasses(t, config) <=> TitlePasses(title, config)
      BY <3>1 DEF TitlePasses
    <3>3. HasKnownTracks(t) <=> HasKnownTracks(title)
      BY <3>1 DEF HasKnownTracks
    <3>4. AudioPasses(t, config, HasKnownTracks(t))
            <=> AudioPasses(title, config, HasKnownTracks(title))
      BY <3>1, <3>3 DEF AudioPasses
    <3>5. AudioActive(t, config) <=> AudioActive(title, config)
      BY <3>1 DEF AudioActive
    <3>6. Visible(t, config) <=> Visible(title, config)
      BY <3>1, <3>2, <3>4, <3>5 DEF Visible
    <3> QED
      BY <3>6 DEF InPlaylist, t
  <2>2. Hidden(VisibleIds(InPlaylist)) = Lost
    BY <2>1, HiddenIsLost
  <2>3. AreUrls(Lost)
    BY PlaylistAssumption DEF AreUrls, Lost
  <2>4. entries \in Seq(Entries(Url))
    <3> DEFINE E == Entries(Url)
    <3> HIDE DEF E
    <3>1. PICK m \in 0..MaxEntries : entries \in [1..m -> E]
      BY DEF Playlists, BoundedSeq, SeqOf, E
    <3>2. m \in Nat
      BY PlaylistAssumption
    <3>3. entries \in Seq(E)
      BY <3>1, <3>2
    <3> QED
      BY <3>3 DEF E
  <2> QED
    BY <2>2, <2>3, <2>4, FilterRemains, Zenon
<1> QED
  BY <1>1, TypeCorrect, PTL

=============================================================================
