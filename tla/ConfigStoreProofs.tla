-------------------------- MODULE ConfigStoreProofs -------------------------
(***************************************************************************)
(* What a save of the settings replaces its page has shown, all but the    *)
(* windows after the first, and what the file says the process works with, *)
(* for any number of pages, values and restarts.                           *)
(*                                                                         *)
(* The first needs of the pages that one of this life is never ahead of    *)
(* the configuration, and shows its settings while it is not behind, as    *)
(* far as the form can (PagesKnow): the version it sends then tells        *)
(* whether it has seen them.                                               *)
(***************************************************************************)
EXTENDS ConfigStore, TLAPS

\* The form has the settings in force, and of the windows what it can show of them.
Shows(p) ==
    /\ page[p].form["settings"] = memory["settings"]
    /\ page[p].form["windows"] = First[memory["windows"]]

PageKnows(p) ==
    /\ page[p].life <= life
    /\ page[p].life = life =>
          /\ page[p].version \in 1..version
          /\ page[p].version = version => Shows(p)

PagesKnow == \A p \in Page : PageKnows(p)

-----------------------------------------------------------------------------
(* Type correctness. *)

\* What a patch has for a section is a value.
Change(patch) == \A x \in Section : x \in DOMAIN patch => patch[x] \in Value

\* So it is with what the pages send, and with what is sent by hand.
LEMMA SavesAreChanges ==
  /\ \A settings \in Says["settings"], windows \in Says["windows"] :
        Change([settings |-> settings, windows |-> First[windows]])
  /\ \A categories \in Says["categories"] : Change([categories |-> categories])
  /\ \A patch \in Patch : Change(patch)
<1>0. \A x \in Section : Says[x] \subseteq Value
  BY ValueAssumption
<1>1. ASSUME NEW settings \in Says["settings"], NEW windows \in Says["windows"]
      PROVE  Change([settings |-> settings, windows |-> First[windows]])
  BY <1>0, ValueAssumption DEF Change, Section
<1>2. ASSUME NEW categories \in Says["categories"]
      PROVE  Change([categories |-> categories])
  BY <1>0 DEF Change, Section
<1>3. ASSUME NEW patch \in Patch
      PROVE  Change(patch)
  BY <1>3 DEF Change, Patch
<1> QED
  BY <1>1, <1>2, <1>3

\* Whatever a page saves, it is a patch of this kind.
LEMMA PagesSaveChanges ==
  ASSUME NEW p \in Page,
         \/ \E settings \in Says["settings"], windows \in Says["windows"] :
               SaveSettings(p, settings, windows)
         \/ \E categories \in Says["categories"] : SaveCategories(p, categories)
  PROVE  \E patch : Change(patch) /\ Save(p, patch)
BY SavesAreChanges DEF SaveSettings, SaveCategories

\* A file that is valid once merged with the defaults gives every section a valid
\* value.
LEMMA LoadedTyped ==
  ASSUME NEW f \in [readable : BOOLEAN, sections : [Section -> Value \union {Missing}]],
         Valid(Loaded(f))
  PROVE  Loaded(f) \in [Section -> Value \ Invalid]
BY ValueAssumption DEF Loaded, Valid

\* A patch gives a configuration, and a valid one if it is accepted.
LEMMA CandidateTyped ==
  ASSUME TypeOK, NEW patch, Change(patch)
  PROVE  /\ Candidate(patch) \in [Section -> Value]
         /\ Valid(Candidate(patch)) => Candidate(patch) \in [Section -> Value \ Invalid]
BY DEF TypeOK, Candidate, Valid, Change

\* A save keeps the types of the configuration, its version and the file.
LEMMA UpdateTyped ==
  ASSUME TypeOK, NEW base, NEW patch, Change(patch), Update(base, patch)
  PROVE  /\ memory' \in [Section -> Value \ Invalid]
         /\ version' \in 1..MaxVersion
         /\ version' = version + 1
         /\ file' \in [readable : BOOLEAN, sections : [Section -> Value \union {Missing}]]
         /\ whole' \in BOOLEAN
<1>1. memory' = Candidate(patch) /\ memory' \in [Section -> Value \ Invalid]
  BY CandidateTyped DEF Update
<1>2. version' \in 1..MaxVersion /\ version' = version + 1
  BY BoundAssumption DEF TypeOK, Update
<1>3. file' = [readable |-> TRUE, sections |-> memory'] /\ whole' = TRUE
  BY DEF Update, Dump
<1> QED
  BY <1>1, <1>2, <1>3

\* A file that is torn is still a file, with sections that are missing.
LEMMA TearTyped ==
  ASSUME NEW c \in [Section -> Value], Tear(c)
  PROVE  /\ file' \in [readable : BOOLEAN, sections : [Section -> Value \union {Missing}]]
         /\ whole' \in BOOLEAN
<1>1. PICK readable \in BOOLEAN, written \in SUBSET Section :
        file' = [readable |-> readable,
                 sections |-> [x \in Section |-> IF x \in written THEN c[x] ELSE Missing]]
  BY DEF Tear
<1>2. [x \in Section |-> IF x \in written THEN c[x] ELSE Missing]
        \in [Section -> Value \union {Missing}]
  OBVIOUS
<1> QED
  BY <1>1, <1>2 DEF Tear

\* Configuration, file and pages keep their types through saves, torn writes and
\* restarts; in particular no invalid value is ever in use.
THEOREM TypeCorrect == Spec => []TypeOK
<1> USE ValueAssumption, BoundAssumption
<1>1. Init => TypeOK
  <2> SUFFICES ASSUME Init
               PROVE  TypeOK
    OBVIOUS
  <2>1. file \in [readable : BOOLEAN, sections : [Section -> Value \union {Missing}]]
    BY DEF Init
  <2>2. memory \in [Section -> Value \ Invalid]
    BY DEF Init, Loaded
  <2>3. page \in [Page -> [version : 0..MaxVersion, life : 0..MaxLives,
                           form : [Section -> Value \union {Missing}]]]
    BY DEF Init, NoVersion
  <2> QED
    BY <2>1, <2>2, <2>3 DEF Init, TypeOK
<1>2. TypeOK /\ [Next]_vars => TypeOK'
  <2> SUFFICES ASSUME TypeOK, [Next]_vars
               PROVE  TypeOK'
    OBVIOUS
  <2> DEFINE PageType == [version : 0..MaxVersion, life : 0..MaxLives,
                          form : [Section -> Value \union {Missing}]]
  <2>0. \A p \in Page : page[p] \in PageType
    BY DEF TypeOK
  <2>1. ASSUME NEW p \in Page, LoadSettings(p)
        PROVE  TypeOK'
    <3>1. [version |-> version, life |-> life,
           form |-> [page[p].form EXCEPT !["settings"] = memory["settings"],
                                         !["windows"] = First[memory["windows"]]]]
            \in PageType
      <4>1. [page[p].form EXCEPT !["settings"] = memory["settings"],
                                 !["windows"] = First[memory["windows"]]]
              \in [Section -> Value \union {Missing}]
        <5>1. memory["settings"] \in Value /\ First[memory["windows"]] \in Value
          BY DEF TypeOK, Section
        <5> QED
          BY <2>0, <5>1 DEF TypeOK
      <4> QED
        BY <2>0, <4>1 DEF TypeOK
    <3>2. page' \in [Page -> PageType]
      BY <2>1, <3>1 DEF TypeOK, LoadSettings
    <3> QED
      BY <2>1, <3>2 DEF TypeOK, LoadSettings
  <2>2. ASSUME NEW p \in Page, LoadCategories(p)
        PROVE  TypeOK'
    <3>1. [page[p] EXCEPT !.form["categories"] = memory["categories"]] \in PageType
      BY <2>0 DEF TypeOK, Section
    <3>2. page' \in [Page -> PageType]
      BY <2>2, <3>1 DEF TypeOK, LoadCategories
    <3> QED
      BY <2>2, <3>2 DEF TypeOK, LoadCategories
  <2>3. ASSUME NEW p \in Page, NEW patch, Change(patch), Save(p, patch)
        PROVE  TypeOK'
    <3>1. [page[p] EXCEPT !.form = [x \in Section |-> IF x \in DOMAIN patch
                                                      THEN patch[x] ELSE @[x]]]
            \in PageType
      BY <2>0, <2>3 DEF Change
    <3>2. page' \in [Page -> PageType]
      BY <2>3, <3>1 DEF TypeOK, Save
    <3> QED
      BY <2>3, <3>2, UpdateTyped DEF TypeOK, Save
  <2>4. ASSUME NEW patch, Change(patch), SaveByHand(patch)
        PROVE  TypeOK'
    BY <2>4, UpdateTyped DEF TypeOK, SaveByHand
  <2>5. ASSUME NEW patch, Change(patch), CutShort(patch)
        PROVE  TypeOK'
    BY <2>5, CandidateTyped, TearTyped DEF TypeOK, CutShort
  <2>6. CASE Stop
    BY <2>6 DEF TypeOK, Stop
  <2>7. CASE Start
    <3>1. memory' \in [Section -> Value \ Invalid]
      BY <2>7, LoadedTyped DEF TypeOK, Start
    <3> QED
      BY <2>7, <3>1 DEF TypeOK, Start
  <2>8. CASE UNCHANGED vars
    BY <2>8 DEF TypeOK, vars
  <2> QED
    BY <2>1, <2>2, <2>3, <2>4, <2>5, <2>6, <2>7, <2>8, SavesAreChanges,
       PagesSaveChanges DEF Next
<1> QED
  BY <1>1, <1>2, PTL DEF Spec

-----------------------------------------------------------------------------
(* Restarts. *)

\* What a save writes is what a start would load.
LEMMA UpdateIsKept ==
  ASSUME TypeOK, NEW base, NEW patch, Change(patch), Update(base, patch)
  PROVE  RestartKeepsConfig'
<1>1. memory' \in [Section -> Value \ Invalid]
  BY UpdateTyped
<1>2. file' = [readable |-> TRUE, sections |-> memory']
  BY DEF Update, Dump
<1>3. Loaded(file') = memory'
  BY <1>1, <1>2, ValueAssumption DEF Loaded
<1> QED
  BY <1>2, <1>3 DEF RestartKeepsConfig, Loaded

\* As long as every write of the file is completed, a restart changes nothing.
THEOREM RestartAlwaysKeeps == Spec => []RestartKeepsConfig
<1>1. Init => RestartKeepsConfig
  BY DEF Init, RestartKeepsConfig
<1>2. TypeOK /\ RestartKeepsConfig /\ [Next]_vars => RestartKeepsConfig'
  <2> SUFFICES ASSUME TypeOK, RestartKeepsConfig, [Next]_vars
               PROVE  RestartKeepsConfig'
    OBVIOUS
  <2>1. ASSUME NEW p \in Page, LoadSettings(p) \/ LoadCategories(p)
        PROVE  RestartKeepsConfig'
    BY <2>1 DEF RestartKeepsConfig, Loaded, LoadSettings, LoadCategories
  <2>2. ASSUME NEW p \in Page, NEW patch, Change(patch), Save(p, patch)
        PROVE  RestartKeepsConfig'
    BY <2>2, UpdateIsKept DEF Save
  <2>3. ASSUME NEW patch, Change(patch), SaveByHand(patch)
        PROVE  RestartKeepsConfig'
    BY <2>3, UpdateIsKept DEF SaveByHand
  <2>4. ASSUME NEW patch, Change(patch), CutShort(patch)
        PROVE  RestartKeepsConfig'
    BY <2>4 DEF CutShort, Tear, RestartKeepsConfig
  <2>5. CASE Stop
    BY <2>5 DEF Stop, RestartKeepsConfig
  <2>6. CASE Start
    BY <2>6 DEF Start, RestartKeepsConfig, Loaded
  <2>7. CASE UNCHANGED vars
    BY <2>7 DEF vars, RestartKeepsConfig, Loaded
  <2> QED
    BY <2>1, <2>2, <2>3, <2>4, <2>5, <2>6, <2>7, SavesAreChanges, PagesSaveChanges
       DEF Next
<1> QED
  BY <1>1, <1>2, TypeCorrect, PTL DEF Spec

-----------------------------------------------------------------------------
(* Saves. *)

\* An update leaves every page of this life behind.
LEMMA UpdateOutdates ==
  ASSUME TypeOK, PagesKnow, NEW base, NEW patch, Change(patch),
         Update(base, patch), life' = life, NEW p \in Page,
         page'[p].life = page[p].life, page'[p].version = page[p].version
  PROVE  PageKnows(p)'
<1>1. PageKnows(p)
  BY DEF PagesKnow
<1>2. version' = version + 1 /\ version \in Nat
  BY UpdateTyped DEF TypeOK
<1>3. page[p].version \in Int
  BY DEF TypeOK
<1> QED
  BY <1>1, <1>2, <1>3 DEF PageKnows

\* A page that holds the present version of this life shows the settings in force:
\* the invariant behind the check of base versions in update.
THEOREM PagesAlwaysKnow == Spec => []PagesKnow
<1>1. Init => PagesKnow
  <2> SUFFICES ASSUME Init, NEW p \in Page
               PROVE  PageKnows(p)
    BY DEF PagesKnow
  <2>1. page[p].life = 0 /\ life = 1
    BY DEF Init
  <2> QED
    BY <2>1 DEF PageKnows
<1>2. TypeOK /\ PagesKnow /\ [Next]_vars => PagesKnow'
  <2> SUFFICES ASSUME TypeOK, PagesKnow, [Next]_vars, NEW p \in Page
               PROVE  PageKnows(p)'
    BY DEF PagesKnow
  <2>0. /\ PageKnows(p)
        /\ page \in [Page -> [version : 0..MaxVersion, life : 0..MaxLives,
                              form : [Section -> Value \union {Missing}]]]
        /\ version \in 1..MaxVersion /\ life \in 1..MaxLives
    BY DEF PagesKnow, TypeOK
  <2>1. ASSUME NEW q \in Page, LoadSettings(q)
        PROVE  PageKnows(p)'
    <3>1. CASE p = q
      <4>1. /\ page'[p].version = version
            /\ page'[p].life = life
            /\ page'[p].form["settings"] = memory["settings"]
            /\ page'[p].form["windows"] = First[memory["windows"]]
        BY <2>0, <2>1, <3>1 DEF LoadSettings, Section
      <4> QED
        BY <2>0, <2>1, <4>1 DEF PageKnows, Shows, LoadSettings
    <3>2. CASE p # q
      BY <2>0, <2>1, <3>2 DEF PageKnows, Shows, LoadSettings
    <3> QED
      BY <3>1, <3>2
  <2>2. ASSUME NEW q \in Page, LoadCategories(q)
        PROVE  PageKnows(p)'
    <3>1. /\ page'[p].version = page[p].version
          /\ page'[p].life = page[p].life
          /\ page'[p].form["settings"] = page[p].form["settings"]
          /\ page'[p].form["windows"] = page[p].form["windows"]
      BY <2>0, <2>2 DEF LoadCategories, Section
    <3> QED
      BY <2>0, <2>2, <3>1 DEF PageKnows, Shows, LoadCategories
  <2>3. ASSUME NEW q \in Page, NEW patch, Change(patch), Save(q, patch)
        PROVE  PageKnows(p)'
    <3>1. page'[p].version = page[p].version /\ page'[p].life = page[p].life
      BY <2>0, <2>3 DEF Save
    <3> QED
      BY <2>3, <3>1, UpdateOutdates DEF Save
  <2>4. ASSUME NEW patch, Change(patch), SaveByHand(patch)
        PROVE  PageKnows(p)'
    BY <2>4, UpdateOutdates DEF SaveByHand
  <2>5. ASSUME NEW patch, Change(patch), CutShort(patch)
        PROVE  PageKnows(p)'
    BY <2>0, <2>5 DEF CutShort, PageKnows, Shows
  <2>6. CASE Stop
    BY <2>0, <2>6 DEF Stop, PageKnows, Shows
  <2>7. CASE Start
    BY <2>0, <2>7 DEF Start, PageKnows, Shows
  <2>8. CASE UNCHANGED vars
    BY <2>0, <2>8 DEF vars, PageKnows, Shows
  <2> QED
    BY <2>1, <2>2, <2>3, <2>4, <2>5, <2>6, <2>7, <2>8, SavesAreChanges,
       PagesSaveChanges DEF Next
<1> QED
  BY <1>1, <1>2, TypeCorrect, PTL DEF Spec

\* A save of the settings replaces what its page has shown, but for the windows
\* after the first, also when pages, saves by hand and failed writes come in any
\* order.
THEOREM SettingsNeverOverwritten == Spec => NoSettingsOverwritten
<1>1. TypeOK /\ PagesKnow =>
        [\A p \in Page :
            page[p].life = life
              /\ (\E settings \in Says["settings"], windows \in Says["windows"] :
                     SaveSettings(p, settings, windows))
              => Shows(p)]_vars
  <2> SUFFICES ASSUME PagesKnow, TypeOK, NEW p \in Page, page[p].life = life,
                      NEW settings \in Says["settings"], NEW windows \in Says["windows"],
                      SaveSettings(p, settings, windows)
               PROVE  Shows(p)
    OBVIOUS
  <2>1. PageKnows(p) /\ page[p].version # NoVersion
    BY DEF PagesKnow, PageKnows, NoVersion, TypeOK
  <2>2. page[p].version = version
    BY <2>1 DEF SaveSettings, Save, Update, Accepts
  <2> QED
    BY <2>1, <2>2 DEF PageKnows
<1> QED
  BY <1>1, TypeCorrect, PagesAlwaysKnow, PTL DEF NoSettingsOverwritten, Shows

=============================================================================
