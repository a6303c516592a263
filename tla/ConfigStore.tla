----------------------------- MODULE ConfigStore -----------------------------
(***************************************************************************)
(* The configuration (src/app/core/config.py), its file, and the dashboard *)
(* pages that edit it (src/app/templates/index.html).                      *)
(*                                                                         *)
(* An update runs under the lock of ConfigManager and in the event-loop    *)
(* thread, which nothing interrupts but the end of the process: it is one  *)
(* step, and one cut short is another.                                     *)
(***************************************************************************)
EXTENDS Integers

CONSTANTS
    Page,        \* browser tabs with the dashboard
    Value,       \* what the sections of the configuration may say
    Says,        \* which of it each section may
    Default,     \* what DEFAULT_CONFIG says
    Invalid,     \* the values validate_config rejects
    Missing,     \* a section that is not in the file, a form not filled yet
    First,       \* what the form makes of a list of windows: the first of them alone,
                 \* or the one it shows if there is none
    MaxVersion,  \* bound on the versions of a process
    MaxLives     \* bound on the starts of the process

\* The settings form writes the windows of the schedule and the other settings, the
\* table of categories the rest.  (The password, which GET /config masks and a
\* save has only if one is typed, is left out.)
Section == {"settings", "windows", "categories"}

ASSUME ValueAssumption ==
    /\ Default \in Value \ Invalid
    /\ Invalid \subseteq Value
    /\ Missing \notin Value
    /\ Says \in [Section -> SUBSET Value]
    /\ First \in [Value -> Value]
ASSUME BoundAssumption == MaxVersion \in Nat \ {0} /\ MaxLives \in Nat \ {0}

VARIABLES
    running,  \* whether the process is
    memory,   \* _config
    version,  \* _version
    file,     \* the YAML file
    page,     \* what each page holds
    life,     \* history: how often the process has been started
    whole     \* history: whether the last write of the file was completed

vars == <<running, memory, version, file, page, life, whole>>

-----------------------------------------------------------------------------
\* What a save says: of all the form has, of the windows alone, of the categories.
Patch ==
    {patch \in UNION {[sections -> Value] :
                 sections \in {{"settings", "windows"}, {"windows"}, {"categories"}}} :
        \A x \in DOMAIN patch : patch[x] \in Says[x]}

NoVersion == 0

TypeOK ==
    /\ running \in BOOLEAN
    /\ memory \in [Section -> Value \ Invalid]
    /\ version \in 1..MaxVersion
    /\ file \in [readable : BOOLEAN, sections : [Section -> Value \union {Missing}]]
    /\ page \in [Page -> [version : 0..MaxVersion, life : 0..MaxLives,
                          form : [Section -> Value \union {Missing}]]]
    /\ life \in 1..MaxLives
    /\ whole \in BOOLEAN

\* _deep_merge(DEFAULT_CONFIG, file)
Loaded(f) ==
    [x \in Section |-> IF f.sections[x] = Missing THEN Default ELSE f.sections[x]]

Init ==
    /\ file \in [readable : {TRUE},
                 sections : [Section -> (Value \ Invalid) \union {Missing}]]
    /\ \A x \in Section : file.sections[x] \in Says[x] \union {Missing}
    /\ running = TRUE
    /\ memory = Loaded(file)
    /\ version = 1
    /\ page = [p \in Page |-> [version |-> NoVersion, life |-> 0,
                               form |-> [x \in Section |-> Missing]]]
    /\ life = 1
    /\ whole = TRUE

-----------------------------------------------------------------------------
(* ConfigManager. *)

\* Fault: an older version will do.
AcceptsOlder(base) == base <= version

\* No version is a save by hand, through the API.
Accepts(base) == base = NoVersion \/ base = version

\* _deep_merge(_config, patch): a list, as of windows, replaces the one before.
Candidate(patch) ==
    [x \in Section |-> IF x \in DOMAIN patch THEN patch[x] ELSE memory[x]]

Valid(config) == \A x \in Section : config[x] \notin Invalid

Dump(config) == file' = [readable |-> TRUE, sections |-> config] /\ whole' = TRUE

\* Fault: nothing is checked.
UpdateUnchecked(base, patch) ==
    /\ running
    /\ Accepts(base)
    /\ version < MaxVersion
    /\ Dump(Candidate(patch))
    /\ memory' = Candidate(patch)
    /\ version' = version + 1

\* Fault: the file is written before the result is checked.
UpdateWritingFirst(base, patch) ==
    /\ running
    /\ Accepts(base)
    /\ version < MaxVersion
    /\ Dump(Candidate(patch))
    /\ \/ Valid(Candidate(patch)) /\ memory' = Candidate(patch) /\ version' = version + 1
       \/ ~ Valid(Candidate(patch)) /\ UNCHANGED <<memory, version>>

\* update, when it returns.  Otherwise it raises and nothing has changed.
Update(base, patch) ==
    /\ running
    /\ Accepts(base)
    /\ Valid(Candidate(patch))
    /\ version < MaxVersion
    /\ Dump(Candidate(patch))
    /\ memory' = Candidate(patch)
    /\ version' = version + 1

\* The file has been truncated and written in part.  What is in one that cannot be
\* read does not matter.
Tear(config) ==
    /\ \E readable \in BOOLEAN, written \in SUBSET Section :
          /\ written # {} => readable
          /\ file' = [readable |-> readable,
                      sections |-> [x \in Section |->
                                       IF x \in written THEN config[x] ELSE Missing]]
    /\ whole' = FALSE

\* update raises while it writes the file (the disk is full), or the process ends.
CutShort(patch) ==
    /\ running
    /\ Valid(Candidate(patch))
    /\ Tear(Candidate(patch))
    /\ running' \in BOOLEAN
    /\ UNCHANGED <<memory, version, page, life>>

Stop ==
    /\ running
    /\ running' = FALSE
    /\ UNCHANGED <<memory, version, file, page, life, whole>>

\* A configuration that cannot be read or is not valid keeps the process from
\* starting.
Start ==
    /\ ~ running
    /\ file.readable
    /\ Valid(Loaded(file))
    /\ life < MaxLives
    /\ running' = TRUE
    /\ memory' = Loaded(file)
    /\ version' = 1
    /\ life' = life + 1
    /\ UNCHANGED <<file, page, whole>>

-----------------------------------------------------------------------------
(* The pages. *)

\* GET /config, when the page is opened and after a save that went through or met
\* a conflict.
LoadSettings(p) ==
    /\ running
    /\ page' = [page EXCEPT ![p] =
                  [version |-> version, life |-> life,
                   form |-> [@.form EXCEPT !["settings"] = memory["settings"],
                                           !["windows"] = First[memory["windows"]]]]]
    /\ UNCHANGED <<running, memory, version, file, life, whole>>

\* GET /categories has the categories and their modes, and no version.
LoadCategories(p) ==
    /\ running
    /\ page[p].form["settings"] # Missing
    /\ page' = [page EXCEPT ![p].form["categories"] = memory["categories"]]
    /\ UNCHANGED <<running, memory, version, file, life, whole>>

\* POST /config.  The form shows what was saved.
Save(p, patch) ==
    /\ \A x \in DOMAIN patch : page[p].form[x] # Missing
    /\ Update(page[p].version, patch)
    /\ page' = [page EXCEPT ![p].form =
                   [x \in Section |-> IF x \in DOMAIN patch THEN patch[x] ELSE @[x]]]
    /\ UNCHANGED <<running, life>>

\* The settings are saved with the one window the form has, ...
SaveSettings(p, settings, windows) ==
    Save(p, [settings |-> settings, windows |-> First[windows]])

\* ... the table of categories alone.
SaveCategories(p, categories) == Save(p, [categories |-> categories])

SaveByHand(patch) ==
    /\ Update(NoVersion, patch)
    /\ UNCHANGED <<running, page, life>>

Next ==
    \/ \E p \in Page : LoadSettings(p) \/ LoadCategories(p)
    \/ \E p \in Page, settings \in Says["settings"], windows \in Says["windows"] :
          SaveSettings(p, settings, windows)
    \/ \E p \in Page, categories \in Says["categories"] : SaveCategories(p, categories)
    \/ \E patch \in Patch : SaveByHand(patch)
    \/ \E patch \in Patch : CutShort(patch)
    \/ Stop
    \/ Start

Spec == Init /\ [][Next]_vars

-----------------------------------------------------------------------------
\* A start finds what the process works with, saves that were rejected,
\* conflicting, or of one section only included, unless a write of the file was
\* cut short since (config.py:206, 210).
RestartKeepsConfig ==
    running /\ whole => file.readable /\ Loaded(file) = memory

\* The save of one page replaces no settings its page has not shown, unless the
\* process was started anew in between and counts its versions from 1 again, and
\* but for the windows after the first: no page shows them (index.html:991), and
\* each save of the settings drops them (index.html:1036, config.py:199).
NoSettingsOverwritten ==
    [][\A p \in Page :
          page[p].life = life /\ (\E settings \in Says["settings"], windows \in Says["windows"] :
                                     SaveSettings(p, settings, windows))
              => /\ page[p].form["settings"] = memory["settings"]
                 /\ page[p].form["windows"] = First[memory["windows"]]]_vars

-----------------------------------------------------------------------------
\* No save of the table of categories silently overwrites what somebody else has
\* saved since it was filled (config.py:202-204).
NoSaveOverwritten ==
    [][\A p \in Page, categories \in Says["categories"] :
          SaveCategories(p, categories)
              => page[p].form["categories"] = memory["categories"]]_vars

=============================================================================
