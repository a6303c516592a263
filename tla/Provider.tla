------------------------------ MODULE Provider ------------------------------
(***************************************************************************)
(* The IPTV provider behind the proxy, as the code in src/app/crawler uses *)
(* it: a catalogue of titles that changes while nobody is looking.  The    *)
(* provider is external to the repository; the only thing modelled is what *)
(* player_api can answer.                                                  *)
(*                                                                         *)
(* A title is an item id of one kind.  What the provider calls the title   *)
(* is abstracted to a version: two versions differ exactly when the names  *)
(* differ, which is the only content comparison sync_kind makes.           *)
(***************************************************************************)
EXTENDS Naturals

CONSTANTS
    Live, Vod, Series,  \* the item ids of each kind
    Category,           \* the category ids
    NoCategory,         \* an entry whose category_id is null
    MaxVersion,         \* bound: how often a title is renamed
    ProviderChanges     \* which of "list", "rename", "move" may happen

Item == Live \union Vod \union Series
CatValue == Category \union {NoCategory}

ASSUME KindsDisjoint ==
    /\ Live \intersect Vod = {}
    /\ Live \intersect Series = {}
    /\ Vod \intersect Series = {}
ASSUME CategoryAssumption == NoCategory \notin Category
ASSUME MaxVersionAssumption == MaxVersion \in Nat
ASSUME ProviderChangesAssumption ==
    ProviderChanges \subseteq {"list", "rename", "move"}

VARIABLE provider  \* what player_api answers for each title

Entry == [listed : BOOLEAN, version : 0..MaxVersion, cat : CatValue]

ProviderTypeOK == provider \in [Item -> Entry]

ProviderInit ==
    provider \in [Item -> [listed : BOOLEAN, version : {0}, cat : CatValue]]

-----------------------------------------------------------------------------
\* The provider drops a title, or brings one (back).
Relist(i) ==
    /\ "list" \in ProviderChanges
    /\ provider' = [provider EXCEPT ![i].listed = ~@]

\* The id is given to another title: providers recycle ids.
Rename(i) ==
    /\ "rename" \in ProviderChanges
    /\ provider[i].version < MaxVersion
    /\ provider' = [provider EXCEPT ![i].version = @ + 1]

Move(i, c) ==
    /\ "move" \in ProviderChanges
    /\ provider[i].cat # c
    /\ provider' = [provider EXCEPT ![i].cat = c]

ProviderStep ==
    \E i \in Item :
        \/ Relist(i)
        \/ Rename(i)
        \/ \E c \in CatValue : Move(i, c)

=============================================================================
