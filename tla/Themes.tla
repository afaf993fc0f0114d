------------------------------- MODULE Themes -------------------------------
(***************************************************************************)
(* The themes of the archive and the drafts made from them: a pass groups  *)
(* chunks by mutual neighbours and replaces every theme, while a request   *)
(* drafts an idea out of one and others save or discard drafts.            *)
(* src/python/jester/clustering.py, src/python/jester/store.py             *)
(***************************************************************************)
EXTENDS Naturals, FiniteSets, FiniteSetsExt, Functions

CONSTANTS Chunks,      \* chunks of text, by position
          NuggetOf,    \* the nugget a chunk is of
          Readings,    \* answers of a neighbour search: chunk -> set of chunks
          Misreadings, \* answers out of another pass's collection
          Tighter,     \* what each of them would be at a tighter threshold
          MinSize,     \* chunks a group has at least
          MinNuggets,  \* nuggets a theme has at least
          Largest,     \* chunks above which a loose group is split
          Groupers,    \* processes that run a pass: the console's job, the command line
          Drafters, Savers,
          ThemePasses, DraftBound

ASSUME ThemesAssumption ==
    /\ Chunks \subseteq Nat /\ IsFiniteSet(Chunks) /\ MinSize \in Nat \ {0} /\ MinNuggets \in Nat \ {0}
    /\ \A tops \in Readings \cup Misreadings : \A c \in Chunks : 
          /\ tops[c] \subseteq Chunks \ {c}
          /\ Tighter[tops][c] \subseteq tops[c]

VARIABLES themes,     \* clusters: id -> nugget_keys
          nextTheme,  \* the next id, which is never one that was used
          cards,      \* cluster_ideas: id -> its nuggets, its theme, whether it was promoted
          nextCard,
          chunkIndex, \* whose vectors the one collection of chunks holds
          grouping,   \* per grouper: its step, the groups it found, the drafts it read
          drafting,   \* per drafter: its step, the theme it drafts from, that theme's nuggets
          saving,     \* per saver: the draft it has read and not yet written, 0 for none
          promoted    \* how many ideas were made out of a draft

themeVars == <<themes, nextTheme, cards, nextCard, chunkIndex, grouping, drafting, saving, promoted>>

NoGrouping == [step |-> "idle", groups |-> {}, read |-> {}]
NoDrafting == [step |-> "idle", theme |-> 0, keys |-> {}]
Detached == 0
NobodysIndex == "nobody"
NoCards == [i \in {} |-> 0]

ThemesInit ==
    /\ themes = NoCards /\ nextTheme = 1 /\ cards = NoCards /\ nextCard = 1
    /\ chunkIndex = NobodysIndex /\ grouping = [p \in Groupers |-> NoGrouping]
    /\ drafting = [t \in Drafters |-> NoDrafting] /\ saving = [s \in Savers |-> 0]
    /\ promoted = [i \in 1..DraftBound |-> 0]

(* cluster_vectors: only mutual neighbours are linked.  A group is what can be
   reached from a chunk over links, when that is large enough.              *)
Apart(tops, S) == \A i \in S, j \in Chunks \ S : ~(j \in tops[i] /\ i \in tops[j])
Reached(tops, i) ==
    CHOOSE S \in SUBSET Chunks :
        /\ i \in S /\ Apart(tops, S)
        /\ \A R \in SUBSET S : i \in R /\ Apart(tops, R) => R = S
Linked(tops) == {C \in {Reached(tops, i) : i \in Chunks} : Cardinality(C) >= MinSize}

(* split_incoherent: a large group may be loose; then it gives way to the
   groups found in it at a tighter threshold, if there are any.             *)
Pieces(tops, g) ==
    LET parts == {h \in Linked(Tighter[tops]) : h \subseteq g}
        large == Cardinality(g) > Largest /\ Cardinality(g) >= 2 * MinSize
    IN {{g}} \cup (IF large /\ parts # {} THEN {parts} ELSE {})

(* build_clusters: of the groups, those with enough nuggets; chunks of one
   nugget are one nugget.                                                    *)
NuggetsOf(g) == {NuggetOf[c] : c \in g}
Clusters(tops) ==
    LET L == Linked(tops)
        Picks == {pick \in [L -> UNION {Pieces(tops, g) : g \in L}] :
                     \A g \in L : pick[g] \in Pieces(tops, g)}
    IN {{g \in UNION Range(pick) : Cardinality(NuggetsOf(g)) >= MinNuggets} : pick \in Picks}

Grouping(p, step) == grouping' = [grouping EXCEPT ![p].step = step]

StartGrouping(p) ==
    /\ grouping[p].step = "idle" /\ nextTheme <= ThemePasses
    /\ Grouping(p, "embedded")
    /\ UNCHANGED <<themes, nextTheme, cards, nextCard, chunkIndex, drafting, saving, promoted>>

(* qdrant_neighbours empties the one collection and writes this pass's chunks
   there; without a server every pair is compared instead.                   *)
IndexChunks(p) ==
    /\ grouping[p].step = "embedded" /\ Grouping(p, "indexed") /\ chunkIndex' = p
    /\ UNCHANGED <<themes, nextTheme, cards, nextCard, drafting, saving, promoted>>

(* Out of a collection that another pass has emptied meanwhile come answers
   about other chunks.                                                       *)
Answers(p) ==
    IF grouping[p].step = "indexed" /\ chunkIndex # p THEN Misreadings ELSE Readings

FindGroups(p) ==
    /\ grouping[p].step \in {"embedded", "indexed"}
    /\ \E tops \in Answers(p) : \E groups \in Clusters(tops) :
          grouping' = [grouping EXCEPT ![p].step = "grouped", ![p].groups = groups]
    /\ UNCHANGED <<themes, nextTheme, cards, nextCard, chunkIndex, drafting, saving, promoted>>

(* Hash vectors are refused, a server goes away, an answer names no chunk. *)
GroupingFails(p) ==
    /\ grouping[p].step \in {"embedded", "indexed"}
    /\ grouping' = [grouping EXCEPT ![p] = NoGrouping]
    /\ UNCHANGED <<themes, nextTheme, cards, nextCard, chunkIndex, drafting, saving, promoted>>

(* The live theme that shares most with the keys, the oldest of several. *)
BestOverlapHome(live, keys) ==
    LET Shared(i) == Cardinality(live[i] \cap keys)
        Sharing == {i \in DOMAIN live : Shared(i) > 0 /\ \A j \in DOMAIN live : Shared(j) <= Shared(i)}
    IN IF Sharing = {} THEN Detached ELSE Min(Sharing)

(* replace_clusters reads the drafts before its first write takes the lock. *)
ReadCards(p) ==
    /\ grouping[p].step = "grouped"
    /\ grouping' = [grouping EXCEPT ![p].step = "replacing", ![p].read = DOMAIN cards]
    /\ UNCHANGED <<themes, nextTheme, cards, nextCard, chunkIndex, drafting, saving, promoted>>

(* Biggest group first: which one gets which id is open among equals. *)
InIdOrder(f) ==
    \A i, j \in DOMAIN f : i < j => Cardinality(f[i]) >= Cardinality(f[j])
ReplaceClusters(p) ==
    /\ grouping[p].step = "replacing"
    /\ LET G == grouping[p].groups
           ids == nextTheme..(nextTheme + Cardinality(G) - 1)
       IN \E f \in Bijection(ids, G) :
             /\ InIdOrder(f)
             /\ themes' = [i \in ids |-> NuggetsOf(f[i])]
             /\ nextTheme' = nextTheme + Cardinality(G)
             /\ cards' = [d \in DOMAIN cards |->
                    IF d \in grouping[p].read
                    THEN [cards[d] EXCEPT !.home = BestOverlapHome(themes', cards[d].keys)]
                    ELSE cards[d]]
    /\ grouping' = [grouping EXCEPT ![p] = NoGrouping]
    /\ UNCHANGED <<nextCard, chunkIndex, drafting, saving, promoted>>

(* cluster_generate_idea: the theme and its nuggets are read, two model calls
   follow, and the draft is placed when it is written.                       *)
StartDraft(t, i) ==
    /\ drafting[t].step = "idle" /\ i \in DOMAIN themes
    /\ drafting' = [drafting EXCEPT ![t] = [step |-> "model", theme |-> i, keys |-> themes[i]]]
    /\ UNCHANGED <<themes, nextTheme, cards, nextCard, chunkIndex, grouping, saving, promoted>>

(* Neither the stand-in's draft nor an unscored one is saved. *)
NotDrafted(t) ==
    /\ drafting[t].step = "model" /\ drafting' = [drafting EXCEPT ![t] = NoDrafting]
    /\ UNCHANGED <<themes, nextTheme, cards, nextCard, chunkIndex, grouping, saving, promoted>>

HomeOfMutant(i, keys) == i
HomeOf(i, keys) == IF i \in DOMAIN themes THEN i ELSE BestOverlapHome(themes, keys)
InsertForTheme(t) ==
    /\ drafting[t].step = "model" /\ nextCard <= DraftBound
    /\ LET d == drafting[t]
       IN cards' = [c \in DOMAIN cards \cup {nextCard} |->
             IF c = nextCard THEN [home |-> HomeOf(d.theme, d.keys), keys |-> d.keys, saved |-> FALSE]
             ELSE cards[c]]
    /\ nextCard' = nextCard + 1 /\ drafting' = [drafting EXCEPT ![t] = NoDrafting]
    /\ UNCHANGED <<themes, nextTheme, chunkIndex, grouping, saving, promoted>>

(* promote_cluster_idea: the draft is read, then the idea and the mark on the
   draft are written in one transaction.                                     *)
ReadCard(s, d) ==
    /\ saving[s] = 0 /\ d \in DOMAIN cards /\ ~cards[d].saved
    /\ saving' = [saving EXCEPT ![s] = d]
    /\ UNCHANGED <<themes, nextTheme, cards, nextCard, chunkIndex, grouping, drafting, promoted>>

PromoteClusterIdea(s) ==
    LET d == saving[s] IN
    /\ d # 0 /\ saving' = [saving EXCEPT ![s] = 0]
    /\ promoted' = [promoted EXCEPT ![d] = @ + 1]
    /\ cards' = IF d \in DOMAIN cards THEN [cards EXCEPT ![d].saved = TRUE] ELSE cards
    /\ UNCHANGED <<themes, nextTheme, nextCard, chunkIndex, grouping, drafting>>

DiscardCard(d) ==
    /\ d \in DOMAIN cards /\ cards' = Restrict(cards, DOMAIN cards \ {d})
    /\ UNCHANGED <<themes, nextTheme, nextCard, chunkIndex, grouping, drafting, saving, promoted>>

ThemesNext ==
    \/ \E p \in Groupers :
          \/ StartGrouping(p) \/ IndexChunks(p) \/ FindGroups(p) \/ GroupingFails(p)
          \/ ReadCards(p) \/ ReplaceClusters(p)
    \/ \E t \in Drafters : (\E i \in DOMAIN themes : StartDraft(t, i)) \/ NotDrafted(t) \/ InsertForTheme(t)
    \/ \E s \in Savers : (\E d \in DOMAIN cards : ReadCard(s, d)) \/ PromoteClusterIdea(s)
    \/ \E d \in DOMAIN cards : DiscardCard(d)

ThemesSpec == ThemesInit /\ [][ThemesNext]_themeVars

(* A step that places a draft places it in a theme that lives after the step,
   and detaches it only when no such theme shares a nugget with it.          *)
PlacedAlive ==
    [][\A d \in DOMAIN cards' :
          d \notin DOMAIN cards \/ cards'[d].home # cards[d].home =>
             IF cards'[d].home = Detached THEN \A i \in DOMAIN themes' : themes'[i] \cap cards'[d].keys = {}
             ELSE /\ cards'[d].home \in DOMAIN themes'
                  /\ themes'[cards'[d].home] \cap cards'[d].keys # {}]_themeVars
=============================================================================
