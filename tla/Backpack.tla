------------------------------- MODULE Backpack ------------------------------
(***************************************************************************)
(* The board, the catalog and the placements of internal/geometry,         *)
(* internal/catalog and solver.go.  A coordinate is <<row, column>>, a     *)
(* shape a set of coordinates.  An item has                                *)
(*   shape, rotations (a sequence, empty for all four), types, stats,      *)
(*   aliases (the identifiers it counts as), condition (a table of nodes   *)
(*   or NoCondition) and stars, a sequence of                              *)
(*   [offset, types, items, exclude, unknown].                             *)
(* Strings are compared in their canonical form and never spelt out.       *)
(*                                                                         *)
(* An instance is its OriginalIndex in the inventory.  A layout is a       *)
(* function from the instances placed to their placements.                 *)
(***************************************************************************)
EXTENDS Integers, Sequences, FiniteSets, SequencesExt, FiniteSetsExt

CONSTANTS
    GridRows, GridCols,   \* the board
    GridMask,             \* the cells of it the player owns
    Items,                \* [item identifier -> item]
    Recipes,              \* sequence of [result, anchor, ingredients]
    Inventory             \* sequence of item identifiers

NoCondition == <<>>
ItemIDs == DOMAIN Items
Instances == DOMAIN Inventory

InBounds(c) == c[1] \in 0..GridRows - 1 /\ c[2] \in 0..GridCols - 1
Board == (0..GridRows - 1) \X (0..GridCols - 1)

\* What catalog.Validate rejects, and what the command line checks itself.
ASSUME CatalogAssumption ==
    /\ GridRows \in Nat /\ GridCols \in Nat
    /\ GridMask \subseteq Board
    /\ \A id \in ItemIDs : Items[id].shape # {} /\ IsFiniteSet(Items[id].shape)
    /\ \A id \in ItemIDs : Items[id].rotations \in Seq({0, 90, 180, 270})
    /\ \A id \in ItemIDs : Items[id].stars \in Seq(Range(Items[id].stars))
    /\ Recipes \in Seq(Range(Recipes))
    /\ \A r \in Range(Recipes) : r.anchor \in Range(r.ingredients)
    /\ Inventory \in Seq(ItemIDs)
-----------------------------------------------------------------------------
EmptyLayout == [i \in {} |-> 0]

\* The same function: TLC computes a table once and looks its values up.
Table(f) == CHOOSE g \in {f} : g = f

Neighbours(c) == {<<c[1] - 1, c[2]>>, <<c[1] + 1, c[2]>>,
                  <<c[1], c[2] - 1>>, <<c[1], c[2] + 1>>}
AdjacentMask(cells) == (UNION {Neighbours(c) : c \in cells} \cap Board) \ cells

RotateCoord(c, rotation) ==
    CASE rotation = 90  -> <<c[2], -c[1]>>
      [] rotation = 180 -> <<-c[1], -c[2]>>
      [] rotation = 270 -> <<-c[2], c[1]>>
      [] OTHER          -> c

\* The shape is shifted to the origin and its stars with it.
Corner(cells) == <<Min({c[1] : c \in cells}), Min({c[2] : c \in cells})>>
Shifted(c, corner) == <<c[1] - corner[1], c[2] - corner[2]>>
VariantAt(rotation, turned, offsets, corner) ==
    [rotation |-> rotation,
     cells |-> {Shifted(c, corner) : c \in turned},
     stars |-> Table([k \in DOMAIN offsets |-> Shifted(offsets[k], corner)])]
TurnedShape(item, rotation) == {RotateCoord(c, rotation) : c \in item.shape}
NormalizeVariant(item, rotation) ==
    VariantAt(rotation, TurnedShape(item, rotation),
              [k \in DOMAIN item.stars |-> RotateCoord(item.stars[k].offset, rotation)],
              Corner(TurnedShape(item, rotation)))

SameVariant(v, w) == v.cells = w.cells /\ v.stars = w.stars

\* Of rotations that look alike only the first is kept.
VariantsForItem(item) ==
    LET rotations == IF item.rotations = <<>> THEN <<0, 90, 180, 270>>
                                              ELSE item.rotations
        add(kept, v) == IF \E w \in Range(kept) : SameVariant(v, w)
                        THEN kept ELSE Append(kept, v)
    IN  FoldLeft(add, <<>>, [n \in DOMAIN rotations |-> NormalizeVariant(item, rotations[n])])

Translate(c, origin) == <<c[1] + origin[1], c[2] + origin[2]>>
PlaceVariant(v, origin) ==
    [rotation |-> v.rotation, origin |-> origin,
     cells |-> {Translate(c, origin) : c \in v.cells},
     stars |-> Table([k \in DOMAIN v.stars |-> Translate(v.stars[k], origin)])]

\* placementKey, as the order it sorts by.
PlacementKey(p) == <<p.rotation, p.origin[1], p.origin[2]>>
SeqLess(s, t) ==       \* tuples of one length
    \E i \in DOMAIN t : s[i] < t[i] /\ \A j \in 1..i - 1 : s[j] = t[j]
KeyLess(p, q) == SeqLess(PlacementKey(p), PlacementKey(q))

\* A set in an order, and in that of a rank, a tuple different for each element.
InOrder(S, Less(_, _)) ==
    LET place == Table([x \in S |-> 1 + Cardinality({y \in S : Less(y, x)})])
    IN  Table([n \in 1..Cardinality(S) |-> CHOOSE x \in S : place[x] = n])
ByRank(pairs) ==
    LET ranked == InOrder(pairs, LAMBDA a, b : SeqLess(a[1], b[1]))
    IN  [n \in DOMAIN ranked |-> ranked[n][2]]
SortedBy(S, Rank(_)) == ByRank({<<Rank(x), x>> : x \in S})

\* A sequence by a rank, elements of one rank as they were: each in turn
\* passes, from the back, those it comes before.
PutInPlace(ranked, a) ==
    LET place[n \in 0..Len(ranked)] ==
            IF n > 0 /\ SeqLess(a[1], ranked[n][1]) THEN place[n - 1] ELSE n
    IN  InsertAt(ranked, 1 + place[Len(ranked)], a)
Ranks(pairs) ==
    LET upTo[n \in 0..Len(pairs)] == IF n = 0 THEN <<>> ELSE PutInPlace(upTo[n - 1], pairs[n])
    IN  upTo[Len(pairs)]
Arranged(s, Rank(_)) ==
    LET ranked == Ranks([n \in DOMAIN s |-> <<Rank(s[n]), s[n]>>])
    IN  [n \in DOMAIN ranked |-> ranked[n][2]]

\* The numbers of a set in order, and what a sequence has at some places, at those
\* where it passes a test.
Upwards(S) == InOrder(S, <)
TakePlaces(s, places) == [n \in DOMAIN places |-> s[places[n]]]
Where(s, Test(_)) == TakePlaces(s, Upwards({n \in DOMAIN s : Test(s[n])}))

\* Every place inside the owned cells, in the order of their keys.
PlacementOptions(id) ==
    InOrder({p \in {PlaceVariant(v, origin) :
                        v \in Range(VariantsForItem(Items[id])), origin \in Board} :
                 p.cells \subseteq GridMask}, KeyLess)

\* Copies of an item share the options of the first.
OptionsOf == Table([id \in ItemIDs |-> PlacementOptions(id)])
OptionsForInstance(i) == OptionsOf[Inventory[i]]
-----------------------------------------------------------------------------
Occupied(layout) == UNION {layout[i].cells : i \in DOMAIN layout}
With(layout, i, p) == [j \in DOMAIN layout \cup {i} |-> IF j = i THEN p ELSE layout[j]]
Without(layout, i) == [j \in DOMAIN layout \ {i} |-> layout[j]]
Fits(layout, p) == p.cells \cap Occupied(layout) = {}
SameItem(i, j) == Inventory[i] = Inventory[j]

\* Plausible slip, used to test the properties.
OrdersEveryItem(layout, i, p) ==
    \A j \in DOMAIN layout \ {i} :
        /\ ~(j < i /\ KeyLess(p, layout[j]))
        /\ ~(j > i /\ KeyLess(layout[j], p))

\* Plausible slip, used to test the properties.
OrdersEarlierCopies(layout, i, p) ==
    \A j \in DOMAIN layout \ {i} : SameItem(i, j) => ~(j < i /\ KeyLess(p, layout[j]))

\* placementRespectsCanonicalCopyOrder
RespectsCopyOrder(layout, i, p) ==
    \A j \in DOMAIN layout \ {i} :
        SameItem(i, j) => /\ ~(j < i /\ KeyLess(p, layout[j]))
                          /\ ~(j > i /\ KeyLess(layout[j], p))

\* layoutKey and the order of its strings: the first instance that is somewhere
\* else, or is skipped in one of the two, decides.
LayoutKey(layout, i) == IF i \in DOMAIN layout THEN PlacementKey(layout[i]) ELSE <<999, 999, 999>>
LessAtFirst(l, m, apart) ==
    apart # {} /\ SeqLess(LayoutKey(l, Min(apart)), LayoutKey(m, Min(apart)))
LayoutLess(l, m) == LessAtFirst(l, m, {i \in Instances : LayoutKey(l, i) # LayoutKey(m, i)})
-----------------------------------------------------------------------------
(* compileStarMetadata: rules reduced to one item number and a type mask.   *)
MaxTypes == 32
CatalogTypes ==
    UNION {Items[id].types \cup UNION {s.types : s \in Range(Items[id].stars)} :
           id \in ItemIDs}
MasksReady == Cardinality(CatalogTypes) <= MaxTypes

\* Plausible slip, used to test the properties.
SecondAliasIgnored(item) == item.aliases \subseteq ItemIDs

ItemRefsComplete(item) ==
    item.aliases \subseteq ItemIDs /\ Cardinality(item.aliases) <= 1
TargetRefComplete(star) ==
    star.items \subseteq ItemIDs /\ Cardinality(star.items) <= 1

\* The one alias or target a compiled reference has room for.
Compiled(ids) == IF ids \cap ItemIDs = {} THEN {} ELSE {CHOOSE x \in ids \cap ItemIDs : TRUE}
CompiledItemRefsOverlap(star, id) ==
    Compiled(star.items) \cap ({id} \cup Compiled(Items[id].aliases)) # {}

\* StarMatchesItem through the compiled fields, when they can be used.
CompiledUsable(star, id) ==
    /\ MasksReady
    /\ star.items # {} => TargetRefComplete(star) /\ ItemRefsComplete(Items[id])
CompiledMatches(star, id) ==
    \/ star.items # {} /\ CompiledItemRefsOverlap(star, id)
    \/ star.types \cap Items[id].types # {}

MatchesByStrings(star, id) ==
    \/ star.items \cap ({id} \cup Items[id].aliases) # {}
    \/ star.types \cap Items[id].types # {}

StarMatchesItem(source, target, star) ==
    /\ ~star.unknown
    /\ ~(star.exclude /\ source = target)
    /\ \/ star.items = {} /\ star.types = {}
       \/ IF CompiledUsable(star, target) THEN CompiledMatches(star, target)
                                          ELSE MatchesByStrings(star, target)
-----------------------------------------------------------------------------
(* The condition tree of an item, three-valued.                             *)
Truth(b) == IF b THEN "true" ELSE "false"

Compound(any, states) ==
    CASE states = {}                -> "unknown"
      [] any /\ "true" \in states   -> "true"
      [] ~any /\ "false" \in states -> "false"
      [] "unknown" \in states       -> "unknown"
      [] OTHER                      -> Truth(~any)

\* The tree is a table of nodes, the root first and the parts of a node after it.
EvaluateStarCondition(tree, source, target) ==
    LET state[n \in DOMAIN tree] ==
            LET c == tree[n] IN
            CASE c.class = "CompoundStarCondition" ->
                     Compound(c.any, {state[part] : part \in c.conditions})
              [] c.class = "OtherItemIsOfType" /\ c.value # "" ->
                     Truth(c.value \in Items[target].types)
              [] c.class = "OtherItemHasStatOfType" /\ c.value # "" ->
                     Truth(c.value \in Items[target].stats)
              [] c.class = "OtherItemIsExactly" /\ c.value # "" -> Truth(c.value = target)
              [] c.class = "DefinitionIsDifferent" -> Truth(source # target)
              [] c.class = "DefinitionIsSame" -> Truth(source = target)
              [] c.class = "OtherItemHasItemActivatedSignal" -> "true"
              [] OTHER -> "unknown"       \* bag contents are never known here
    IN  state[1]

EvaluateCatalogStarCondition(source, target, star) ==
    CASE source \notin ItemIDs \/ target \notin ItemIDs -> "unknown"
      [] Items[source].condition # NoCondition ->
             EvaluateStarCondition(Items[source].condition, source, target)
      [] star.unknown -> "unknown"
      [] OTHER -> Truth(StarMatchesItem(source, target, star))

\* The stars of a source item that accept a target item.
MatchingStars ==
    Table([s \in ItemIDs |-> Table([t \in ItemIDs |->
        {k \in DOMAIN Items[s].stars :
            EvaluateCatalogStarCondition(s, t, Items[s].stars[k]) = "true"}])])
=============================================================================
