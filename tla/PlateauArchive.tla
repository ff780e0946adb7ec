--------------------------- MODULE PlateauArchive ---------------------------
(***************************************************************************)
(* The archive of plateau.go: of the layouts that meet the ceiling of      *)
(* every priority, a few with different links between their instances.     *)
(* Later phases start from them.                                           *)
(***************************************************************************)
EXTENDS Neighbourhoods

CONSTANT ArchiveCapacity      \* 32 in the code

ASSUME CapacityAssumption == ArchiveCapacity \in Nat

\* canonicalLayoutHash: cells and star positions, not which copy or rotation.
CanonicalHash(l) == {<<Inventory[i], l[i].cells, Range(l[i].stars)>> : i \in DOMAIN l}

\* physicalInstanceIDs: the copies of an item are numbered by their cells.
FirstCell(p) == Min({c[1] * GridCols + c[2] : c \in p.cells})
PhysicalID(l, i) ==
    Upwards(OfItem(Inventory[i]))
        [1 + Cardinality({j \in DOMAIN l : SameItem(i, j) /\ FirstCell(l[j]) < FirstCell(l[i])})]

\* canonicalLinkSignature: which copy reaches which, and where its star is.
LinkSignature(l) ==
    {<<PhysicalID(l, c[1]), PhysicalID(l, c[3])>> \o l[c[1]].stars[c[2]] : c \in CountedStars(l)}

\* sortPlateauEntries.  Signatures and hashes are compared as strings; any order
\* of them will do, and of canonical layouts no two have one hash.
Negative(s) == [n \in DOMAIN s |-> -s[n]]
Padded(s, n) == [k \in 1..n |-> IF k \in DOMAIN s THEN s[k] ELSE 0]
SignatureRank(links) ==
    Padded(FlattenSeq(InOrder(links, SeqLess)), 4 * Total([i \in Instances |-> StarCount(i)]))
LayoutRank(l) == FlattenSeq([i \in Instances |-> LayoutKey(l, i)])
EntryRank(s) ==
    Negative(s.score.priority \o s.score.rest) \o SignatureRank(LinkSignature(s.layout)) \o LayoutRank(s.layout)
ByEntryRank(solutions) == Arranged(solutions, EntryRank)

\* Plausible slip, used to test the properties.
BestOnly(ordered) == First(ordered, ArchiveCapacity)

\* selectPlateauEntries: the best layout of every signature before a second
\* one of any, as long as there is room.
Chosen(ordered, links) ==
    LET firsts == {n \in DOMAIN ordered : \A m \in 1..n - 1 : links[m] # links[n]}
    IN  Upwards(Range(First(Upwards(firsts) \o Upwards(DOMAIN ordered \ firsts), ArchiveCapacity)))
SelectEntries(ordered) ==
    TakePlaces(ordered, Chosen(ordered, Table([n \in DOMAIN ordered |-> LinkSignature(ordered[n].layout)])))

\* observe
Observe(config, entries, s) ==
    IF \/ ~PriorityCeilingReached(config, s.score)
       \/ \E e \in Range(entries) : CanonicalHash(e.layout) = CanonicalHash(s.layout)
    THEN entries
    ELSE SelectEntries(ByEntryRank(Append(entries, s)))
=============================================================================
