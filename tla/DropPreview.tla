------------------------------ MODULE DropPreview ------------------------------
(***************************************************************************)
(* Dropping on the new tab page: the arrangement gDropPreview shows while  *)
(* a site or a link from elsewhere is over a cell, and what gDrop pins     *)
(* when it is dropped there.  An update at rest is NewTabGrid's concern;   *)
(* here a drop ends with the grid it asks for.                             *)
(*                                                                         *)
(* What is abstracted.  A site is its link.  Links that are not pinned are *)
(* numbered in the order of the providers; some of them may not fit into   *)
(* the grid.  Cells are counted from 1.                                    *)
(***************************************************************************)
EXTENDS Integers, Sequences, FiniteSets, FiniteSetsExt, SequencesExt, Lists

CONSTANTS
  N,          \* cells of the grid
  MaxLink,    \* links are 1..MaxLink, in the order of the providers
  MaxDrops    \* bound

Cells == 1..N
Links == 1..MaxLink
Empty == 0    \* no site
New == MaxLink + 1    \* the first link from elsewhere

ASSUME ConstantsAssumption ==
  N \in Nat \ {0} /\ MaxLink \in Nat /\ MaxDrops \in Nat

VARIABLES
  provided,   \* the links the providers have
  pinned,     \* gPinnedLinks.links
  sites,      \* the sites of the cells
  previewed,  \* the arrangement shown when the drop came
  before,     \* history: the pinned links before the drop, those the grid
              \* showed, where it was, and whether a link came from elsewhere
              \* that the grid had
  drops

vars == <<provided, pinned, sites, previewed, before, drops>>

-----------------------------------------------------------------------------
\* NewTabUtils: pinned links by place, without nulls at the end.

Trimmed(p) == SubSeq(p, 1, Max({i \in DOMAIN p : p[i] # Empty} \cup {0}))
At(p, i) == IF i \in DOMAIN p THEN p[i] ELSE Empty
Unpinned(p, l) == Trimmed([i \in DOMAIN p |-> IF p[i] = l THEN Empty ELSE p[i]])
PinnedAt(p, l, i) ==
  [j \in 1..Max({i, Len(Unpinned(p, l))}) |-> IF j = i THEN l ELSE At(Unpinned(p, l), j)]

\* getLinks, cut to the cells
Grid(prov, p) ==
  LET free == Kept([l \in Links |-> l], prov \ Range(p))
      Rank(i) == Cardinality({j \in 1..i : At(p, j) = Empty})
  IN [i \in Cells |-> IF At(p, i) # Empty THEN p[i]
                      ELSE IF Rank(i) <= Len(free) THEN free[Rank(i)] ELSE Empty]

IsPinned(l) == l # Empty /\ l \in Range(pinned)
Index(s, l) == CHOOSE i \in DOMAIN s : s[i] = l

-----------------------------------------------------------------------------
\* gDropPreview.

\* _insertDraggedSite; dragged is Empty for a link from elsewhere.
Inserted(dragged, drop) ==
  IF dragged = Empty THEN InsertAt(sites, drop, Empty)
  ELSE InsertAt(RemoveAt(sites, Index(sites, dragged)), drop, dragged)

\* _getPinnedRange: the pinned links around the cell, when it has a pinned site
PinnedRange(drop) ==
  IF IsPinned(sites[drop])
  THEN {i \in 1..Len(pinned) : \A j \in (i..drop) \cup (drop..i) : pinned[j] # Empty}
  ELSE {drop}

Swapped(s, i, j) == [s EXCEPT ![i] = s[j], ![j] = s[i]]

\* _repositionPinnedSites, without the overflow: pinned sites go home again.
Repositioned(s, dragged, drop) ==
  LET home(l) == Index(sites, l)
      pins == Kept(s, {i \in DOMAIN s : s[i] # dragged /\ IsPinned(s[i])
                                           /\ home(s[i]) \notin PinnedRange(drop)})
      r[k \in 0..Len(pins)] ==
        IF k = 0 THEN s
        ELSE Swapped(r[k-1], Index(r[k-1], pins[k]), home(pins[k]))
  IN r[Len(pins)]

\* Wrong: nothing gives way.
OverflowedKept(s, drop) == s

\* _hasOverflowedPinnedSite, _repositionOverflowedPinnedSite: what was pushed out
\* comes back in, a cell that is empty or not pinned gives way.
OverflowRepositioned(s, drop) ==
  LET low == {i \in Cells \ {drop} : ~IsPinned(s[i])}
      index == Max(low)
      next(i) == IF i + 1 = drop THEN i + 2 ELSE i + 1
  IN IF IsPinned(sites[drop]) /\ Len(s) > N /\ IsPinned(s[Len(s)]) /\ low # {}
     THEN [i \in Cells |-> IF i < index \/ i = drop THEN s[i] ELSE s[next(i)]]
     ELSE s

\* rearrange
Rearrange(dragged, drop) ==
  OverflowRepositioned(Repositioned(Inserted(dragged, drop), dragged, drop), drop)

-----------------------------------------------------------------------------
\* gDrop.

\* Wrong: the pinned sites the dropped one pushed aside stay pinned where they were.
RepinnedAsBefore(dragged, drop) == pinned

\* _repinSitesAfterDrop
Repinned(dragged, drop) ==
  LET s == Rearrange(dragged, drop)
      pins == Kept(s, {i \in DOMAIN s : IsPinned(s[i])})
      p[k \in 0..Len(pins)] ==
        IF k = 0 THEN pinned ELSE PinnedAt(p[k-1], pins[k], Index(s, pins[k]))
  IN IF IsPinned(sites[drop]) THEN p[Len(pins)] ELSE pinned

Init ==
  /\ provided \in {1..k : k \in 0..MaxLink}
  /\ \E where \in SUBSET (1..(N + 1)) :
       /\ Cardinality(where) <= Cardinality(provided)
       /\ pinned = Trimmed([i \in 1..(N + 1) |->
            IF i \in where THEN Cardinality({j \in where : j <= i}) ELSE Empty])
  /\ sites = Grid(provided, pinned)
  /\ previewed = sites /\ drops = 0
  /\ before = [pinned |-> {}, shown |-> {}, drop |-> 0, again |-> FALSE]

\* drop, on cell c, with _pinDraggedSite
Dropped(dragged, link, c) ==
  /\ drops < MaxDrops /\ drops' = drops + 1
  /\ previewed' = Rearrange(dragged, c)
  /\ pinned' = IF dragged = sites[c] /\ dragged # Empty THEN Repinned(dragged, c)
               ELSE PinnedAt(Repinned(dragged, c), link, c)
  /\ before' = [pinned |-> Range(pinned) \ {Empty},
                 shown |-> {l \in Range(sites) : IsPinned(l)}, drop |-> c,
                 again |-> dragged = Empty /\ link \in Range(sites) \cup Range(pinned)]
  /\ sites' = Grid(provided, pinned')
  /\ UNCHANGED provided

Drop(c) == \E l \in Range(sites) \ {Empty} : Dropped(l, l, c)
DropLink(c) == \E l \in Links \cup {New + drops} : Dropped(Empty, l, c)

Next == \E c \in Cells : Drop(c) \/ DropLink(c)

Spec == Init /\ [][Next]_vars
-----------------------------------------------------------------------------
\* Properties.

\* The grid after the drop is the one that was shown while the site was over the
\* cell, but for the cell itself when it was shown empty, for a link that comes from
\* elsewhere; and unless the grid had that link already (gDropPreview.rearrange against
\* gDrop.drop and the links it pins).
ResultAsPreviewed ==
  drops > 0 /\ ~before.again =>
    \A c \in Cells : sites[c] = previewed[c] \/ (c = before.drop /\ previewed[c] = Empty)

\* A drop unpins no link the grid showed as pinned.  While the grid had a cell
\* without a pinned site, all of those stay in it, and no other pinned link is
\* unpinned either, such as one pinned beyond the grid.  A drop on a grid full of
\* pinned sites may lose that one: it pins the site it pushes out in its place
\* (_repinSitesAfterDrop, _repositionOverflowedPinnedSite).
PinsKept ==
  /\ before.shown \subseteq Range(pinned)
  /\ Cardinality(before.shown) < N =>
       before.shown \subseteq Range(sites) /\ before.pinned \subseteq Range(pinned)
=============================================================================
