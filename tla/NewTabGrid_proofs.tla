--------------------------- MODULE NewTabGrid_proofs ---------------------------
(***************************************************************************)
(* Open pages show the same links when everything has come to rest, for    *)
(* any number of pages, cells, links and changes, as long as no page is    *)
(* used while its sites move (Hasty).  Two arguments meet.  One is about a *)
(* single page: its updates end, each in a grid that shows the links the   *)
(* update began with, because it waits for exactly the sites that still    *)
(* have a listener.  The other is about the pages together: a page whose   *)
(* grid is not the current one has a timer set, or waits for an update of  *)
(* some page, which tells all the others when it is done.                  *)
(***************************************************************************)
EXTENDS NewTabGrid, Lists_proofs

-----------------------------------------------------------------------------
\* The invariant.

Show == [kind |-> "show", update |-> 0]
RemoveOf(u) == [kind |-> "remove", update |-> u]
SlideOf(u) == [kind |-> "slide", update |-> u]

\* What links are for the grid: every link has one place.
LinkList ==
  {ls \in Seq(Urls \cup {None}) :
     Len(ls) <= N /\ \A i, j \in DOMAIN ls : ls[i] = ls[j] /\ ls[i] # None => i = j}

Listener == [kind : {"remove", "show", "slide"}, update : Nat]
Node ==
  [url : Urls, opacity : {0, 1}, fading : BOOLEAN, frozen : BOOLEAN, spot : 0..N,
   sliding : BOOLEAN, onFade : Seq(Listener), onSlide : Seq(Listener)]
UpdateRecord ==
  [links : LinkList, sites : Seq(Nat), moving : BOOLEAN, done : BOOLEAN, waiting : Nat]
Grid == [cells : [Cells -> Seq(Nat)], nodes : Seq(Node), updates : Seq(UpdateRecord)]

\* What a cell with the node s, or none, contains
Holding(s) == IF s = 0 THEN <<>> ELSE <<s>>

\* at is the node of each cell: no cell has two, and no node is in two cells.
Places(g, at) ==
  /\ at \in [Cells -> 0..Len(g.nodes)]
  /\ \A c \in Cells : g.cells[c] = Holding(at[c])
  /\ \A c, d \in Cells : at[c] = at[d] /\ at[c] # 0 => c = d

SiteAt(g) == [c \in Cells |-> Site(g, c)]
Sound(g) == g \in Grid /\ Places(g, SiteAt(g))

\* A node that takes part in no update; it may still fade in.
Settled(n) ==
  /\ n.opacity = 1 /\ ~n.frozen /\ ~n.sliding /\ n.onSlide = <<>>
  /\ n.onFade = <<>> \/ (n.fading /\ n.onFade = <<Show>>)

Latest(g) == g.updates[Len(g.updates)]
AllDone(g) == \A u \in DOMAIN g.updates : g.updates[u].done /\ g.updates[u].waiting = 0

\* D: the nodes with a listener that still has to be called, and the listener.
Rest(g, D) ==
  /\ AllDone(g)
  /\ \A s \in Attached(g) : Settled(g.nodes[s])
  /\ \A d \in D : d.node \in Attached(g) /\ d.listener = Show

\* The sites an update found are those of its links.
SitesFound(g, ls, sites) ==
  /\ sites \in Seq(Nat) /\ Len(sites) = Len(ls)
  /\ \A i \in 1..Len(ls) :
       sites[i] # 0 => /\ sites[i] \in Attached(g)
                       /\ ls[i] # None /\ g.nodes[sites[i]].url = ls[i]

\* All updates but the latest are done; that one waits.
InProgress(g) ==
  /\ g.updates # <<>>
  /\ \A u \in 1..Len(g.updates) - 1 : g.updates[u].done /\ g.updates[u].waiting = 0
  /\ ~Latest(g).done /\ Latest(g).waiting > 0
  /\ SitesFound(g, Latest(g).links, Latest(g).sites)

Legacy(g) == Attached(g) \ Range(Latest(g).sites)

\* Its legacy sites fade out.
Fades(g, n, s, D) ==
  /\ ~n.frozen /\ ~n.sliding /\ n.onSlide = <<>>
  /\ IF s \in Legacy(g)
     THEN \/ n.fading /\ n.onFade = <<RemoveOf(Len(g.updates))>>
          \/ n.onFade = <<>> /\ [node |-> s, listener |-> RemoveOf(Len(g.updates))] \in D
     ELSE n.opacity = 1 /\ ~n.fading /\ n.onFade = <<>>

Fading(g, D) ==
  /\ InProgress(g) /\ ~Latest(g).moving
  /\ Latest(g).waiting = Cardinality(Legacy(g))
  /\ \A s \in Attached(g) : Fades(g, g.nodes[s], s, D)
  /\ \A d \in D : d.node \in Legacy(g) /\ d.listener = RemoveOf(Len(g.updates))

\* Its sites are where they belong and slide there.
Frozen(g) == {s \in Attached(g) : g.nodes[s].frozen}
InPlace(g, sites) ==
  \A c \in Cells : Site(g, c) = IF c \in 1..Len(sites) THEN sites[c] ELSE 0

Slides(g, n, s, D) ==
  /\ n.opacity = 1 /\ ~n.fading /\ n.onFade = <<>>
  /\ IF n.frozen
     THEN \/ n.sliding /\ n.onSlide = <<SlideOf(Len(g.updates))>>
          \/ /\ ~n.sliding /\ n.onSlide = <<>>
             /\ [node |-> s, listener |-> SlideOf(Len(g.updates))] \in D
     ELSE ~n.sliding /\ n.onSlide = <<>>

Sliding(g, D) ==
  /\ InProgress(g) /\ Latest(g).moving
  /\ Latest(g).waiting = Cardinality(Frozen(g))
  /\ InPlace(g, Latest(g).sites)
  /\ \A s \in Attached(g) : Slides(g, g.nodes[s], s, D)
  /\ \A d \in D : /\ d.node \in Frozen(g) /\ d.listener = SlideOf(Len(g.updates))
                  /\ g.nodes[d.node].onSlide = <<>>

\* Listeners of page p still to be called
DueOf(due, p) ==
  {[node |-> due[i].node, listener |-> due[i].listener] : i \in {j \in DOMAIN due : due[j].page = p}}
Due(p) == DueOf(firing, p)

PageOk(g, D) == Sound(g) /\ (Rest(g, D) \/ Fading(g, D) \/ Sliding(g, D))

\* The grid g has the links ls, each in its place.
Shows(g, ls) ==
  \A c \in Cells :
    IF c \in 1..Len(ls) /\ ls[c] # None
    THEN Site(g, c) # 0 /\ g.nodes[Site(g, c)].url = ls[c]
    ELSE Site(g, c) = 0

Current == LinksOf(provided, pinned, blocked)
Updating(g, ls) == InProgress(g) /\ Latest(g).links = ls

\* Page p shows the links or will be made to.
Follows(p) ==
  \/ p \in timer
  \/ restoring \cap open # {}
  \/ AllDone(grid[p]) /\ Shows(grid[p], Current)
  \/ \E q \in open : Updating(grid[q], Current)

\* No link is pinned twice.
Pins ==
  {f \in [Cells -> Urls \cup {None}] : \A i, j \in Cells : f[i] = f[j] /\ f[i] # None => i = j}

UndoTyped(un) ==
  /\ DOMAIN un = Pages
  /\ \A p \in Pages : un[p] # NoUndo => un[p].index \in Cells /\ un[p].url \in Urls

Typed ==
  /\ provided \in Providers /\ pinned \in Pins /\ blocked \in SUBSET Urls
  /\ open \in SUBSET Pages /\ DOMAIN grid = Pages /\ UndoTyped(undo)

OneFires(due) ==
  due = <<>> \/ \E p \in Pages, s \in Nat, l \in Listener :
                  due = <<[page |-> p, node |-> s, listener |-> l]>>

GridInv ==
  /\ Typed /\ OneFires(firing)
  /\ \A p \in Pages : PageOk(grid[p], Due(p))
  /\ \A p \in (open \cap ready) \ behind : Follows(p)

-----------------------------------------------------------------------------
\* The document.

\* What is kept of a cell.
LEMMA KeptOfHolding ==
  ASSUME NEW s \in Nat, NEW gone
  PROVE  LET list == Holding(s)
         IN Kept(list, {k \in DOMAIN list : list[k] \notin gone}) = Holding(IF s \in gone THEN 0 ELSE s)
<1> DEFINE list == Holding(s)
           keep == {k \in DOMAIN list : list[k] \notin gone}
           K == Kept(list, keep)
<1>1. list \in Seq(Nat) /\ Len(list) = (IF s = 0 THEN 0 ELSE 1)
  BY DEF Holding
<1>2. DOMAIN list = 1..Len(list) BY <1>1, LenProperties
<1>3. PICK L : L = list OBVIOUS
<1>4. PICK P : P = keep OBVIOUS
<1>5. L \in Seq(Nat) BY <1>1, <1>3
<1>6. PICK R : R = Kept(L, P) OBVIOUS
<1>7. PICK at : PlacesKept(at, L, P)
  <2>1. \E at : PlacesKept(at, L, P) BY <1>5, KeptHasPlaces
  <2> QED BY <2>1
<1>8. /\ at \in [1..Len(R) -> P \cap (1..Len(L))]
      /\ \A j, k \in 1..Len(R) : j < k => at[j] < at[k]
      /\ \A i \in P \cap (1..Len(L)) : \E k \in 1..Len(R) : at[k] = i
      /\ \A k \in 1..Len(R) : R[k] = L[at[k]]
  BY <1>6, <1>7 DEF PlacesKept
<1>9. /\ R \in Seq(Nat) /\ Len(R) \in Nat
      /\ \A k \in 1..Len(R) : at[k] \in P \cap (1..Len(L))
  <2>1. R \in Seq(Nat) BY <1>5, <1>6, KeptElements
  <2> QED BY <2>1, <1>8, LenProperties
<1>10. CASE s = 0 \/ s \in gone
  <2>1. P \cap (1..Len(L)) = {} BY <1>1, <1>2, <1>3, <1>4, <1>10 DEF Holding
  <2>2. Len(R) = 0 BY <2>1, <1>9
  <2>3. R = <<>> BY <2>2, <1>9
  <2> QED BY <2>3, <1>3, <1>4, <1>6, <1>10 DEF Holding
<1>11. CASE s # 0 /\ s \notin gone
  <2>1. Len(L) = 1 /\ L[1] = s BY <1>1, <1>3, <1>11 DEF Holding
  <2>2. P \cap (1..Len(L)) = {1} BY <2>1, <1>2, <1>3, <1>4, <1>11
  <2>3. \A k \in 1..Len(R) : at[k] = 1 BY <2>2, <1>9
  <2>4. Len(R) # 0 BY <2>2, <1>8, <1>9
  <2>5. ~(Len(R) > 1)
    <3> SUFFICES ASSUME Len(R) > 1 PROVE FALSE OBVIOUS
    <3>1. 1 \in 1..Len(R) /\ 2 \in 1..Len(R) /\ 1 < 2 BY <1>9
    <3> QED BY <3>1, <2>3, <1>8, <1>9
  <2>6. Len(R) = 1
    <3>1. PICK n \in Nat : n = Len(R) BY <1>9
    <3>2. n # 0 /\ ~(n > 1) BY <3>1, <2>4, <2>5
    <3> QED BY <3>1, <3>2
  <2>7. R[1] = s BY <2>1, <2>3, <2>6, <1>8, <1>9
  <2>8. R = <<s>> BY <2>6, <2>7, <1>9
  <2> QED BY <2>8, <1>3, <1>4, <1>6, <1>11 DEF Holding
<1> QED BY <1>10, <1>11

\* A grid whose cells hold the nodes at is sound, and they are its sites.
LEMMA PlacesAreSites ==
  ASSUME NEW g \in Grid, NEW at, Places(g, at)
  PROVE  Sound(g) /\ SiteAt(g) = at /\ \A c \in Cells : Site(g, c) = at[c]
<1>1. ASSUME NEW c \in Cells PROVE Site(g, c) = at[c]
  <2>1. g.cells[c] = Holding(at[c]) BY DEF Places
  <2>2. CASE at[c] = 0 BY <2>1, <2>2 DEF Site, Holding
  <2>3. CASE at[c] # 0
    <3>1. g.cells[c] = <<at[c]>> BY <2>1, <2>3 DEF Holding
    <3>2. Head(<<at[c]>>) = at[c] /\ <<at[c]>> # <<>> OBVIOUS
    <3> QED BY <3>1, <3>2 DEF Site
  <2> QED BY <2>2, <2>3
<1>2. SiteAt(g) = at BY <1>1 DEF SiteAt, Places
<1> QED BY <1>1, <1>2 DEF Sound

\* What is known of the sites of a sound grid.
LEMMA SoundSites ==
  ASSUME NEW g, Sound(g)
  PROVE  /\ g \in Grid /\ Len(g.nodes) \in Nat /\ DOMAIN g.nodes = 1..Len(g.nodes)
         /\ \A s \in 1..Len(g.nodes) : g.nodes[s] \in Node
         /\ Len(g.updates) \in Nat /\ DOMAIN g.updates = 1..Len(g.updates)
         /\ \A u \in 1..Len(g.updates) : g.updates[u] \in UpdateRecord
         /\ \A c \in Cells : /\ Site(g, c) \in 0..Len(g.nodes)
                             /\ g.cells[c] = Holding(Site(g, c))
         /\ \A c, d \in Cells : Site(g, c) = Site(g, d) /\ Site(g, c) # 0 => c = d
<1>1. g \in Grid /\ Places(g, SiteAt(g)) BY DEF Sound
<1>2. g.nodes \in Seq(Node) /\ g.updates \in Seq(UpdateRecord) BY <1>1 DEF Grid
<1>3. /\ Len(g.nodes) \in Nat /\ DOMAIN g.nodes = 1..Len(g.nodes)
      /\ \A s \in 1..Len(g.nodes) : g.nodes[s] \in Node
  BY <1>2, LenProperties
<1>4. /\ Len(g.updates) \in Nat /\ DOMAIN g.updates = 1..Len(g.updates)
      /\ \A u \in 1..Len(g.updates) : g.updates[u] \in UpdateRecord
  BY <1>2, LenProperties
<1>5. \A c \in Cells : SiteAt(g)[c] = Site(g, c) BY DEF SiteAt
<1>6. \A c \in Cells : SiteAt(g)[c] \in 0..Len(g.nodes) /\ g.cells[c] = Holding(SiteAt(g)[c])
  BY <1>1 DEF Places
<1>7. \A c, d \in Cells : SiteAt(g)[c] = SiteAt(g)[d] /\ SiteAt(g)[c] # 0 => c = d
  BY <1>1 DEF Places
<1> QED BY <1>1, <1>3, <1>4, <1>5, <1>6, <1>7

\* The nodes in the document are the sites of the cells.
LEMMA AttachedAreSites ==
  ASSUME NEW g, Sound(g)
  PROVE  /\ \A s : s \in Attached(g) <=> s # 0 /\ \E c \in Cells : Site(g, c) = s
         /\ Sites(g) = Attached(g)
         /\ Attached(g) \subseteq 1..Len(g.nodes) /\ Attached(g) \subseteq DOMAIN g.nodes
         /\ IsFiniteSet(Attached(g))
<1>1. \A c \in Cells : Site(g, c) \in 0..Len(g.nodes) /\ g.cells[c] = Holding(Site(g, c))
  BY SoundSites
<1>2. Len(g.nodes) \in Nat /\ DOMAIN g.nodes = 1..Len(g.nodes) BY SoundSites
<1>3. ASSUME NEW c \in Cells
      PROVE  Range(g.cells[c]) = {Site(g, c)} \ {0}
  <2>1. PICK s \in Nat : s = Site(g, c) BY <1>1, <1>2
  <2>2. Range(Holding(s)) = {s} \ {0} BY DEF Range, Holding
  <2> QED BY <2>1, <2>2, <1>1
<1>4. \A s : s \in Attached(g) <=> s # 0 /\ \E c \in Cells : Site(g, c) = s
  BY <1>3 DEF Attached
<1>5. Sites(g) = Attached(g) BY <1>4 DEF Sites
<1>6. Attached(g) \subseteq 1..Len(g.nodes)
  <2> SUFFICES ASSUME NEW s \in Attached(g) PROVE s \in 1..Len(g.nodes) OBVIOUS
  <2>1. PICK c \in Cells : s # 0 /\ Site(g, c) = s BY <1>4
  <2> QED BY <2>1, <1>1, <1>2
<1>7. IsFiniteSet(Attached(g))
  <2>1. IsFiniteSet(1..Len(g.nodes)) BY <1>2, FS_Interval
  <2> QED BY <2>1, <1>6, FS_Subset
<1> QED BY <1>2, <1>4, <1>5, <1>6, <1>7

\* h is g without the nodes of gone in the document.
Detaching(h, g, gone) ==
  /\ Sound(h) /\ h.updates = g.updates /\ Len(h.nodes) = Len(g.nodes)
  /\ \A c \in Cells : Site(h, c) = IF Site(g, c) \in gone THEN 0 ELSE Site(g, c)
  /\ \A s \in 1..Len(g.nodes) :
       h.nodes[s] = IF s \in gone THEN [g.nodes[s] EXCEPT !.fading = FALSE, !.sliding = FALSE]
                    ELSE g.nodes[s]

\* What Detach does to cells and nodes
LEMMA DetachNodes ==
  ASSUME NEW g, Sound(g), NEW gone
  PROVE  Detaching(Detach(g, gone), g, gone)
<1> DEFINE at == [c \in Cells |-> IF Site(g, c) \in gone THEN 0 ELSE Site(g, c)]
           cells == [c \in Cells |-> Kept(g.cells[c], {k \in DOMAIN g.cells[c] : g.cells[c][k] \notin gone})]
           Off(s) == [g.nodes[s] EXCEPT !.fading = FALSE, !.sliding = FALSE]
           nodes == [s \in DOMAIN g.nodes |-> IF s \in gone THEN Off(s) ELSE g.nodes[s]]
           h == Detach(g, gone)
<1>1. /\ g \in Grid /\ Len(g.nodes) \in Nat /\ DOMAIN g.nodes = 1..Len(g.nodes)
      /\ \A s \in 1..Len(g.nodes) : g.nodes[s] \in Node
      /\ \A c \in Cells : Site(g, c) \in 0..Len(g.nodes) /\ g.cells[c] = Holding(Site(g, c))
      /\ \A c, d \in Cells : Site(g, c) = Site(g, d) /\ Site(g, c) # 0 => c = d
  BY SoundSites
<1>2. h = [g EXCEPT !.cells = cells, !.nodes = nodes] BY DEF Detach
<1>3. \A c \in Cells : cells[c] = Holding(at[c])
  <2> SUFFICES ASSUME NEW c \in Cells PROVE cells[c] = Holding(at[c]) OBVIOUS
  <2>1. PICK s \in Nat : s = Site(g, c) BY <1>1
  <2>2. LET list == Holding(s)
        IN Kept(list, {k \in DOMAIN list : list[k] \notin gone}) = Holding(IF s \in gone THEN 0 ELSE s)
    BY KeptOfHolding
  <2> QED BY <1>1, <2>1, <2>2
<1>4. ASSUME NEW s \in 1..Len(g.nodes)
      PROVE  Off(s) \in Node
  BY <1>1 DEF Node
<1>5. nodes \in [1..Len(g.nodes) -> Node] BY <1>1, <1>4
<1>6. nodes \in Seq(Node) /\ Len(nodes) = Len(g.nodes)
  <2> HIDE DEF nodes
  <2> QED BY <1>1, <1>5, FunctionIsSeq
<1>7. cells \in [Cells -> Seq(Nat)]
  <2>1. \A c \in Cells : at[c] \in Nat BY <1>1
  <2>2. \A s \in Nat : Holding(s) \in Seq(Nat) BY DEF Holding
  <2>3. \A c \in Cells : cells[c] \in Seq(Nat) BY <1>3, <2>1, <2>2
  <2> QED BY <2>3
<1>8. at \in [Cells -> 0..Len(g.nodes)] /\ \A c, d \in Cells : at[c] = at[d] /\ at[c] # 0 => c = d
  BY <1>1
<1>9. \A c \in Cells : at[c] = IF Site(g, c) \in gone THEN 0 ELSE Site(g, c) OBVIOUS
<1>10. \A s \in 1..Len(g.nodes) : nodes[s] = IF s \in gone THEN Off(s) ELSE g.nodes[s] BY <1>1
<1> HIDE DEF at, cells, nodes, h
<1>11. h \in Grid /\ h.cells = cells /\ h.nodes = nodes /\ h.updates = g.updates
  BY <1>1, <1>2, <1>6, <1>7 DEF Grid
<1>12. Places(h, at) BY <1>3, <1>6, <1>8, <1>11 DEF Places
<1>13. Sound(h) /\ \A c \in Cells : Site(h, c) = at[c] BY <1>11, <1>12, PlacesAreSites
<1>14. Len(h.nodes) = Len(g.nodes) /\ \A s \in 1..Len(g.nodes) : h.nodes[s] = nodes[s]
  BY <1>6, <1>11
<1> QED BY <1>9, <1>10, <1>11, <1>13, <1>14 DEF Detaching, h

\* What Detach leaves in the document
LEMMA DetachLeaves ==
  ASSUME NEW g, Sound(g), NEW h, NEW gone, Detaching(h, g, gone)
  PROVE  Attached(h) = Attached(g) \ gone
<1>1. Sound(h) /\ \A c \in Cells : Site(h, c) = IF Site(g, c) \in gone THEN 0 ELSE Site(g, c)
  BY DEF Detaching
<1>2. \A s : s \in Attached(g) <=> s # 0 /\ \E c \in Cells : Site(g, c) = s BY AttachedAreSites
<1>3. \A s : s \in Attached(h) <=> s # 0 /\ \E c \in Cells : Site(h, c) = s
  BY <1>1, AttachedAreSites
<1>4. ASSUME NEW s PROVE s \in Attached(h) <=> s \in Attached(g) /\ s \notin gone
  BY <1>1, <1>2, <1>3
<1> QED BY <1>4

\* A node that neither fades nor slides stays the same when it is taken out.
LEMMA StillNode ==
  ASSUME NEW n \in Node, ~n.fading, ~n.sliding
  PROVE  [n EXCEPT !.fading = FALSE, !.sliding = FALSE] = n
<1>1. n.fading = FALSE /\ n.sliding = FALSE BY DEF Node
<1> QED BY <1>1 DEF Node

\* h is g with a new node, settled, in every empty cell that has a link.
FilledIn(h, g, ls) ==
  /\ Sound(h) /\ h.updates = g.updates /\ Len(g.nodes) <= Len(h.nodes)
  /\ \A s \in 1..Len(g.nodes) : h.nodes[s] = g.nodes[s]
  /\ \A s \in Len(g.nodes) + 1..Len(h.nodes) : Settled(h.nodes[s])
  /\ \A c \in Cells : Site(g, c) # 0 => Site(h, c) = Site(g, c)
  /\ \A c \in Cells : Site(g, c) = 0 =>
       IF c \in 1..Len(ls) /\ ls[c] # None
       THEN /\ Site(h, c) \in Len(g.nodes) + 1..Len(h.nodes)
            /\ h.nodes[Site(h, c)].url = ls[c]
       ELSE Site(h, c) = 0

\* A site that was created takes part in no update.
LEMMA NewNodeSettled ==
  ASSUME NEW u \in Urls, NEW fading \in BOOLEAN
  PROVE  NewNode(u, fading) \in Node /\ Settled(NewNode(u, fading)) /\ NewNode(u, fading).url = u
<1> DEFINE on == IF fading THEN <<Show>> ELSE <<>>
<1>1. Show \in Listener BY DEF Show, Listener
<1>2. on \in Seq(Listener) BY <1>1
<1>3. <<>> \in Seq(Listener) OBVIOUS
<1>4. NewNode(u, fading) =
        [url |-> u, opacity |-> 1, fading |-> fading, frozen |-> FALSE, spot |-> 0,
         sliding |-> FALSE, onFade |-> on, onSlide |-> <<>>]
  BY DEF NewNode, Show
<1>5. 0 \in 0..N BY ConstantsAssumption
<1>6. on = <<>> \/ (fading /\ on = <<Show>>) OBVIOUS
<1> HIDE DEF on
<1>7. NewNode(u, fading) \in Node BY <1>2, <1>3, <1>4, <1>5 DEF Node
<1>8. Settled(NewNode(u, fading)) BY <1>4, <1>6 DEF Settled
<1> QED BY <1>4, <1>7, <1>8

\* FillIn makes a site for every link without one, and touches no other.
LEMMA FillInFills ==
  ASSUME NEW g, Sound(g), NEW ls \in LinkList, NEW fading \in BOOLEAN
  PROVE  FilledIn(FillIn(g, ls, fading), g, ls)
<1> DEFINE list == [i \in 1..Len(ls) |-> i]
           keep == {i \in 1..Len(ls) : Site(g, i) = 0 /\ ls[i] # None}
           free == Kept(list, keep)
           new == [k \in 1..Len(free) |-> NewNode(ls[free[k]], fading)]
           Id(c) == CHOOSE k \in 1..Len(free) : free[k] = c
           m == Len(g.nodes)
           at == [c \in Cells |-> IF c \in Range(free) THEN m + Id(c) ELSE Site(g, c)]
           cells == [c \in Cells |-> IF c \in Range(free) THEN <<m + Id(c)>> ELSE g.cells[c]]
           nodes == g.nodes \o new
           h == FillIn(g, ls, fading)
<1>1. /\ g \in Grid /\ m \in Nat /\ DOMAIN g.nodes = 1..m
      /\ \A s \in 1..m : g.nodes[s] \in Node
      /\ \A c \in Cells : Site(g, c) \in 0..m /\ g.cells[c] = Holding(Site(g, c))
      /\ \A c, d \in Cells : Site(g, c) = Site(g, d) /\ Site(g, c) # 0 => c = d
  BY SoundSites
<1>2. h = [g EXCEPT !.nodes = nodes, !.cells = cells] BY DEF FillIn
<1>3. /\ ls \in Seq(Urls \cup {None}) /\ Len(ls) \in Nat /\ Len(ls) <= N
      /\ \A i \in 1..Len(ls) : ls[i] \in Urls \cup {None}
  <2>1. ls \in Seq(Urls \cup {None}) /\ Len(ls) <= N BY DEF LinkList
  <2> QED BY <2>1, LenProperties
<1>4. N \in Nat BY ConstantsAssumption
<1>5. 1..Len(ls) \subseteq Cells BY <1>3, <1>4 DEF Cells
<1>6. list \in Seq(Nat) /\ Len(list) = Len(ls) /\ DOMAIN list = 1..Len(ls) /\ \A i \in 1..Len(ls) : list[i] = i
  <2>1. list \in [1..Len(ls) -> Nat] BY <1>3
  <2>2. \A i \in 1..Len(ls) : list[i] = i OBVIOUS
  <2> HIDE DEF list
  <2> QED BY <1>3, <2>1, <2>2, FunctionIsSeq
<1>7. PICK at0 : PlacesKept(at0, list, keep)
  <2> HIDE DEF list, keep
  <2>1. \E at0 : PlacesKept(at0, list, keep) BY <1>6, KeptHasPlaces
  <2> QED BY <2>1
<1>8. free \in Seq(Nat) /\ Len(free) \in Nat /\ DOMAIN free = 1..Len(free)
  <2> HIDE DEF list, keep
  <2>1. free \in Seq(Nat) BY <1>6, KeptElements
  <2> QED BY <2>1, LenProperties
<1>9. /\ at0 \in [1..Len(free) -> keep \cap (1..Len(ls))]
      /\ \A j, k \in 1..Len(free) : j < k => at0[j] < at0[k]
      /\ \A i \in keep \cap (1..Len(ls)) : \E k \in 1..Len(free) : at0[k] = i
      /\ \A k \in 1..Len(free) : free[k] = list[at0[k]]
  <2> HIDE DEF list, keep
  <2> QED BY <1>6, <1>7 DEF PlacesKept
<1>10. \A k \in 1..Len(free) : free[k] \in keep /\ free[k] = at0[k]
  <2> HIDE DEF list
  <2> QED BY <1>6, <1>9
<1>11. \A c : c \in Range(free) <=> c \in keep
  <2>1. ASSUME NEW c \in keep PROVE \E k \in 1..Len(free) : free[k] = c
    <3>1. PICK k \in 1..Len(free) : at0[k] = c BY <1>9
    <3> HIDE DEF list, keep, free
    <3> QED BY <3>1, <1>10
  <2> HIDE DEF list, keep, free
  <2> QED BY <2>1, <1>8, <1>10 DEF Range
<1>12. \A j, k \in 1..Len(free) : free[j] = free[k] => j = k
  <2> SUFFICES ASSUME NEW j \in 1..Len(free), NEW k \in 1..Len(free), free[j] = free[k], j # k
               PROVE  FALSE
    OBVIOUS
  <2> HIDE DEF list, keep, free
  <2>1. at0[j] = at0[k] BY <1>10
  <2>2. free[j] \in keep BY <1>10
  <2>3. at0[j] \in Nat BY <2>2, <1>10 DEF keep
  <2>4. j \in Nat /\ k \in Nat BY <1>8
  <2>5. CASE j < k BY <2>5, <2>1, <2>3, <1>9
  <2>6. CASE k < j BY <2>6, <2>1, <2>3, <1>9
  <2> QED BY <2>4, <2>5, <2>6
<1>13. ASSUME NEW c \in keep
       PROVE  Id(c) \in 1..Len(free) /\ free[Id(c)] = c
  <2>1. \E k \in 1..Len(free) : free[k] = c
    <3> HIDE DEF list, keep, free
    <3>1. c \in Range(free) BY <1>11
    <3> QED BY <3>1, <1>8 DEF Range
  <2> HIDE DEF list, keep, free
  <2> QED BY <2>1
<1>14. keep \subseteq Cells /\ \A c \in keep : Site(g, c) = 0 /\ ls[c] \in Urls /\ c \in 1..Len(ls)
  BY <1>3, <1>5
<1>15. \A c \in Cells : c \in keep <=> Site(g, c) = 0 /\ c \in 1..Len(ls) /\ ls[c] # None OBVIOUS
<1> HIDE DEF list, keep
<1>16. ASSUME NEW k \in 1..Len(free)
       PROVE  /\ NewNode(ls[free[k]], fading) \in Node /\ Settled(NewNode(ls[free[k]], fading))
              /\ NewNode(ls[free[k]], fading).url = ls[free[k]]
  <2>1. free[k] \in keep BY <1>10
  <2>2. PICK u \in Urls : u = ls[free[k]] BY <2>1, <1>14
  <2> HIDE DEF free
  <2> QED BY <2>2, NewNodeSettled
<1>17. new \in Seq(Node) /\ Len(new) = Len(free) /\ \A k \in 1..Len(free) : new[k] = NewNode(ls[free[k]], fading)
  <2> HIDE DEF free
  <2>1. new \in [1..Len(free) -> Node] BY <1>16
  <2>2. \A k \in 1..Len(free) : new[k] = NewNode(ls[free[k]], fading) OBVIOUS
  <2> HIDE DEF new
  <2> QED BY <1>8, <2>1, <2>2, FunctionIsSeq
<1> HIDE DEF new
<1>18. g.nodes \in Seq(Node) BY <1>1 DEF Grid
<1>19. nodes \in Seq(Node) /\ Joined(nodes, g.nodes, new) BY <1>17, <1>18, ConcatJoins
<1>20. /\ Len(nodes) = m + Len(free)
       /\ \A s \in 1..m : nodes[s] = g.nodes[s]
       /\ \A k \in 1..Len(free) : nodes[m + k] = new[k]
  <2> HIDE DEF nodes, free
  <2> QED BY <1>17, <1>19 DEF Joined
<1>21. \A c \in Cells : at[c] = IF c \in keep THEN m + Id(c) ELSE Site(g, c)
  <2> HIDE DEF free
  <2> QED BY <1>11
<1>22. \A c \in Cells : cells[c] = IF c \in keep THEN <<m + Id(c)>> ELSE g.cells[c]
  <2> HIDE DEF free
  <2> QED BY <1>11
<1>23. DOMAIN at = Cells /\ DOMAIN cells = Cells OBVIOUS
<1> HIDE DEF at, cells, nodes, h, Id
<1>24. ASSUME NEW c \in Cells
       PROVE  /\ at[c] \in 0..Len(nodes) /\ cells[c] = Holding(at[c])
              /\ c \in keep => at[c] \in m + 1..m + Len(free)
              /\ c \notin keep => at[c] = Site(g, c)
  <2> HIDE DEF free
  <2>1. CASE c \in keep
    <3>1. Id(c) \in 1..Len(free) BY <2>1, <1>13
    <3>2. at[c] = m + Id(c) /\ cells[c] = <<at[c]>> BY <2>1, <1>21, <1>22
    <3>3. at[c] \in Nat /\ at[c] # 0 /\ at[c] \in m + 1..m + Len(free) BY <3>1, <3>2, <1>1, <1>8
    <3>4. at[c] \in 0..Len(nodes) BY <3>3, <1>1, <1>8, <1>20
    <3> QED BY <2>1, <3>2, <3>3, <3>4 DEF Holding
  <2>2. CASE c \notin keep
    <3>1. at[c] = Site(g, c) /\ cells[c] = g.cells[c] BY <2>2, <1>21, <1>22
    <3>2. at[c] \in 0..Len(nodes) BY <3>1, <1>1, <1>8, <1>20
    <3> QED BY <2>2, <3>1, <3>2, <1>1
  <2> QED BY <2>1, <2>2
<1>25. cells \in [Cells -> Seq(Nat)]
  <2>1. \A s \in Nat : Holding(s) \in Seq(Nat) BY DEF Holding
  <2>2. \A c \in Cells : at[c] \in Nat
    <3> SUFFICES ASSUME NEW c \in Cells PROVE at[c] \in Nat OBVIOUS
    <3>1. at[c] \in 0..Len(nodes) BY <1>24
    <3> QED BY <3>1
  <2>3. \A c \in Cells : cells[c] \in Seq(Nat) BY <1>24, <2>1, <2>2
  <2>4. cells = [c \in Cells |-> cells[c]] BY <1>22 DEF cells
  <2> QED BY <2>3, <2>4
<1>26. h \in Grid /\ h.cells = cells /\ h.nodes = nodes /\ h.updates = g.updates
  BY <1>1, <1>2, <1>19, <1>25 DEF Grid
<1>27. ASSUME NEW c \in Cells, NEW d \in Cells, at[c] = at[d], at[c] # 0
       PROVE  c = d
  <2> HIDE DEF free, m
  <2>1. CASE c \in keep /\ d \in keep
    <3>1. m + Id(c) = m + Id(d) BY <2>1, <1>21, <1>27
    <3>2. Id(c) \in 1..Len(free) /\ Id(d) \in 1..Len(free) /\ free[Id(c)] = c /\ free[Id(d)] = d
      BY <2>1, <1>13
    <3>3. Id(c) = Id(d) BY <3>1, <3>2, <1>1, <1>8
    <3> QED BY <3>2, <3>3
  <2>2. CASE c \in keep /\ d \notin keep
    <3>1. at[c] \in m + 1..m + Len(free) /\ at[d] \in 0..m BY <2>2, <1>1, <1>24
    <3> QED BY <3>1, <1>1, <1>8, <1>27
  <2>3. CASE c \notin keep /\ d \in keep
    <3>1. at[d] \in m + 1..m + Len(free) /\ at[c] \in 0..m BY <2>3, <1>1, <1>24
    <3> QED BY <3>1, <1>1, <1>8, <1>27
  <2>4. CASE c \notin keep /\ d \notin keep BY <2>4, <1>1, <1>24, <1>27
  <2> QED BY <2>1, <2>2, <2>3, <2>4
<1>28. Places(h, at)
  <2>1. at \in [Cells -> 0..Len(nodes)]
    <3>1. at = [c \in Cells |-> at[c]] BY <1>23 DEF at
    <3> QED BY <3>1, <1>24
  <2> QED BY <2>1, <1>24, <1>26, <1>27 DEF Places
<1>29. Sound(h) /\ \A c \in Cells : Site(h, c) = at[c] BY <1>26, <1>28, PlacesAreSites
<1>30. ASSUME NEW s \in m + 1..m + Len(free)
       PROVE  Settled(nodes[s])
  <2> HIDE DEF free, m
  <2>1. PICK k \in 1..Len(free) : s = m + k
    <3>1. s - m \in 1..Len(free) /\ s = m + (s - m) BY <1>1, <1>8
    <3> QED BY <3>1
  <2> QED BY <2>1, <1>16, <1>17, <1>20
<1>31. ASSUME NEW c \in keep
       PROVE  nodes[at[c]].url = ls[c]
  <2> HIDE DEF free, m
  <2>1. c \in Cells BY <1>14
  <2>2. Id(c) \in 1..Len(free) /\ free[Id(c)] = c /\ at[c] = m + Id(c) BY <2>1, <1>13, <1>21
  <2>3. nodes[at[c]] = NewNode(ls[free[Id(c)]], fading) BY <2>2, <1>17, <1>20
  <2> QED BY <2>2, <2>3, <1>16
<1>32. Len(h.nodes) = m + Len(free) BY <1>20, <1>26
<1>33. m <= Len(h.nodes) BY <1>32, <1>1, <1>8
<1>34. \A s \in 1..m : h.nodes[s] = g.nodes[s] BY <1>20, <1>26
<1>35. \A s \in m + 1..Len(h.nodes) : Settled(h.nodes[s]) BY <1>26, <1>30, <1>32
<1>36. ASSUME NEW c \in Cells, Site(g, c) # 0 PROVE Site(h, c) = Site(g, c)
  <2>1. c \notin keep BY <1>15, <1>36
  <2> QED BY <2>1, <1>24, <1>29
<1>37. ASSUME NEW c \in Cells, Site(g, c) = 0
       PROVE  IF c \in 1..Len(ls) /\ ls[c] # None
              THEN Site(h, c) \in m + 1..Len(h.nodes) /\ h.nodes[Site(h, c)].url = ls[c]
              ELSE Site(h, c) = 0
  <2>1. CASE c \in keep BY <2>1, <1>15, <1>24, <1>26, <1>29, <1>31, <1>32
  <2>2. CASE c \notin keep BY <2>2, <1>15, <1>24, <1>29, <1>37
  <2> QED BY <2>1, <2>2
<1> HIDE DEF free
<1> QED BY <1>26, <1>29, <1>33, <1>34, <1>35, <1>36, <1>37 DEF FilledIn, h

-----------------------------------------------------------------------------
\* The links.

\* getLinks gives every link one place.
LEMMA LinksHavePlaces ==
  ASSUME NEW prov \in Providers, NEW pins \in Pins, NEW blk
  PROVE  LinksOf(prov, pins, blk) \in LinkList
<1> DEFINE keep == {n \in DOMAIN prov : prov[n] \notin blk \cup Range(pins)}
           free == Kept(prov, keep)
           Gaps(i) == {j \in 1..i : pins[j] = None}
           At(i) == IF pins[i] # None THEN pins[i]
                    ELSE LET k == Cardinality({j \in 1..i : pins[j] = None})
                         IN IF k <= Len(free) THEN free[k] ELSE None
           S == {i \in Cells : At(i) # None} \cup {0}
           last == Max(S)
           ls == [i \in 1..last |-> At(i)]
<1>1. N \in Nat /\ None \notin Urls /\ prov \in Seq(Urls) /\ IsInjective(prov)
  BY ConstantsAssumption
<1>2. /\ pins \in [Cells -> Urls \cup {None}]
      /\ \A i, j \in Cells : pins[i] = pins[j] /\ pins[i] # None => i = j
  BY DEF Pins
<1>3. LinksOf(prov, pins, blk) = ls BY DEF LinksOf
<1>4. free \in Seq(Urls) /\ ToSet(free) = {prov[i] : i \in keep \cap DOMAIN prov} /\ IsInjective(free)
  <2> HIDE DEF keep
  <2> QED BY <1>1, KeptElements
<1>5. Len(free) \in Nat /\ DOMAIN free = 1..Len(free) /\ \A k \in 1..Len(free) : free[k] \in Urls
  <2> HIDE DEF free
  <2> QED BY <1>4, LenProperties
<1>6. \A k \in 1..Len(free) : free[k] \notin Range(pins)
  <2> SUFFICES ASSUME NEW k \in 1..Len(free) PROVE free[k] \notin Range(pins) OBVIOUS
  <2>1. free[k] \in ToSet(free)
    <3> HIDE DEF free
    <3> QED BY <1>5 DEF ToSet
  <2>2. PICK i \in keep : free[k] = prov[i]
    <3> HIDE DEF free, keep
    <3> QED BY <2>1, <1>4
  <2> QED BY <2>2
<1>7. \A j, k \in 1..Len(free) : free[j] = free[k] => j = k
  <2> HIDE DEF free
  <2> QED BY <1>4, <1>5 DEF IsInjective
<1> HIDE DEF free, keep
<1>8. ASSUME NEW i \in Cells
      PROVE  /\ IsFiniteSet(Gaps(i)) /\ Cardinality(Gaps(i)) \in Nat
             /\ i \in Gaps(i) => Cardinality(Gaps(i)) >= 1
  <2>1. IsFiniteSet(1..i) BY <1>1, FS_Interval DEF Cells
  <2>2. IsFiniteSet(Gaps(i))
    <3>1. Gaps(i) \subseteq 1..i OBVIOUS
    <3> QED BY <2>1, <3>1, FS_Subset
  <2>3. Cardinality(Gaps(i)) \in Nat BY <2>2, FS_CardinalityType
  <2>4. ASSUME i \in Gaps(i) PROVE Cardinality(Gaps(i)) # 0
    <3> HIDE DEF Gaps
    <3> QED BY <2>2, <2>4, FS_EmptySet
  <2> HIDE DEF Gaps
  <2> QED BY <2>2, <2>3, <2>4
<1>9. ASSUME NEW i \in Cells
      PROVE  /\ At(i) \in Urls \cup {None}
             /\ (pins[i] = None /\ At(i) # None) =>
                   /\ Cardinality(Gaps(i)) \in 1..Len(free) /\ At(i) = free[Cardinality(Gaps(i))]
  <2>1. CASE pins[i] # None BY <2>1, <1>2
  <2>2. CASE pins[i] = None
    <3>1. i \in Gaps(i) BY <2>2, <1>1 DEF Cells
    <3>2. PICK k \in Nat : k = Cardinality(Gaps(i)) /\ k >= 1 BY <3>1, <1>8
    <3>3. At(i) = IF k <= Len(free) THEN free[k] ELSE None BY <2>2, <3>2
    <3> HIDE DEF At, Gaps
    <3> QED BY <2>2, <3>2, <3>3, <1>5
  <2> QED BY <2>1, <2>2
<1>10. ASSUME NEW i \in Cells, NEW j \in Cells, i < j, pins[j] = None
       PROVE  Cardinality(Gaps(i)) < Cardinality(Gaps(j))
  <2>1. Gaps(i) \subseteq Gaps(j) /\ j \in Gaps(j) /\ j \notin Gaps(i)
    BY <1>10, <1>1 DEF Cells
  <2>2. IsFiniteSet(Gaps(j)) /\ Cardinality(Gaps(j)) \in Nat /\ Cardinality(Gaps(i)) \in Nat BY <1>8
  <2> HIDE DEF Gaps
  <2>3. Gaps(i) # Gaps(j) BY <2>1
  <2>4. Cardinality(Gaps(i)) <= Cardinality(Gaps(j)) BY <2>1, <2>2, FS_Subset
  <2>5. Cardinality(Gaps(i)) # Cardinality(Gaps(j))
    BY <2>1, <2>2, <2>3, FS_Subset
  <2> QED BY <2>2, <2>4, <2>5
<1>11. ASSUME NEW i \in Cells, NEW j \in Cells, At(i) = At(j), At(i) # None, i < j
       PROVE  FALSE
  <2>1. CASE pins[i] # None /\ pins[j] # None
    <3>1. pins[i] = pins[j] BY <2>1, <1>11
    <3>2. i = j BY <3>1, <2>1, <1>2
    <3> QED BY <3>2, <1>11, <1>1 DEF Cells
  <2>2. CASE pins[i] = None /\ pins[j] = None
    <3>1. PICK k \in 1..Len(free) : k = Cardinality(Gaps(i)) /\ At(i) = free[k]
      <4> HIDE DEF At, Gaps
      <4> QED BY <2>2, <1>9, <1>11
    <3>2. PICK m \in 1..Len(free) : m = Cardinality(Gaps(j)) /\ At(j) = free[m]
      <4> HIDE DEF At, Gaps
      <4> QED BY <2>2, <1>9, <1>11
    <3>3. k < m
      <4> HIDE DEF Gaps
      <4> QED BY <2>2, <3>1, <3>2, <1>10, <1>11
    <3>4. free[k] = free[m] BY <3>1, <3>2, <1>11
    <3>5. k = m BY <3>4, <1>7
    <3> QED BY <3>3, <3>5, <1>5
  <2>3. CASE pins[i] # None /\ pins[j] = None
    <3>1. PICK m \in 1..Len(free) : At(j) = free[m]
      <4> HIDE DEF At, Gaps
      <4> QED BY <2>3, <1>9, <1>11
    <3>2. At(i) = pins[i] BY <2>3
    <3>3. pins[i] \in Range(pins) BY <1>2 DEF Range
    <3> HIDE DEF At
    <3> QED BY <3>1, <3>2, <3>3, <1>6, <1>11
  <2>4. CASE pins[i] = None /\ pins[j] # None
    <3>1. PICK m \in 1..Len(free) : At(i) = free[m]
      <4> HIDE DEF At, Gaps
      <4> QED BY <2>4, <1>9, <1>11
    <3>2. At(j) = pins[j] BY <2>4
    <3>3. pins[j] \in Range(pins) BY <1>2 DEF Range
    <3> HIDE DEF At
    <3> QED BY <3>1, <3>2, <3>3, <1>6, <1>11
  <2> QED BY <2>1, <2>2, <2>3, <2>4
<1>12. last \in S /\ \A k \in S : k <= last
  <2>1. S \in SUBSET Nat /\ S # {} /\ \A k \in S : k <= N BY <1>1 DEF Cells
  <2> HIDE DEF S
  <2> QED BY <2>1, <1>1, MaxOfSet
<1>13. last \in 0..N BY <1>12, <1>1 DEF Cells
<1>14. 1..last \subseteq Cells /\ last \in Nat
  <2> HIDE DEF last
  <2> QED BY <1>1, <1>13 DEF Cells
<1>15. ls \in Seq(Urls \cup {None}) /\ Len(ls) = last /\ DOMAIN ls = 1..last
  <2>1. ls \in [1..last -> Urls \cup {None}]
    <3> HIDE DEF At, last
    <3> QED BY <1>9, <1>14
  <2> HIDE DEF ls
  <2> QED BY <2>1, <1>14, FunctionIsSeq
<1>16. \A i \in 1..last : ls[i] = At(i) OBVIOUS
<1> HIDE DEF At, Gaps, last, ls, S
<1>17. \A i, j \in 1..last : ls[i] = ls[j] /\ ls[i] # None => i = j
  <2> SUFFICES ASSUME NEW i \in 1..last, NEW j \in 1..last, ls[i] = ls[j], ls[i] # None, i # j
               PROVE  FALSE
    OBVIOUS
  <2>1. i \in Cells /\ j \in Cells BY <1>14
  <2>2. At(i) = At(j) /\ At(i) # None /\ At(j) # None BY <1>16
  <2>3. CASE i < j BY <2>1, <2>2, <2>3, <1>11
  <2>4. CASE j < i BY <2>1, <2>2, <2>4, <1>11
  <2> QED BY <2>3, <2>4, <1>14
<1> QED BY <1>1, <1>3, <1>13, <1>15, <1>17 DEF LinkList

\* The places of a list of links
LEMMA LinkPlaces ==
  ASSUME NEW ls \in LinkList
  PROVE  /\ Len(ls) \in 0..N /\ DOMAIN ls = 1..Len(ls) /\ 1..Len(ls) \subseteq Cells
         /\ \A i \in 1..Len(ls) : ls[i] \in Urls \cup {None}
         /\ \A i, j \in 1..Len(ls) : ls[i] = ls[j] /\ ls[i] # None => i = j
<1>1. ls \in Seq(Urls \cup {None}) /\ Len(ls) <= N BY DEF LinkList
<1>2. Len(ls) \in Nat /\ DOMAIN ls = 1..Len(ls) /\ \A i \in 1..Len(ls) : ls[i] \in Urls \cup {None}
  BY <1>1, LenProperties
<1>3. N \in Nat BY ConstantsAssumption
<1>4. \A i, j \in 1..Len(ls) : ls[i] = ls[j] /\ ls[i] # None => i = j BY <1>2 DEF LinkList
<1>5. 1..Len(ls) \subseteq Cells BY <1>1, <1>2, <1>3 DEF Cells
<1>6. Len(ls) \in 0..N BY <1>1, <1>2, <1>3
<1> QED BY <1>2, <1>4, <1>5, <1>6

\* What pin, unpin and block leave of the pinned links.
LEMMA PinsStay ==
  ASSUME NEW pins \in Pins, NEW u \in Urls, NEW i \in Cells
  PROVE  /\ Unpinned(pins, u) \in Pins /\ PinnedAt(pins, u, i) \in Pins
         /\ [c \in Cells |-> None] \in Pins
<1>1. None \notin Urls BY ConstantsAssumption
<1>2. /\ pins \in [Cells -> Urls \cup {None}]
      /\ \A c, d \in Cells : pins[c] = pins[d] /\ pins[c] # None => c = d
  BY DEF Pins
<1> DEFINE f == Unpinned(pins, u)
           h == PinnedAt(pins, u, i)
<1>3. f \in [Cells -> Urls \cup {None}] /\ \A c \in Cells : f[c] = IF pins[c] = u THEN None ELSE pins[c]
  BY <1>2 DEF Unpinned
<1>4. h \in [Cells -> Urls \cup {None}] /\ \A c \in Cells : h[c] = IF c = i THEN u ELSE f[c]
  BY <1>3 DEF PinnedAt
<1> HIDE DEF f, h
<1>5. \A c, d \in Cells : f[c] = f[d] /\ f[c] # None => c = d BY <1>2, <1>3
<1>6. \A c, d \in Cells : h[c] = h[d] /\ h[c] # None => c = d BY <1>1, <1>3, <1>4, <1>5
<1>7. f \in Pins BY <1>3, <1>5 DEF Pins
<1>8. h \in Pins BY <1>4, <1>6 DEF Pins
<1>9. [c \in Cells |-> None] \in Pins BY DEF Pins
<1> QED BY <1>7, <1>8, <1>9 DEF f, h

-----------------------------------------------------------------------------
\* An update.

\* A page without sites
LEMMA EmptyIsSound ==
  Sound(EmptyGrid) /\ Rest(EmptyGrid, {}) /\ Attached(EmptyGrid) = {} /\ EmptyGrid.updates = <<>>
    /\ Len(EmptyGrid.nodes) = 0 /\ \A c \in Cells : Site(EmptyGrid, c) = 0
<1> DEFINE at == [c \in Cells |-> 0]
           cells == [c \in Cells |-> <<>>]
<1>1. EmptyGrid = [cells |-> cells, nodes |-> <<>>, updates |-> <<>>] BY DEF EmptyGrid
<1>2. cells \in [Cells -> Seq(Nat)] OBVIOUS
<1>3. <<>> \in Seq(Node) /\ <<>> \in Seq(UpdateRecord) /\ Len(<<>>) = 0 OBVIOUS
<1>4. \A c \in Cells : cells[c] = <<>> /\ at[c] = 0 OBVIOUS
<1>5. at \in [Cells -> 0..0] OBVIOUS
<1> HIDE DEF cells
<1>6. EmptyGrid \in Grid BY <1>1, <1>2, <1>3 DEF Grid
<1>7. Len(EmptyGrid.nodes) = 0 /\ EmptyGrid.updates = <<>> /\ EmptyGrid.cells = cells BY <1>1, <1>3
<1> HIDE DEF at
<1>8. Places(EmptyGrid, at) BY <1>4, <1>5, <1>7 DEF Places, Holding
<1>9. Sound(EmptyGrid) /\ \A c \in Cells : Site(EmptyGrid, c) = 0 BY <1>4, <1>6, <1>8, PlacesAreSites
<1>10. Attached(EmptyGrid) = {} BY <1>9, AttachedAreSites
<1>11. AllDone(EmptyGrid) BY <1>7 DEF AllDone
<1> QED BY <1>7, <1>9, <1>10, <1>11 DEF Rest

\* A grid at rest whose empty cells are filled: it shows the links when what it
\* had before was where it belongs.
LEMMA FilledRests ==
  ASSUME NEW g, Sound(g), NEW ls \in LinkList, NEW h, FilledIn(h, g, ls),
         AllDone(g), \A s \in Attached(g) : Settled(g.nodes[s]),
         \A c \in Cells : Site(g, c) # 0 =>
            c \in 1..Len(ls) /\ ls[c] # None /\ g.nodes[Site(g, c)].url = ls[c]
  PROVE  Sound(h) /\ Rest(h, {}) /\ Shows(h, ls)
<1>1. /\ Sound(h) /\ h.updates = g.updates /\ Len(g.nodes) <= Len(h.nodes)
      /\ \A s \in 1..Len(g.nodes) : h.nodes[s] = g.nodes[s]
      /\ \A s \in Len(g.nodes) + 1..Len(h.nodes) : Settled(h.nodes[s])
      /\ \A c \in Cells : Site(g, c) # 0 => Site(h, c) = Site(g, c)
      /\ \A c \in Cells : Site(g, c) = 0 =>
           IF c \in 1..Len(ls) /\ ls[c] # None
           THEN /\ Site(h, c) \in Len(g.nodes) + 1..Len(h.nodes)
                /\ h.nodes[Site(h, c)].url = ls[c]
           ELSE Site(h, c) = 0
  BY DEF FilledIn
<1>2. Len(g.nodes) \in Nat /\ \A c \in Cells : Site(g, c) \in 0..Len(g.nodes) BY SoundSites
<1>3. \A s : s \in Attached(g) <=> s # 0 /\ \E c \in Cells : Site(g, c) = s BY AttachedAreSites
<1>4. \A s : s \in Attached(h) <=> s # 0 /\ \E c \in Cells : Site(h, c) = s BY <1>1, AttachedAreSites
<1>5. ASSUME NEW c \in Cells
      PROVE  /\ Site(h, c) # 0 => Settled(h.nodes[Site(h, c)])
             /\ IF c \in 1..Len(ls) /\ ls[c] # None
                THEN Site(h, c) # 0 /\ h.nodes[Site(h, c)].url = ls[c]
                ELSE Site(h, c) = 0
  <2>1. CASE Site(g, c) # 0
    <3>1. Site(h, c) = Site(g, c) /\ Site(g, c) \in Attached(g) BY <2>1, <1>1, <1>3
    <3>2. Site(g, c) \in 1..Len(g.nodes) BY <2>1, <1>2
    <3>3. h.nodes[Site(h, c)] = g.nodes[Site(g, c)] BY <3>1, <3>2, <1>1
    <3> QED BY <2>1, <3>1, <3>3
  <2>2. CASE Site(g, c) = 0
    <3>1. CASE c \in 1..Len(ls) /\ ls[c] # None
      <4>1. /\ Site(h, c) \in Len(g.nodes) + 1..Len(h.nodes)
            /\ h.nodes[Site(h, c)].url = ls[c]
        BY <2>2, <3>1, <1>1
      <4>2. Site(h, c) # 0 BY <4>1, <1>2
      <4>3. Settled(h.nodes[Site(h, c)]) BY <4>1, <1>1
      <4> QED BY <3>1, <4>1, <4>2, <4>3
    <3>2. CASE ~(c \in 1..Len(ls) /\ ls[c] # None)
      <4>1. Site(h, c) = 0 BY <2>2, <3>2, <1>1
      <4> QED BY <3>2, <4>1
    <3> QED BY <3>1, <3>2
  <2> QED BY <2>1, <2>2
<1>6. Shows(h, ls) BY <1>5 DEF Shows
<1>7. AllDone(h) BY <1>1 DEF AllDone
<1>8. \A s \in Attached(h) : Settled(h.nodes[s]) BY <1>4, <1>5
<1> QED BY <1>1, <1>6, <1>7, <1>8 DEF Rest

\* _refreshGrid leaves a grid that shows the links.
LEMMA RefreshedShows ==
  ASSUME NEW ls \in LinkList
  PROVE  /\ Sound(Refreshed(ls)) /\ Rest(Refreshed(ls), {}) /\ Shows(Refreshed(ls), ls)
         /\ ~InProgress(Refreshed(ls))
<1> DEFINE h == Refreshed(ls)
<1>1. FilledIn(h, EmptyGrid, ls) BY EmptyIsSound, FillInFills DEF Refreshed
<1>2. AllDone(EmptyGrid) BY EmptyIsSound DEF Rest
<1>3. \A c \in Cells : Site(EmptyGrid, c) = 0 BY EmptyIsSound
<1>4. \A s \in Attached(EmptyGrid) : Settled(EmptyGrid.nodes[s]) BY EmptyIsSound
<1>5. h.updates = <<>> BY <1>1, EmptyIsSound DEF FilledIn
<1> HIDE DEF h
<1>6. Sound(h) /\ Rest(h, {}) /\ Shows(h, ls) BY <1>1, <1>2, <1>3, <1>4, EmptyIsSound, FilledRests
<1> QED BY <1>5, <1>6 DEF InProgress, h

\* h is g with node s in cell i.
Putting(h, g, i, s) ==
  /\ Sound(h) /\ h.updates = g.updates /\ Len(h.nodes) = Len(g.nodes)
  /\ \A c \in Cells : Site(h, c) = IF c = i THEN s ELSE IF Site(g, c) = s THEN 0 ELSE Site(g, c)
  /\ \A t \in 1..Len(g.nodes) :
       h.nodes[t] = IF t = s THEN [g.nodes[t] EXCEPT !.fading = FALSE, !.sliding = FALSE]
                    ELSE g.nodes[t]

\* A node that is put into an empty cell is there and nowhere else.
LEMMA PutPuts ==
  ASSUME NEW g, Sound(g), NEW i \in Cells, Site(g, i) = 0, NEW s \in 1..Len(g.nodes)
  PROVE  Putting(Put(g, i, s), g, i, s)
<1> DEFINE d == Detach(g, {s})
           h == Put(g, i, s)
           at == [c \in Cells |-> IF c = i THEN s ELSE Site(d, c)]
<1>1. Detaching(d, g, {s}) BY DetachNodes
<1> HIDE DEF d
<1>2. /\ Sound(d) /\ d.updates = g.updates /\ Len(d.nodes) = Len(g.nodes)
      /\ \A c \in Cells : Site(d, c) = IF Site(g, c) \in {s} THEN 0 ELSE Site(g, c)
      /\ \A t \in 1..Len(g.nodes) :
           d.nodes[t] = IF t \in {s} THEN [g.nodes[t] EXCEPT !.fading = FALSE, !.sliding = FALSE]
                        ELSE g.nodes[t]
  BY <1>1 DEF Detaching
<1>3. d \in Grid /\ \A c \in Cells : Site(d, c) \in 0..Len(d.nodes) /\ d.cells[c] = Holding(Site(d, c))
  BY <1>2, SoundSites
<1>4. \A b, c \in Cells : Site(d, b) = Site(d, c) /\ Site(d, b) # 0 => b = c BY <1>2, SoundSites
<1>5. Site(d, i) = 0 BY <1>2
<1>6. d.cells[i] = <<>> BY <1>3, <1>5 DEF Holding
<1>7. Len(g.nodes) \in Nat /\ s \in Nat /\ s # 0
  <2>1. Len(g.nodes) \in Nat BY SoundSites
  <2> QED BY <2>1
<1>8. h = [d EXCEPT !.cells[i] = <<s>>]
  <2>1. h = [d EXCEPT !.cells[i] = Append(d.cells[i], s)] BY <1>3 DEF Put, d, Grid
  <2>2. Append(d.cells[i], s) = <<s>> BY <1>6, <1>7
  <2> QED BY <2>1, <2>2
<1>9. d.cells \in [Cells -> Seq(Nat)] BY <1>3 DEF Grid
<1>10. h \in Grid /\ h.nodes = d.nodes /\ h.updates = d.updates
       /\ \A c \in Cells : h.cells[c] = IF c = i THEN <<s>> ELSE d.cells[c]
  <2>1. <<s>> \in Seq(Nat) BY <1>7
  <2> QED BY <1>3, <1>8, <1>9, <2>1 DEF Grid
<1> HIDE DEF h
<1>11. Places(h, at)
  <2>1. at \in [Cells -> 0..Len(h.nodes)]
    <3>1. Len(h.nodes) = Len(g.nodes) /\ Len(d.nodes) = Len(g.nodes) BY <1>2, <1>10
    <3>2. s \in 0..Len(g.nodes) BY <1>7
    <3>3. \A c \in Cells : Site(d, c) \in 0..Len(g.nodes) BY <3>1, <1>3
    <3> QED BY <3>1, <3>2, <3>3
  <2>2. ASSUME NEW c \in Cells PROVE h.cells[c] = Holding(at[c])
    BY <1>3, <1>7, <1>10 DEF Holding
  <2>3. ASSUME NEW b \in Cells, NEW c \in Cells, at[b] = at[c], at[b] # 0 PROVE b = c
    <3>1. \A e \in Cells : e # i => at[e] # s BY <1>2, <1>7
    <3>2. CASE b = i \/ c = i BY <3>1, <3>2, <2>3
    <3>3. CASE b # i /\ c # i BY <3>3, <2>3, <1>4
    <3> QED BY <3>2, <3>3
  <2> HIDE DEF at
  <2> QED BY <2>1, <2>2, <2>3 DEF Places
<1>12. Sound(h) /\ \A c \in Cells : Site(h, c) = at[c]
  <2> HIDE DEF at
  <2> QED BY <1>10, <1>11, PlacesAreSites
<1>13. \A c \in Cells : Site(h, c) = IF c = i THEN s ELSE IF Site(g, c) = s THEN 0 ELSE Site(g, c)
  BY <1>2, <1>12
<1>14. \A t \in 1..Len(g.nodes) :
         h.nodes[t] = IF t = s THEN [g.nodes[t] EXCEPT !.fading = FALSE, !.sliding = FALSE]
                      ELSE g.nodes[t]
  BY <1>2, <1>10
<1>15. h.updates = g.updates /\ Len(h.nodes) = Len(g.nodes) BY <1>2, <1>10
<1> QED BY <1>12, <1>13, <1>14, <1>15 DEF Putting, h

\* Sites that can be moved: each once, and none of them moves by itself.
Movable(g, sites) ==
  /\ sites \in Seq(Nat) /\ Len(sites) <= N
  /\ \A i \in 1..Len(sites) :
       /\ sites[i] \in 0..Len(g.nodes)
       /\ sites[i] # 0 => ~g.nodes[sites[i]].fading /\ ~g.nodes[sites[i]].sliding
  /\ \A i, j \in 1..Len(sites) : sites[i] = sites[j] /\ sites[i] # 0 => i = j

\* h is g with its nodes elsewhere, those of sites not changed.
Kin(h, g, sites) ==
  /\ Sound(h) /\ h.updates = g.updates /\ Len(h.nodes) = Len(g.nodes)
  /\ \A i \in 1..Len(sites) : sites[i] # 0 => h.nodes[sites[i]] = g.nodes[sites[i]]
  /\ \A c \in Cells : Site(h, c) # 0 => \E i \in 1..Len(sites) : sites[i] = Site(h, c)

\* One step of _moveSiteNodes, for cell i: the cells before it stay as they are.
LEMMA MoveOne ==
  ASSUME NEW g, Sound(g), NEW sites, Movable(g, sites), NEW h, Kin(h, g, sites),
         NEW i \in 1..Len(sites)
  PROVE  /\ Kin(MoveToCell(h, i, sites[i]), g, sites)
         /\ (\A c \in 1..i - 1 : Site(h, c) = sites[c]) =>
               \A c \in 1..i : Site(MoveToCell(h, i, sites[i]), c) = sites[c]
<1> DEFINE s == sites[i]
           gone == {Site(h, i)} \ {0}
           e == Detach(h, gone)
           k == MoveToCell(h, i, s)
<1>1. /\ Sound(h) /\ h.updates = g.updates /\ Len(h.nodes) = Len(g.nodes)
      /\ \A j \in 1..Len(sites) : sites[j] # 0 => h.nodes[sites[j]] = g.nodes[sites[j]]
      /\ \A c \in Cells : Site(h, c) # 0 => \E j \in 1..Len(sites) : sites[j] = Site(h, c)
  BY DEF Kin
<1>2. /\ sites \in Seq(Nat) /\ Len(sites) <= N
      /\ \A j \in 1..Len(sites) :
           /\ sites[j] \in 0..Len(g.nodes)
           /\ sites[j] # 0 => ~g.nodes[sites[j]].fading /\ ~g.nodes[sites[j]].sliding
      /\ \A j, l \in 1..Len(sites) : sites[j] = sites[l] /\ sites[j] # 0 => j = l
  BY DEF Movable
<1>3. N \in Nat /\ Len(sites) \in Nat /\ 1..Len(sites) \subseteq Cells
  <2>1. N \in Nat BY ConstantsAssumption
  <2>2. Len(sites) \in Nat BY <1>2, LenProperties
  <2> QED BY <2>1, <2>2, <1>2 DEF Cells
<1>4. /\ Len(g.nodes) \in Nat /\ \A t \in 1..Len(g.nodes) : g.nodes[t] \in Node
  BY SoundSites
<1>5. ASSUME NEW j \in 1..Len(sites), sites[j] # 0
      PROVE  /\ sites[j] \in 1..Len(g.nodes)
             /\ [g.nodes[sites[j]] EXCEPT !.fading = FALSE, !.sliding = FALSE] = g.nodes[sites[j]]
  <2>1. PICK t \in 1..Len(g.nodes) : t = sites[j] BY <1>2, <1>4, <1>5
  <2>2. g.nodes[t] \in Node /\ ~g.nodes[t].fading /\ ~g.nodes[t].sliding BY <2>1, <1>2, <1>4, <1>5
  <2>3. [g.nodes[t] EXCEPT !.fading = FALSE, !.sliding = FALSE] = g.nodes[t] BY <2>2, StillNode
  <2> QED BY <2>1, <2>3
<1>6. \A b, c \in Cells : Site(h, b) = Site(h, c) /\ Site(h, b) # 0 => b = c BY <1>1, SoundSites
<1>7. Detaching(e, h, gone) BY <1>1, DetachNodes
<1>8. k = IF s = 0 THEN e ELSE IF Site(h, i) = s THEN h ELSE Put(e, i, s) BY DEF MoveToCell
<1> HIDE DEF e, k
<1>9. /\ Sound(e) /\ e.updates = g.updates /\ Len(e.nodes) = Len(g.nodes)
      /\ \A c \in Cells : Site(e, c) = IF Site(h, c) \in gone THEN 0 ELSE Site(h, c)
      /\ \A t \in 1..Len(g.nodes) :
           e.nodes[t] = IF t \in gone THEN [h.nodes[t] EXCEPT !.fading = FALSE, !.sliding = FALSE]
                        ELSE h.nodes[t]
  BY <1>1, <1>7 DEF Detaching
<1>10. i \in Cells BY <1>3
<1>11. \A c \in Cells : Site(e, c) = IF c = i THEN 0 ELSE Site(h, c)
  BY <1>6, <1>9, <1>10
<1>12. \A j \in 1..Len(sites) : sites[j] # 0 => e.nodes[sites[j]] = g.nodes[sites[j]]
  <2> SUFFICES ASSUME NEW j \in 1..Len(sites), sites[j] # 0
               PROVE  e.nodes[sites[j]] = g.nodes[sites[j]]
    OBVIOUS
  <2>1. PICK t \in 1..Len(g.nodes) : t = sites[j] BY <1>5
  <2>2. h.nodes[t] = g.nodes[t] BY <2>1, <1>1
  <2>3. [g.nodes[t] EXCEPT !.fading = FALSE, !.sliding = FALSE] = g.nodes[t] BY <2>1, <1>5
  <2> QED BY <2>1, <2>2, <2>3, <1>9
<1>13. Kin(e, g, sites)
  <2>1. \A c \in Cells : Site(e, c) # 0 => \E j \in 1..Len(sites) : sites[j] = Site(e, c)
    BY <1>1, <1>11
  <2> QED BY <2>1, <1>9, <1>12 DEF Kin
<1>14. CASE s = 0
  <2>1. k = e BY <1>8, <1>14
  <2>2. ASSUME \A c \in 1..i - 1 : Site(h, c) = sites[c], NEW c \in 1..i
        PROVE  Site(e, c) = sites[c]
    <3>1. c \in Cells /\ (c = i \/ c \in 1..i - 1) BY <1>3
    <3> QED BY <3>1, <2>2, <1>11, <1>14
  <2> QED BY <2>1, <2>2, <1>13 DEF k
<1>15. CASE s # 0 /\ Site(h, i) = s
  <2>1. k = h BY <1>8, <1>15
  <2>2. ASSUME \A c \in 1..i - 1 : Site(h, c) = sites[c], NEW c \in 1..i
        PROVE  Site(h, c) = sites[c]
    <3>1. c = i \/ c \in 1..i - 1 BY <1>3
    <3> QED BY <3>1, <2>2, <1>15
  <2> QED BY <2>1, <2>2 DEF k
<1>16. CASE s # 0 /\ Site(h, i) # s
  <2>1. k = Put(e, i, s) BY <1>8, <1>16
  <2>2. s \in 1..Len(e.nodes) BY <1>5, <1>9, <1>16
  <2>3. Site(e, i) = 0 BY <1>10, <1>11
  <2>4. Putting(k, e, i, s)
    <3> HIDE DEF s
    <3> QED BY <2>1, <2>2, <2>3, <1>9, <1>10, PutPuts
  <2>5. /\ Sound(k) /\ k.updates = g.updates /\ Len(k.nodes) = Len(g.nodes)
        /\ \A c \in Cells : Site(k, c) = IF c = i THEN s ELSE IF Site(e, c) = s THEN 0 ELSE Site(e, c)
        /\ \A t \in 1..Len(g.nodes) :
             k.nodes[t] = IF t = s THEN [e.nodes[t] EXCEPT !.fading = FALSE, !.sliding = FALSE]
                          ELSE e.nodes[t]
    BY <2>4, <1>9 DEF Putting
  <2>6. ASSUME NEW j \in 1..Len(sites), sites[j] # 0 PROVE k.nodes[sites[j]] = g.nodes[sites[j]]
    <3>1. PICK t \in 1..Len(g.nodes) : t = sites[j] BY <1>5, <2>6
    <3>2. e.nodes[t] = g.nodes[t] BY <3>1, <2>6, <1>12
    <3>3. [g.nodes[t] EXCEPT !.fading = FALSE, !.sliding = FALSE] = g.nodes[t] BY <3>1, <2>6, <1>5
    <3> HIDE DEF s
    <3> QED BY <3>1, <3>2, <3>3, <2>5
  <2>7. ASSUME NEW c \in Cells, Site(k, c) # 0
        PROVE  \E j \in 1..Len(sites) : sites[j] = Site(k, c)
    <3>1. CASE c = i BY <3>1, <2>5
    <3>2. CASE c # i
      <4>1. Site(k, c) = Site(h, c) BY <3>2, <2>5, <2>7, <1>11
      <4> QED BY <4>1, <2>7, <1>1
    <3> QED BY <3>1, <3>2
  <2>8. Kin(k, g, sites) BY <2>5, <2>6, <2>7 DEF Kin
  <2>9. ASSUME \A c \in 1..i - 1 : Site(h, c) = sites[c], NEW c \in 1..i
        PROVE  Site(k, c) = sites[c]
    <3>1. c \in Cells /\ (c = i \/ (c \in 1..i - 1 /\ c # i)) BY <1>3
    <3>2. CASE c = i BY <3>1, <3>2, <2>5
    <3>3. CASE c \in 1..i - 1 /\ c # i
      <4>1. Site(e, c) = sites[c] BY <3>1, <3>3, <2>9, <1>11
      <4>2. c \in 1..Len(sites) BY <1>3
      <4>3. sites[c] # s BY <4>2, <3>3, <1>2, <1>16
      <4> QED BY <3>1, <3>3, <4>1, <4>3, <2>5
    <3> QED BY <3>1, <3>2, <3>3
  <2> QED BY <2>8, <2>9 DEF k
<1> QED BY <1>14, <1>15, <1>16

\* _moveSiteNodes puts every site where it belongs and leaves the other cells empty.
LEMMA MoveSiteNodesInPlace ==
  ASSUME NEW g, Sound(g), NEW sites, Movable(g, sites), Kin(g, g, sites)
  PROVE  Kin(MoveSiteNodes(g, sites), g, sites) /\ InPlace(MoveSiteNodes(g, sites), sites)
<1> DEFINE n == Len(sites)
           T == {h \in Grid : Kin(h, g, sites)}
           Is(f) == f = [i \in 0..n |-> IF i = 0 THEN g ELSE MoveToCell(f[i - 1], i, sites[i])]
           moved[i \in 0..n] == IF i = 0 THEN g ELSE MoveToCell(moved[i - 1], i, sites[i])
           step == [i \in 1..n |-> [h \in T |-> MoveToCell(h, i, sites[i])]]
<1>1. n \in Nat /\ N \in Nat /\ n <= N
  <2>1. sites \in Seq(Nat) /\ n <= N BY DEF Movable
  <2> QED BY <2>1, LenProperties, ConstantsAssumption
<1>2. \A h : Kin(h, g, sites) => h \in Grid BY DEF Kin, Sound
<1>3. g \in T BY <1>2
<1>4. step \in [1..n -> [T -> T]]
  <2>1. ASSUME NEW i \in 1..n, NEW h \in T PROVE MoveToCell(h, i, sites[i]) \in T
    <3>1. Kin(h, g, sites) OBVIOUS
    <3>2. Kin(MoveToCell(h, i, sites[i]), g, sites) BY <3>1, MoveOne
    <3> QED BY <3>2, <1>2
  <2> HIDE DEF T, n
  <2> QED BY <2>1
<1>5. PICK f \in [0..n -> T] : f[0] = g /\ \A i \in 1..n : f[i] = step[i][f[i - 1]]
  <2> HIDE DEF step, n, Is, moved, T
  <2>1. \E f : Steps(f, T, g, n, step) BY <1>1, <1>3, <1>4, StepsExist
  <2> QED BY <2>1 DEF Steps
<1>6. \A i \in 1..n : f[i] = MoveToCell(f[i - 1], i, sites[i]) /\ f[i - 1] \in T
  <2> SUFFICES ASSUME NEW i \in 1..n
               PROVE  f[i] = MoveToCell(f[i - 1], i, sites[i]) /\ f[i - 1] \in T
    OBVIOUS
  <2> HIDE DEF n, T
  <2>1. i - 1 \in 0..n /\ f[i - 1] \in T BY <1>1, <1>5
  <2>2. f[i] = step[i][f[i - 1]]
    <3> HIDE DEF step
    <3> QED BY <1>5
  <2> QED BY <2>1, <2>2
<1> HIDE DEF step
<1>7. Is(f)
  <2> HIDE DEF n, T
  <2>1. ASSUME NEW i \in 0..n
        PROVE  f[i] = IF i = 0 THEN g ELSE MoveToCell(f[i - 1], i, sites[i])
    <3>1. CASE i = 0 BY <1>5, <3>1
    <3>2. CASE i # 0
      <4>1. i \in 1..n BY <1>1, <3>2
      <4> QED BY <3>2, <4>1, <1>6
    <3> QED BY <3>1, <3>2
  <2> QED BY <2>1, <1>5
<1>8. moved = CHOOSE h : Is(h) OBVIOUS
<1>9. Is(moved)
  <2> HIDE DEF Is, moved
  <2> QED BY <1>7, <1>8
<1>10. MoveSiteNodes(g, sites) = moved[n] BY DEF MoveSiteNodes
<1>11. \A i \in 0..n : moved[i] = IF i = 0 THEN g ELSE MoveToCell(moved[i - 1], i, sites[i])
  <2>1. moved = [i \in 0..n |-> IF i = 0 THEN g ELSE MoveToCell(moved[i - 1], i, sites[i])]
    BY <1>9
  <2> HIDE DEF moved, Is
  <2> QED BY <2>1
<1> HIDE DEF moved, Is, T
<1> DEFINE Good == {i \in 0..n : Kin(moved[i], g, sites) /\ \A c \in 1..i : Site(moved[i], c) = sites[c]}
<1>12. 0 \in Good
  <2>1. moved[0] = g BY <1>1, <1>11
  <2> QED BY <2>1, <1>1
<1>13. ASSUME NEW i \in 1..n, i - 1 \in Good PROVE i \in Good
  <2>1. PICK h : h = moved[i - 1] OBVIOUS
  <2>2. moved[i] = MoveToCell(h, i, sites[i]) BY <2>1, <1>1, <1>11
  <2>3. Kin(h, g, sites) /\ \A c \in 1..i - 1 : Site(h, c) = sites[c] BY <2>1, <1>13
  <2>4. /\ Kin(MoveToCell(h, i, sites[i]), g, sites)
        /\ \A c \in 1..i : Site(MoveToCell(h, i, sites[i]), c) = sites[c]
    BY <2>3, MoveOne
  <2> QED BY <2>2, <2>4
<1>14. n \in Good
  <2> HIDE DEF Good, n
  <2>1. \A i \in 0..n : i \in Good BY <1>1, <1>12, <1>13, IntervalInduction
  <2> QED BY <2>1, <1>1
<1>15. PICK h : h = MoveSiteNodes(g, sites) OBVIOUS
<1>16. Kin(h, g, sites) /\ \A c \in 1..n : Site(h, c) = sites[c] BY <1>10, <1>14, <1>15
<1>17. ASSUME NEW c \in Cells, c \notin 1..n, Site(h, c) # 0 PROVE FALSE
  <2>1. PICK i \in 1..n : sites[i] = Site(h, c) BY <1>16, <1>17 DEF Kin
  <2>2. i \in Cells /\ Site(h, i) = Site(h, c) BY <2>1, <1>1, <1>16 DEF Cells
  <2>3. Sound(h) BY <1>16 DEF Kin
  <2>4. i = c BY <2>2, <2>3, <1>17, SoundSites
  <2> QED BY <2>4, <1>17
<1> QED BY <1>15, <1>16, <1>17 DEF InPlace

\* A grid with the cells of g is sound as g is, and holds the same nodes.
LEMMA SameCells ==
  ASSUME NEW g, Sound(g), NEW h \in Grid, h.cells = g.cells, Len(h.nodes) = Len(g.nodes)
  PROVE  /\ Sound(h) /\ Attached(h) = Attached(g)
         /\ \A c \in Cells : Site(h, c) = Site(g, c)
<1>1. \A c \in Cells : Site(h, c) = Site(g, c) BY DEF Site
<1>2. Places(g, SiteAt(g)) BY DEF Sound
<1>3. Places(h, SiteAt(g)) BY <1>2 DEF Places
<1>4. Sound(h) BY <1>3, PlacesAreSites
<1>5. Attached(h) = Attached(g) BY DEF Attached
<1> QED BY <1>1, <1>4, <1>5

\* One update of a grid changes.
LEMMA UpdateChanges ==
  ASSUME NEW us \in Seq(UpdateRecord), NEW u \in 1..Len(us), NEW r \in UpdateRecord
  PROVE  LET vs == [us EXCEPT ![u] = r]
         IN /\ vs \in Seq(UpdateRecord) /\ Len(vs) = Len(us) /\ vs[u] = r
            /\ \A v \in 1..Len(us) : v # u => vs[v] = us[v]
<1> DEFINE vs == [us EXCEPT ![u] = r]
<1>1. Len(us) \in Nat /\ us \in [1..Len(us) -> UpdateRecord] BY SeqIsFunction
<1>2. vs \in [1..Len(us) -> UpdateRecord] BY <1>1
<1>3. vs[u] = r /\ \A v \in 1..Len(us) : v # u => vs[v] = us[v] BY <1>1
<1> HIDE DEF vs
<1>4. vs \in Seq(UpdateRecord) /\ Len(vs) = Len(us) BY <1>1, <1>2, FunctionIsSeq
<1> QED BY <1>3, <1>4 DEF vs

\* The updates before u are done.
EarlierDone(g, u) == \A v \in 1..u - 1 : g.updates[v].done /\ g.updates[v].waiting = 0

Ended(h, ls, u) == Sound(h) /\ Rest(h, {}) /\ Shows(h, ls) /\ Len(h.updates) = u
Going(h, ls, u) ==
  /\ Sound(h) /\ (Fading(h, {}) \/ Sliding(h, {}))
  /\ Latest(h).links = ls /\ Len(h.updates) = u

\* What comes of update u: it goes on, or has ended.
Outcome(h, ls, u) == Going(h, ls, u) \/ Ended(h, ls, u)

\* _fillEmptyCells leaves a grid at rest that shows the links of the update.
LEMMA FillEmptyCellsEnds ==
  ASSUME NEW g, Sound(g), NEW u, u = Len(g.updates), u # 0, EarlierDone(g, u),
         g.updates[u].waiting = 0, \A s \in Attached(g) : Settled(g.nodes[s]),
         SitesFound(g, g.updates[u].links, g.updates[u].sites), InPlace(g, g.updates[u].sites)
  PROVE  Ended(FillEmptyCells(g, u), g.updates[u].links, u)
<1> DEFINE r == g.updates[u]
           done == [r EXCEPT !.done = TRUE]
           k == [g EXCEPT !.updates[u].done = TRUE]
           ls == r.links
           h == FillEmptyCells(g, u)
<1>1. /\ g \in Grid /\ u \in Nat /\ DOMAIN g.updates = 1..u /\ g.updates \in Seq(UpdateRecord)
      /\ \A v \in 1..u : g.updates[v] \in UpdateRecord
  <2>1. g \in Grid BY DEF Sound
  <2> QED BY <2>1, SoundSites DEF Grid
<1>2. u \in 1..Len(g.updates) /\ r \in UpdateRecord BY <1>1
<1>3. done \in UpdateRecord /\ done.done /\ done.waiting = 0 /\ ls \in LinkList
  BY <1>2 DEF UpdateRecord
<1>4. PICK vs : vs = [g.updates EXCEPT ![u] = done] OBVIOUS
<1>5. /\ vs \in Seq(UpdateRecord) /\ Len(vs) = u /\ vs[u] = done
      /\ \A v \in 1..u : v # u => vs[v] = g.updates[v]
  <2> HIDE DEF done
  <2> QED BY <1>1, <1>2, <1>3, <1>4, UpdateChanges
<1>6. k = [g EXCEPT !.updates = vs] BY <1>1, <1>4 DEF Grid
<1>7. h = FillIn(k, ls, TRUE) BY DEF FillEmptyCells
<1> HIDE DEF done, k, h
<1>8. k \in Grid /\ k.cells = g.cells /\ k.nodes = g.nodes /\ k.updates = vs
  BY <1>1, <1>5, <1>6 DEF Grid
<1>9. Sound(k) /\ Attached(k) = Attached(g) /\ \A c \in Cells : Site(k, c) = Site(g, c)
  BY <1>8, SameCells
<1>10. AllDone(k)
  <2> SUFFICES ASSUME NEW v \in DOMAIN k.updates PROVE k.updates[v].done /\ k.updates[v].waiting = 0
    BY DEF AllDone
  <2>1. DOMAIN vs = 1..u BY <1>1, <1>5, LenProperties
  <2>2. v \in 1..u BY <2>1, <1>8
  <2>3. CASE v = u BY <2>3, <1>3, <1>5, <1>8
  <2>4. CASE v # u
    <3>1. v \in 1..u - 1 BY <2>2, <2>4, <1>1
    <3>2. k.updates[v] = g.updates[v] BY <2>2, <2>4, <1>5, <1>8
    <3> QED BY <3>1, <3>2 DEF EarlierDone
  <2> QED BY <2>3, <2>4
<1>11. \A s \in Attached(k) : Settled(k.nodes[s]) BY <1>8, <1>9
<1>12. ASSUME NEW c \in Cells, Site(k, c) # 0
       PROVE  c \in 1..Len(ls) /\ ls[c] # None /\ k.nodes[Site(k, c)].url = ls[c]
  <2>1. c \in 1..Len(r.sites) /\ Site(k, c) = r.sites[c] BY <1>9, <1>12 DEF InPlace
  <2>2. Len(r.sites) = Len(ls) BY DEF SitesFound
  <2>3. c \in 1..Len(ls) BY <2>1, <2>2
  <2>4. ls[c] # None /\ g.nodes[r.sites[c]].url = ls[c] BY <2>1, <2>3, <1>12 DEF SitesFound
  <2> QED BY <2>1, <2>3, <2>4, <1>8
<1>13. FilledIn(h, k, ls) BY <1>3, <1>7, <1>9, FillInFills
<1>14. Sound(h) /\ Rest(h, {}) /\ Shows(h, ls)
  <2> HIDE DEF ls
  <2> QED BY <1>3, <1>9, <1>10, <1>11, <1>12, <1>13, FilledRests
<1>15. Len(h.updates) = u BY <1>5, <1>8, <1>13 DEF FilledIn
<1> QED BY <1>14, <1>15 DEF Ended, h

\* A node on which nothing is done
Resting(n) ==
  /\ n.opacity = 1 /\ ~n.fading /\ n.onFade = <<>>
  /\ ~n.frozen /\ ~n.sliding /\ n.onSlide = <<>>

\* A node that is frozen and not yet sent anywhere
Held(n) ==
  /\ n.opacity = 1 /\ ~n.fading /\ n.onFade = <<>>
  /\ n.frozen /\ ~n.sliding /\ n.onSlide = <<>>

\* A node that slides for update u, or is free again
Sent(n, u) ==
  /\ n.opacity = 1 /\ ~n.fading /\ n.onFade = <<>>
  /\ IF n.frozen THEN n.sliding /\ n.onSlide = <<SlideOf(u)>> ELSE ~n.sliding /\ n.onSlide = <<>>

\* f is g with its sites frozen.
Freezing(f, g) ==
  /\ Sound(f) /\ f.updates = g.updates /\ Len(f.nodes) = Len(g.nodes)
  /\ \A c \in Cells : Site(f, c) = Site(g, c)
  /\ Attached(f) = Attached(g)
  /\ \A s \in Attached(g) : Held(f.nodes[s]) /\ f.nodes[s].url = g.nodes[s].url

\* freezeSitePosition touches neither cells nor links.
LEMMA FrozenAreHeld ==
  ASSUME NEW g, Sound(g), NEW sites, Attached(g) \subseteq Range(sites),
         \A s \in Attached(g) : Resting(g.nodes[s])
  PROVE  Freezing(Freeze(g, sites), g)
<1> DEFINE m == Len(g.nodes)
           Spot(s) == IF s \in Attached(g) THEN CellOf(g, s) ELSE 0
           Stuck(s) == [g.nodes[s] EXCEPT !.frozen = TRUE, !.spot = Spot(s)]
           nodes == [s \in DOMAIN g.nodes |->
                       IF s \in Range(sites) /\ ~g.nodes[s].frozen THEN Stuck(s) ELSE g.nodes[s]]
           f == Freeze(g, sites)
<1>1. /\ g \in Grid /\ m \in Nat /\ DOMAIN g.nodes = 1..m
      /\ \A s \in 1..m : g.nodes[s] \in Node
  BY SoundSites
<1>2. f = [g EXCEPT !.nodes = nodes] BY DEF Freeze
<1>3. ASSUME NEW s PROVE Spot(s) \in 0..N
  <2>1. CASE s \in Attached(g)
    <3>1. \E c \in Cells : s \in Range(g.cells[c]) BY <2>1 DEF Attached
    <3>2. CellOf(g, s) \in Cells BY <3>1 DEF CellOf
    <3> QED BY <2>1, <3>2, ConstantsAssumption DEF Cells
  <2>2. CASE s \notin Attached(g) BY <2>2, ConstantsAssumption
  <2> QED BY <2>1, <2>2
<1> HIDE DEF Spot
<1>4. \A s \in 1..m : Stuck(s) \in Node BY <1>1, <1>3 DEF Node
<1>5. nodes \in [1..m -> Node] BY <1>1, <1>4
<1>6. \A s \in Attached(g) : s \in 1..m BY AttachedAreSites
<1>7. ASSUME NEW s \in Attached(g)
      PROVE  nodes[s] = Stuck(s) /\ Held(nodes[s]) /\ nodes[s].url = g.nodes[s].url
  <2>1. s \in 1..m /\ s \in Range(sites) /\ Resting(g.nodes[s]) BY <1>6
  <2>2. nodes[s] = Stuck(s) BY <2>1, <1>1 DEF Resting
  <2>3. g.nodes[s] \in Node BY <2>1, <1>1
  <2>4. Held(Stuck(s)) /\ Stuck(s).url = g.nodes[s].url BY <2>1, <2>3 DEF Resting, Held, Node
  <2> QED BY <2>2, <2>4
<1> HIDE DEF nodes, f
<1>8. nodes \in Seq(Node) /\ Len(nodes) = m BY <1>1, <1>5, FunctionIsSeq
<1>9. f \in Grid /\ f.cells = g.cells /\ f.nodes = nodes /\ f.updates = g.updates
  BY <1>1, <1>2, <1>8 DEF Grid
<1>10. Sound(f) /\ Attached(f) = Attached(g) /\ \A c \in Cells : Site(f, c) = Site(g, c)
  BY <1>8, <1>9, SameCells
<1>11. f.updates = g.updates /\ Len(f.nodes) = Len(g.nodes) BY <1>8, <1>9
<1>12. \A s \in Attached(g) : Held(f.nodes[s]) /\ f.nodes[s].url = g.nodes[s].url BY <1>7, <1>9
<1> QED BY <1>10, <1>11, <1>12 DEF Freezing, f

\* rearrangeSites either lets a held site go or sends it on a slide.
LEMMA HeldAreSent ==
  ASSUME NEW n \in Node, Held(n), NEW c \in Cells, NEW u \in Nat
  PROVE  Rearranged(n, c, u) \in Node /\ Sent(Rearranged(n, c, u), u) /\ Rearranged(n, c, u).url = n.url
<1>1. SlideOf(u) \in Listener BY DEF SlideOf, Listener
<1>2. <<SlideOf(u)>> \in Seq(Listener) /\ Append(<<>>, SlideOf(u)) = <<SlideOf(u)>> BY <1>1
<1>3. c \in 0..N BY ConstantsAssumption DEF Cells
<1>4. n.opacity = 1 /\ ~n.fading /\ n.onFade = <<>> /\ n.frozen /\ ~n.sliding /\ n.onSlide = <<>>
  BY DEF Held
<1> DEFINE free == [n EXCEPT !.frozen = FALSE]
           sent == [n EXCEPT !.spot = c, !.sliding = TRUE, !.onSlide = <<SlideOf(u)>>]
<1>5. Rearranged(n, c, u) = IF n.spot = c THEN free ELSE sent
  <2>1. Rearranged(n, c, u) =
          IF n.spot = c /\ ~n.sliding THEN free
          ELSE [n EXCEPT !.spot = c, !.sliding = TRUE, !.onSlide = Append(n.onSlide, SlideOf(u))]
    BY <1>4 DEF Rearranged, SlideOf, Node
  <2> QED BY <2>1, <1>2, <1>4
<1>6. free \in Node /\ free.url = n.url /\ Sent(free, u) BY <1>4 DEF Node, Sent
<1>7. sent \in Node /\ sent.url = n.url /\ Sent(sent, u) BY <1>2, <1>3, <1>4 DEF Node, Sent
<1> HIDE DEF free, sent
<1> QED BY <1>5, <1>6, <1>7

\* The latest update has no legacy sites left, and nothing else is going on.
Cleared(g, u) ==
  /\ Sound(g) /\ u = Len(g.updates) /\ u # 0 /\ EarlierDone(g, u)
  /\ ~g.updates[u].done /\ g.updates[u].waiting = 0
  /\ SitesFound(g, g.updates[u].links, g.updates[u].sites)
  /\ \A s \in Attached(g) : Resting(g.nodes[s]) /\ s \in Range(g.updates[u].sites)

\* The sites of a list of links are different.
Different(ls, sites) ==
  /\ sites \in Seq(Nat) /\ Len(sites) = Len(ls) /\ DOMAIN sites = 1..Len(ls)
  /\ \A i, j \in 1..Len(ls) : sites[i] = sites[j] /\ sites[i] # 0 => i = j
  /\ \A s : s \in Range(sites) <=> \E i \in 1..Len(ls) : sites[i] = s

\* Different links have different sites.
LEMMA SitesDiffer ==
  ASSUME NEW g, NEW ls \in LinkList, NEW sites, SitesFound(g, ls, sites)
  PROVE  Different(ls, sites)
<1>1. sites \in Seq(Nat) /\ Len(sites) = Len(ls)
      /\ \A i \in 1..Len(ls) :
           sites[i] # 0 => ls[i] # None /\ g.nodes[sites[i]].url = ls[i]
  BY DEF SitesFound
<1>2. DOMAIN sites = 1..Len(ls) BY <1>1, LenProperties
<1>3. \A i, j \in 1..Len(ls) : ls[i] = ls[j] /\ ls[i] # None => i = j BY LinkPlaces
<1>4. ASSUME NEW i \in 1..Len(ls), NEW j \in 1..Len(ls), sites[i] = sites[j], sites[i] # 0
      PROVE  i = j
  BY <1>1, <1>3, <1>4
<1>5. \A s : s \in Range(sites) <=> \E i \in 1..Len(ls) : sites[i] = s BY <1>2 DEF Range
<1> QED BY <1>1, <1>2, <1>4, <1>5 DEF Different

\* Once its legacy sites are gone the update moves what remains, and waits for
\* what slides or is done.
LEMMA MoveAndRearrangeGoesOn ==
  ASSUME NEW g, NEW u, Cleared(g, u)
  PROVE  Outcome(MoveAndRearrange(g, u), g.updates[u].links, u)
<1> DEFINE r == g.updates[u]
           ls == r.links
           sites == r.sites
           f == Freeze(g, sites)
           h == MoveSiteNodes(f, sites)
           Place(s) == CHOOSE i \in DOMAIN sites : sites[i] = s
           nodes == [s \in DOMAIN h.nodes |->
                       IF s \in Range(sites) THEN Rearranged(h.nodes[s], Place(s), u) ELSE h.nodes[s]]
           waiting == {s \in Range(sites) \ {0} : nodes[s].fading \/ nodes[s].sliding}
           after == [r EXCEPT !.moving = TRUE, !.waiting = Cardinality(waiting)]
           j == [h EXCEPT !.nodes = nodes, !.updates[u].moving = TRUE,
                          !.updates[u].waiting = Cardinality(waiting)]
<1>1. /\ Sound(g) /\ u = Len(g.updates) /\ u # 0 /\ EarlierDone(g, u) /\ ~r.done /\ r.waiting = 0
      /\ SitesFound(g, ls, sites)
      /\ \A s \in Attached(g) : Resting(g.nodes[s]) /\ s \in Range(sites)
  BY DEF Cleared
<1>2. /\ g \in Grid /\ g.updates \in Seq(UpdateRecord) /\ u \in Nat /\ u \in 1..u
      /\ r \in UpdateRecord /\ ls \in LinkList
      /\ Len(g.nodes) \in Nat /\ \A s \in 1..Len(g.nodes) : g.nodes[s] \in Node
  <2>1. g \in Grid /\ u \in Nat /\ \A v \in 1..u : g.updates[v] \in UpdateRecord
    BY <1>1, SoundSites
  <2>2. u \in 1..u BY <2>1, <1>1
  <2>3. r \in UpdateRecord BY <2>1, <2>2
  <2>4. Len(g.nodes) \in Nat /\ \A s \in 1..Len(g.nodes) : g.nodes[s] \in Node
    BY <1>1, SoundSites
  <2> QED BY <2>1, <2>2, <2>3, <2>4 DEF Grid, UpdateRecord
<1>3. MoveAndRearrange(g, u) = IF waiting = {} THEN FillEmptyCells(j, u) ELSE j
  BY DEF MoveAndRearrange
<1>4. /\ sites \in Seq(Nat) /\ Len(sites) = Len(ls) /\ DOMAIN sites = 1..Len(ls)
      /\ \A i, k \in 1..Len(ls) : sites[i] = sites[k] /\ sites[i] # 0 => i = k
      /\ \A s : s \in Range(sites) <=> \E i \in 1..Len(ls) : sites[i] = s
  <2>1. Different(ls, sites)
    <3> HIDE DEF ls, sites
    <3> QED BY <1>1, <1>2, SitesDiffer
  <2> QED BY <2>1 DEF Different
<1>5. Len(ls) \in 0..N /\ 1..Len(ls) \subseteq Cells BY <1>2, LinkPlaces
<1>6. \A i \in 1..Len(ls) : sites[i] # 0 =>
        sites[i] \in Attached(g) /\ ls[i] # None /\ g.nodes[sites[i]].url = ls[i]
  BY <1>1 DEF SitesFound
<1>7. \A s \in Attached(g) : s # 0 /\ s \in 1..Len(g.nodes) BY <1>1, AttachedAreSites
<1>8. /\ Sound(f) /\ f.updates = g.updates /\ Len(f.nodes) = Len(g.nodes)
      /\ \A c \in Cells : Site(f, c) = Site(g, c)
      /\ Attached(f) = Attached(g)
      /\ \A s \in Attached(g) : Held(f.nodes[s]) /\ f.nodes[s].url = g.nodes[s].url
  <2>1. Attached(g) \subseteq Range(sites) /\ \A s \in Attached(g) : Resting(g.nodes[s]) BY <1>1
  <2>2. Freezing(f, g)
    <3> HIDE DEF sites
    <3> QED BY <2>1, <1>1, FrozenAreHeld
  <2> HIDE DEF f
  <2> QED BY <2>2 DEF Freezing
<1> HIDE DEF f
<1>9. Movable(f, sites)
  <2>1. ASSUME NEW i \in 1..Len(ls)
        PROVE  /\ sites[i] \in 0..Len(f.nodes)
               /\ sites[i] # 0 => ~f.nodes[sites[i]].fading /\ ~f.nodes[sites[i]].sliding
    <3>1. CASE sites[i] = 0 BY <3>1, <1>2, <1>8
    <3>2. CASE sites[i] # 0
      <4>1. sites[i] \in Attached(g) BY <3>2, <1>6
      <4>2. PICK s \in 1..Len(g.nodes) : s = sites[i] BY <4>1, <1>7
      <4>3. s \in 0..Len(f.nodes) BY <4>2, <1>2, <1>8
      <4>4. Held(f.nodes[s]) BY <4>1, <4>2, <1>8
      <4> QED BY <4>2, <4>3, <4>4 DEF Held
    <3> QED BY <3>1, <3>2
  <2>2. Len(sites) <= N BY <1>4, <1>5, ConstantsAssumption
  <2> QED BY <2>1, <2>2, <1>4 DEF Movable
<1>10. Kin(f, f, sites)
  <2>1. ASSUME NEW c \in Cells, Site(f, c) # 0
        PROVE  \E i \in 1..Len(sites) : sites[i] = Site(f, c)
    <3>1. Site(f, c) \in Attached(g) BY <2>1, <1>8, AttachedAreSites
    <3>2. Site(f, c) \in Range(sites) BY <3>1, <1>1
    <3> QED BY <3>2, <1>4
  <2> QED BY <2>1, <1>8 DEF Kin
<1>11. Kin(h, f, sites) /\ InPlace(h, sites)
  <2> HIDE DEF sites
  <2> QED BY <1>8, <1>9, <1>10, MoveSiteNodesInPlace
<1> HIDE DEF h
<1>12. /\ Sound(h) /\ h.updates = g.updates /\ Len(h.nodes) = Len(g.nodes)
       /\ \A i \in 1..Len(ls) : sites[i] # 0 => h.nodes[sites[i]] = f.nodes[sites[i]]
       /\ \A c \in Cells : Site(h, c) = IF c \in 1..Len(ls) THEN sites[c] ELSE 0
  BY <1>4, <1>8, <1>11 DEF Kin, InPlace
<1>13. /\ h \in Grid /\ DOMAIN h.nodes = 1..Len(g.nodes)
       /\ \A s \in 1..Len(g.nodes) : h.nodes[s] \in Node
  BY <1>12, SoundSites
<1>14. \A s : s \in Attached(h) <=> s \in Range(sites) /\ s # 0
  <2>1. \A s : s \in Attached(h) <=> s # 0 /\ \E c \in Cells : Site(h, c) = s
    BY <1>12, AttachedAreSites
  <2> HIDE DEF sites
  <2>2. ASSUME NEW s, s # 0, NEW c \in Cells, Site(h, c) = s PROVE s \in Range(sites)
    BY <2>2, <1>4, <1>12
  <2>3. ASSUME NEW s \in Range(sites), s # 0 PROVE \E c \in Cells : Site(h, c) = s
    <3>1. PICK i \in 1..Len(ls) : sites[i] = s BY <2>3, <1>4
    <3> QED BY <3>1, <1>5, <1>12
  <2> QED BY <2>1, <2>2, <2>3
<1>15. ASSUME NEW s \in Range(sites)
       PROVE  Place(s) \in Cells
  <2>1. \E i \in DOMAIN sites : sites[i] = s BY DEF Range
  <2>2. Place(s) \in DOMAIN sites BY <2>1
  <2> HIDE DEF Place
  <2> QED BY <2>2, <1>4, <1>5
<1> HIDE DEF Place
<1>16. ASSUME NEW s \in Attached(h)
       PROVE  /\ s \in 1..Len(g.nodes) /\ s \in Range(sites) /\ Held(h.nodes[s])
              /\ s \in Attached(g) /\ h.nodes[s].url = g.nodes[s].url
  <2>1. s \in Range(sites) /\ s # 0 BY <1>14
  <2>2. PICK i \in 1..Len(ls) : sites[i] = s BY <2>1, <1>4
  <2>3. s \in Attached(g) BY <2>1, <2>2, <1>6
  <2>4. h.nodes[s] = f.nodes[s] BY <2>1, <2>2, <1>12
  <2> QED BY <2>1, <2>3, <2>4, <1>7, <1>8
<1>17. ASSUME NEW s \in Attached(h)
       PROVE  /\ nodes[s] \in Node /\ Sent(nodes[s], u) /\ nodes[s].url = g.nodes[s].url
  <2>1. PICK n \in Node : n = h.nodes[s] BY <1>13, <1>16
  <2>2. PICK c \in Cells : c = Place(s) BY <1>15, <1>16
  <2>3. nodes[s] = Rearranged(n, c, u) BY <2>1, <2>2, <1>13, <1>16
  <2>4. Held(n) /\ n.url = g.nodes[s].url BY <2>1, <1>16
  <2>5. Rearranged(n, c, u) \in Node /\ Sent(Rearranged(n, c, u), u) /\ Rearranged(n, c, u).url = n.url
    BY <2>4, <1>2, HeldAreSent
  <2> QED BY <2>3, <2>4, <2>5
<1>18. nodes \in [1..Len(g.nodes) -> Node]
  <2>1. ASSUME NEW s \in 1..Len(g.nodes) PROVE nodes[s] \in Node
    <3>1. CASE s \in Range(sites)
      <4>1. s # 0 BY <1>2
      <4> QED BY <3>1, <4>1, <1>14, <1>17
    <3>2. CASE s \notin Range(sites) BY <3>2, <1>13
    <3> QED BY <3>1, <3>2
  <2>2. nodes = [s \in 1..Len(g.nodes) |-> nodes[s]] BY <1>13
  <2> HIDE DEF nodes
  <2> QED BY <2>1, <2>2
<1> HIDE DEF nodes
<1>19. nodes \in Seq(Node) /\ Len(nodes) = Len(g.nodes) BY <1>2, <1>18, FunctionIsSeq
<1>20. waiting = {s \in Attached(h) : nodes[s].frozen}
  <2>1. ASSUME NEW s PROVE s \in waiting <=> s \in Attached(h) /\ nodes[s].frozen
    <3>1. s \in Attached(h) => (nodes[s].frozen <=> nodes[s].fading \/ nodes[s].sliding)
      BY <1>17 DEF Sent
    <3> QED BY <3>1, <1>14
  <2> HIDE DEF waiting
  <2> QED BY <2>1
<1>21. IsFiniteSet(waiting) /\ Cardinality(waiting) \in Nat /\ (waiting # {} => Cardinality(waiting) > 0)
       /\ (waiting = {} => Cardinality(waiting) = 0)
  <2>1. IsFiniteSet(Attached(h)) BY <1>12, AttachedAreSites
  <2>2. waiting \subseteq Attached(h) BY <1>20
  <2> HIDE DEF waiting
  <2>3. IsFiniteSet(waiting) BY <2>1, <2>2, FS_Subset
  <2>4. Cardinality(waiting) \in Nat BY <2>3, FS_CardinalityType
  <2>5. Cardinality(waiting) = 0 <=> waiting = {} BY <2>3, FS_EmptySet
  <2> QED BY <2>3, <2>4, <2>5
<1> HIDE DEF waiting
<1>22. after \in UpdateRecord /\ after.links = ls /\ after.sites = sites /\ ~after.done /\ after.moving
       /\ after.waiting = Cardinality(waiting)
  BY <1>1, <1>2, <1>21 DEF UpdateRecord
<1>23. PICK vs : vs = [g.updates EXCEPT ![u] = after] OBVIOUS
<1>24. /\ vs \in Seq(UpdateRecord) /\ Len(vs) = u /\ vs[u] = after
       /\ \A v \in 1..u : v # u => vs[v] = g.updates[v]
  <2> HIDE DEF after
  <2>1. u \in 1..Len(g.updates) BY <1>1, <1>2
  <2> QED BY <2>1, <1>1, <1>2, <1>22, <1>23, UpdateChanges
<1>25. j = [h EXCEPT !.nodes = nodes, !.updates = vs]
  <2>1. DOMAIN g.updates = 1..u BY <1>1, SoundSites
  <2> QED BY <2>1, <1>2, <1>12, <1>13, <1>23 DEF Grid, UpdateRecord
<1> HIDE DEF after, j
<1>26. j \in Grid /\ j.cells = h.cells /\ j.nodes = nodes /\ j.updates = vs
  BY <1>13, <1>19, <1>24, <1>25 DEF Grid
<1>27. Sound(j) /\ Attached(j) = Attached(h) /\ \A c \in Cells : Site(j, c) = Site(h, c)
  BY <1>12, <1>19, <1>26, SameCells
<1>28. InPlace(j, sites) BY <1>4, <1>12, <1>27 DEF InPlace
<1>29. SitesFound(j, ls, sites)
  <2>1. ASSUME NEW i \in 1..Len(ls), sites[i] # 0
        PROVE  sites[i] \in Attached(j) /\ ls[i] # None /\ j.nodes[sites[i]].url = ls[i]
    <3>1. sites[i] \in Attached(j) BY <2>1, <1>4, <1>14, <1>27
    <3>2. nodes[sites[i]].url = g.nodes[sites[i]].url BY <3>1, <1>17, <1>27
    <3> QED BY <2>1, <3>1, <3>2, <1>6, <1>26
  <2> QED BY <2>1, <1>4 DEF SitesFound
<1>30. EarlierDone(j, u)
  <2> SUFFICES ASSUME NEW v \in 1..u - 1 PROVE j.updates[v].done /\ j.updates[v].waiting = 0
    BY DEF EarlierDone
  <2>1. v \in 1..u /\ v # u BY <1>2
  <2>2. j.updates[v] = g.updates[v] BY <2>1, <1>24, <1>26
  <2> QED BY <2>2, <1>1 DEF EarlierDone
<1>31. j.updates[u] = after /\ Len(j.updates) = u /\ Latest(j) = after BY <1>24, <1>26 DEF Latest
<1>32. CASE waiting # {}
  <2>1. MoveAndRearrange(g, u) = j BY <1>3, <1>32
  <2>2. j.updates # <<>> BY <1>1, <1>31
  <2>3. InProgress(j) BY <2>2, <1>21, <1>22, <1>29, <1>30, <1>31, <1>32 DEF InProgress, EarlierDone
  <2>4. Frozen(j) = waiting BY <1>20, <1>26, <1>27 DEF Frozen
  <2>5. ASSUME NEW s \in Attached(j) PROVE Slides(j, j.nodes[s], s, {})
    <3>1. Sent(j.nodes[s], u) BY <1>17, <1>26, <1>27
    <3> QED BY <3>1, <1>31 DEF Sent, Slides
  <2>6. Sliding(j, {}) BY <2>3, <2>4, <2>5, <1>22, <1>28, <1>31 DEF Sliding
  <2>7. Going(j, ls, u) BY <2>6, <1>22, <1>27, <1>31 DEF Going
  <2> QED BY <2>1, <2>7 DEF Outcome
<1>33. CASE waiting = {}
  <2>1. MoveAndRearrange(g, u) = FillEmptyCells(j, u) BY <1>3, <1>33
  <2>2. j.updates[u].waiting = 0 /\ j.updates[u].links = ls /\ j.updates[u].sites = sites
    BY <1>21, <1>22, <1>31, <1>33
  <2>3. ASSUME NEW s \in Attached(j) PROVE Settled(j.nodes[s])
    <3>1. Sent(nodes[s], u) /\ ~nodes[s].frozen BY <1>17, <1>20, <1>27, <1>33
    <3> QED BY <3>1, <1>26 DEF Sent, Settled
  <2>4. Ended(FillEmptyCells(j, u), j.updates[u].links, u)
    <3> HIDE DEF ls, sites
    <3> QED BY <2>2, <2>3, <1>1, <1>27, <1>28, <1>29, <1>30, <1>31, FillEmptyCellsEnds
  <2> QED BY <2>1, <2>2, <2>4 DEF Outcome
<1> QED BY <1>32, <1>33

\* _findRemainingSites finds the nodes of the links it looks for.
LEMMA RemainingAreFound ==
  ASSUME NEW g, Sound(g), NEW ls \in LinkList
  PROVE  SitesFound(g, ls, RemainingSites(g, ls))
<1> DEFINE Same(i) == {c \in Cells : Site(g, c) # 0 /\ g.nodes[Site(g, c)].url = ls[i]}
           sites == RemainingSites(g, ls)
<1>1. Len(ls) \in Nat /\ DOMAIN ls = 1..Len(ls)
  <2>1. Len(ls) \in 0..N /\ DOMAIN ls = 1..Len(ls) BY LinkPlaces
  <2> QED BY <2>1, ConstantsAssumption
<1>2. sites = [i \in 1..Len(ls) |->
                 IF ls[i] = None \/ Same(i) = {} THEN 0 ELSE Site(g, Max(Same(i)))]
  BY <1>1 DEF RemainingSites
<1>3. ASSUME NEW i \in 1..Len(ls), Same(i) # {} PROVE Max(Same(i)) \in Same(i)
  <2>1. Same(i) \in SUBSET Nat /\ N \in Nat /\ \A k \in Same(i) : k <= N
    BY ConstantsAssumption DEF Cells
  <2>2. PICK S : S = Same(i) OBVIOUS
  <2> HIDE DEF Same
  <2> QED BY <1>3, <2>1, <2>2, MaxOfSet
<1>4. \A c \in Cells : Site(g, c) \in Nat
  <2> SUFFICES ASSUME NEW c \in Cells PROVE Site(g, c) \in Nat OBVIOUS
  <2>1. Site(g, c) \in 0..Len(g.nodes) BY SoundSites
  <2> QED BY <2>1
<1>5. ASSUME NEW i \in 1..Len(ls), NEW s, s = sites[i]
      PROVE  /\ s \in Nat
             /\ s # 0 => s \in Attached(g) /\ ls[i] # None /\ g.nodes[s].url = ls[i]
  <2>1. CASE ls[i] = None \/ Same(i) = {} BY <2>1, <1>2, <1>5
  <2>2. CASE ls[i] # None /\ Same(i) # {}
    <3>1. PICK c \in Same(i) : c = Max(Same(i)) BY <2>2, <1>3
    <3>2. c \in Cells /\ Site(g, c) # 0 /\ g.nodes[Site(g, c)].url = ls[i] OBVIOUS
    <3>3. s = Site(g, c) BY <2>2, <3>1, <1>2, <1>5
    <3>4. s \in Attached(g) BY <3>2, <3>3, AttachedAreSites
    <3> QED BY <2>2, <3>2, <3>3, <3>4, <1>4
  <2> QED BY <2>1, <2>2
<1> HIDE DEF Same
<1>6. sites \in [1..Len(ls) -> Nat] BY <1>2, <1>5
<1> HIDE DEF sites
<1>7. sites \in Seq(Nat) /\ Len(sites) = Len(ls) BY <1>1, <1>6, FunctionIsSeq
<1> QED BY <1>5, <1>7 DEF SitesFound, sites

\* A node of a grid at rest that does not move takes no part in anything.
LEMMA SettledRests ==
  ASSUME NEW n, Settled(n), ~n.fading
  PROVE  Resting(n)
BY DEF Settled, Resting

\* The sizes of a finite set
LEMMA SizeOf ==
  ASSUME NEW S, IsFiniteSet(S)
  PROVE  /\ Cardinality(S) \in Nat /\ (Cardinality(S) = 0 <=> S = {})
         /\ (S # {} => Cardinality(S) > 0)
         /\ \A x \in S : Cardinality(S \ {x}) = Cardinality(S) - 1
<1>1. Cardinality(S) \in Nat BY FS_CardinalityType
<1>2. Cardinality(S) = 0 <=> S = {} BY FS_EmptySet
<1>3. \A x \in S : Cardinality(S \ {x}) = Cardinality(S) - 1 BY FS_RemoveElement
<1> QED BY <1>1, <1>2, <1>3

\* updateGrid on a page at rest: the update waits for its legacy sites, for those
\* that slide, or ends at once.
LEMMA UpdateGridStarts ==
  ASSUME NEW g, Sound(g), Rest(g, {}), ~Moving(g), NEW ls \in LinkList
  PROVE  Outcome(UpdateGrid(g, ls), ls, Len(g.updates) + 1)
<1> DEFINE sites == RemainingSites(g, ls)
           legacy == Sites(g) \ Range(sites)
           gone == {s \in legacy : g.nodes[s].opacity = 0 /\ ~g.nodes[s].fading}
           u == Len(g.updates) + 1
           h == Detach(g, gone)
           Hidden(s) == [h.nodes[s] EXCEPT !.opacity = 0, !.fading = TRUE,
                                           !.onFade = Append(@, [kind |-> "remove", update |-> u])]
           nodes == [s \in DOMAIN h.nodes |-> IF s \in legacy \ gone THEN Hidden(s) ELSE h.nodes[s]]
           new == [links |-> ls, sites |-> sites, moving |-> FALSE, done |-> FALSE,
                   waiting |-> Cardinality(legacy \ gone)]
           k == [h EXCEPT !.nodes = nodes, !.updates = Append(h.updates, new)]
<1>1. UpdateGrid(g, ls) = Continue(k, u) BY DEF UpdateGrid
<1>2. /\ g \in Grid /\ g.updates \in Seq(UpdateRecord) /\ Len(g.updates) \in Nat
      /\ DOMAIN g.updates = 1..Len(g.updates)
      /\ Len(g.nodes) \in Nat /\ \A s \in 1..Len(g.nodes) : g.nodes[s] \in Node
  <2>1. g \in Grid BY DEF Sound
  <2> QED BY <2>1, SoundSites DEF Grid
<1>3. SitesFound(g, ls, sites) BY RemainingAreFound
<1> HIDE DEF sites
<1>4. Sites(g) = Attached(g) /\ IsFiniteSet(Attached(g)) /\ Attached(g) \subseteq 1..Len(g.nodes)
  BY AttachedAreSites
<1>5. \A s \in Attached(g) : Resting(g.nodes[s])
  <2> SUFFICES ASSUME NEW s \in Attached(g) PROVE Resting(g.nodes[s]) OBVIOUS
  <2>1. Settled(g.nodes[s]) BY DEF Rest
  <2>2. ~g.nodes[s].fading BY DEF Moving
  <2> QED BY <2>1, <2>2, SettledRests
<1>6. gone = {} /\ legacy = Attached(g) \ Range(sites) /\ legacy \ gone = legacy
  <2>1. \A s \in legacy : g.nodes[s].opacity = 1 BY <1>4, <1>5 DEF Resting
  <2>2. gone = {} BY <2>1
  <2> QED BY <2>2, <1>4
<1>7. Detaching(h, g, {}) BY <1>6, DetachNodes
<1> HIDE DEF h, legacy, gone
<1>8. /\ Sound(h) /\ h.updates = g.updates /\ Len(h.nodes) = Len(g.nodes)
      /\ \A c \in Cells : Site(h, c) = Site(g, c)
      /\ \A s \in 1..Len(g.nodes) : h.nodes[s] = g.nodes[s]
  BY <1>7 DEF Detaching
<1>9. h \in Grid /\ DOMAIN h.nodes = 1..Len(g.nodes) BY <1>8, SoundSites
<1>10. \A s \in Attached(g) : s \in 1..Len(g.nodes) BY <1>4
<1>11. ASSUME NEW s \in legacy
       PROVE  /\ nodes[s] \in Node /\ nodes[s].onFade = <<RemoveOf(u)>> /\ nodes[s].fading
              /\ ~nodes[s].frozen /\ ~nodes[s].sliding /\ nodes[s].onSlide = <<>>
              /\ nodes[s].url = g.nodes[s].url
  <2>1. s \in 1..Len(g.nodes) /\ s \in Attached(g) BY <1>6, <1>10
  <2>2. PICK n \in Node : n = g.nodes[s] /\ n = h.nodes[s] BY <2>1, <1>2, <1>8
  <2>3. Resting(n) BY <2>1, <2>2, <1>5
  <2>4. Append(n.onFade, [kind |-> "remove", update |-> u]) = <<RemoveOf(u)>>
    BY <2>3 DEF Resting, RemoveOf
  <2>5. nodes[s] = [n EXCEPT !.opacity = 0, !.fading = TRUE, !.onFade = <<RemoveOf(u)>>]
    BY <2>1, <2>2, <2>4, <1>6, <1>9 DEF Node
  <2>6. RemoveOf(u) \in Listener BY <1>2 DEF RemoveOf, Listener
  <2>7. <<RemoveOf(u)>> \in Seq(Listener) BY <2>6
  <2>8. PICK m : m = nodes[s] OBVIOUS
  <2>9. PICK l \in Seq(Listener) : l = <<RemoveOf(u)>> BY <2>7
  <2> HIDE DEF u, nodes
  <2>10. m = [n EXCEPT !.opacity = 0, !.fading = TRUE, !.onFade = l] BY <2>5, <2>8, <2>9
  <2>11. /\ m \in Node /\ m.onFade = l /\ m.fading /\ m.url = n.url
         /\ m.frozen = n.frozen /\ m.sliding = n.sliding /\ m.onSlide = n.onSlide
    BY <2>10 DEF Node
  <2> QED BY <2>2, <2>3, <2>8, <2>9, <2>11 DEF Resting
<1>12. \A s \in 1..Len(g.nodes) : s \notin legacy => nodes[s] = g.nodes[s] BY <1>6, <1>8, <1>9
<1>13. nodes \in [1..Len(g.nodes) -> Node]
  <2>1. \A s \in 1..Len(g.nodes) : nodes[s] \in Node BY <1>2, <1>11, <1>12
  <2>2. nodes = [s \in 1..Len(g.nodes) |-> nodes[s]] BY <1>9
  <2> HIDE DEF nodes
  <2> QED BY <2>1, <2>2
<1> HIDE DEF nodes
<1>14. nodes \in Seq(Node) /\ Len(nodes) = Len(g.nodes) BY <1>2, <1>13, FunctionIsSeq
<1>15. IsFiniteSet(legacy) BY <1>4, <1>6, FS_Subset
<1>16. Cardinality(legacy) \in Nat /\ (legacy # {} => Cardinality(legacy) > 0)
       /\ (legacy = {} => Cardinality(legacy) = 0)
  BY <1>15, SizeOf
<1>17. new.links = ls /\ new.sites = sites /\ ~new.moving /\ ~new.done
       /\ new.waiting = Cardinality(legacy) /\ new \in UpdateRecord
  <2>1. sites \in Seq(Nat) BY <1>3 DEF SitesFound
  <2> QED BY <2>1, <1>6, <1>16 DEF UpdateRecord
<1> HIDE DEF new
<1>18. PICK us : us = Append(g.updates, new) OBVIOUS
<1>19. /\ us \in Seq(UpdateRecord) /\ Len(us) = u /\ us[u] = new
       /\ \A v \in 1..Len(g.updates) : us[v] = g.updates[v]
  BY <1>2, <1>17, <1>18, AppendProperties
<1>20. u \in Nat /\ u # 0 /\ u - 1 = Len(g.updates) BY <1>2
<1>21. k = [h EXCEPT !.nodes = nodes, !.updates = us] BY <1>8, <1>18
<1> HIDE DEF k, u
<1>22. k \in Grid /\ k.cells = h.cells /\ k.nodes = nodes /\ k.updates = us
  BY <1>9, <1>14, <1>19, <1>21 DEF Grid
<1>23. Sound(k) /\ Attached(k) = Attached(h) /\ \A c \in Cells : Site(k, c) = Site(h, c)
  BY <1>8, <1>14, <1>22, SameCells
<1>24. Attached(k) = Attached(g)
  <2>1. \A s : s \in Attached(k) <=> s # 0 /\ \E c \in Cells : Site(k, c) = s BY <1>23, AttachedAreSites
  <2>2. \A s : s \in Attached(g) <=> s # 0 /\ \E c \in Cells : Site(g, c) = s BY AttachedAreSites
  <2>3. \A c \in Cells : Site(k, c) = Site(g, c) BY <1>8, <1>23
  <2> QED BY <2>1, <2>2, <2>3
<1>25. EarlierDone(k, u)
  <2>1. AllDone(g) BY DEF Rest
  <2>2. \A v \in 1..Len(g.updates) : g.updates[v].done /\ g.updates[v].waiting = 0
    BY <2>1, <1>2 DEF AllDone
  <2> QED BY <2>2, <1>19, <1>20, <1>22 DEF EarlierDone
<1>26. \A s \in Attached(g) : k.nodes[s].url = g.nodes[s].url BY <1>10, <1>11, <1>12, <1>22
<1>27. SitesFound(k, ls, sites) BY <1>3, <1>24, <1>26 DEF SitesFound
<1>28. k.updates[u] = new /\ Latest(k) = new /\ Len(k.updates) = u BY <1>19, <1>22 DEF Latest
<1>29. CASE legacy # {}
  <2>1. Continue(k, u) = k BY <1>16, <1>17, <1>28, <1>29 DEF Continue
  <2>2. k.updates # <<>> BY <1>20, <1>28
  <2>3. InProgress(k) BY <2>2, <1>16, <1>17, <1>25, <1>27, <1>28, <1>29 DEF InProgress, EarlierDone
  <2>4. Legacy(k) = legacy BY <1>6, <1>17, <1>24, <1>28 DEF Legacy
  <2>5. ASSUME NEW s \in Attached(k) PROVE Fades(k, k.nodes[s], s, {})
    <3>1. CASE s \in legacy BY <3>1, <2>4, <1>11, <1>22, <1>28 DEF Fades
    <3>2. CASE s \notin legacy
      <4>1. Resting(k.nodes[s]) BY <3>2, <1>5, <1>10, <1>12, <1>22, <1>24
      <4> QED BY <3>2, <4>1, <2>4 DEF Fades, Resting
    <3> QED BY <3>1, <3>2
  <2>6. Fading(k, {}) BY <2>3, <2>4, <2>5, <1>17, <1>28 DEF Fading
  <2>7. Going(k, ls, u) BY <2>6, <1>17, <1>23, <1>28 DEF Going
  <2> QED BY <2>1, <2>7, <1>1 DEF Outcome, u
<1>30. CASE legacy = {}
  <2>1. k.updates[u].waiting = 0 /\ ~k.updates[u].moving BY <1>16, <1>17, <1>28, <1>30
  <2>2. Continue(k, u) = MoveAndRearrange(k, u) BY <2>1 DEF Continue
  <2>3. \A s \in Attached(k) : Resting(k.nodes[s]) /\ s \in Range(sites)
    BY <1>5, <1>6, <1>10, <1>12, <1>22, <1>24, <1>30
  <2>4. Cleared(k, u) BY <2>1, <2>3, <1>17, <1>20, <1>23, <1>25, <1>27, <1>28 DEF Cleared
  <2>5. Outcome(MoveAndRearrange(k, u), k.updates[u].links, u) BY <2>4, MoveAndRearrangeGoesOn
  <2> QED BY <2>2, <2>5, <1>1, <1>17, <1>28 DEF u
<1> QED BY <1>29, <1>30

\* A legacy site has faded out: it is removed, and the update waits for one less.
LEMMA RemoveCalledBack ==
  ASSUME NEW g, Sound(g), NEW s, NEW u, u = Len(g.updates), NEW D,
         D = {[node |-> s, listener |-> RemoveOf(u)]}, Fading(g, D)
  PROVE  Outcome(CallBack(g, s, RemoveOf(u)), Latest(g).links, u)
<1> DEFINE r == g.updates[u]
           ls == r.links
           sites == r.sites
           h == Detach(g, {s})
           less == [r EXCEPT !.waiting = r.waiting - 1]
           k == [h EXCEPT !.updates[u].waiting = h.updates[u].waiting - 1]
<1>1. /\ InProgress(g) /\ ~r.moving /\ r.waiting = Cardinality(Legacy(g))
      /\ \A t \in Attached(g) : Fades(g, g.nodes[t], t, D)
      /\ s \in Legacy(g) /\ Latest(g) = r
  <2>1. Latest(g) = r BY DEF Latest
  <2>2. \A d \in D : d.node \in Legacy(g) BY DEF Fading
  <2>3. [node |-> s, listener |-> RemoveOf(u)].node = s OBVIOUS
  <2> QED BY <2>1, <2>2, <2>3 DEF Fading
<1>2. /\ g \in Grid /\ g.updates \in Seq(UpdateRecord) /\ u \in Nat /\ DOMAIN g.updates = 1..u
      /\ Len(g.nodes) \in Nat /\ \A t \in 1..Len(g.nodes) : g.nodes[t] \in Node
      /\ \A v \in 1..u : g.updates[v] \in UpdateRecord
  <2>1. g \in Grid BY DEF Sound
  <2> QED BY <2>1, SoundSites DEF Grid
<1>3. /\ g.updates # <<>> /\ EarlierDone(g, u) /\ ~r.done /\ r.waiting > 0 /\ SitesFound(g, ls, sites)
  BY <1>1 DEF InProgress, EarlierDone
<1>4. u # 0 /\ u \in 1..u /\ r \in UpdateRecord
  <2>1. u # 0 BY <1>2, <1>3, EmptySeq
  <2> QED BY <2>1, <1>2
<1>5. Legacy(g) = Attached(g) \ Range(sites) /\ s \in Attached(g) /\ s \notin Range(sites)
  BY <1>1 DEF Legacy
<1>6. \A t \in Attached(g) : t \in 1..Len(g.nodes) /\ t # 0 BY AttachedAreSites, <1>2
<1>7. Detaching(h, g, {s}) BY DetachNodes
<1>8. CallBack(g, s, RemoveOf(u)) = Continue(k, u)
  <2>1. CallBack(g, s, RemoveOf(u)) = Resolve(h, u) BY <1>5 DEF CallBack, RemoveOf
  <2> QED BY <2>1, <1>4 DEF Resolve
<1> HIDE DEF h
<1>9. /\ Sound(h) /\ h.updates = g.updates /\ Len(h.nodes) = Len(g.nodes)
      /\ \A t \in 1..Len(g.nodes) : t # s => h.nodes[t] = g.nodes[t]
      /\ Attached(h) = Attached(g) \ {s}
  <2>1. Attached(h) = Attached(g) \ {s} BY <1>7, DetachLeaves
  <2> QED BY <2>1, <1>7 DEF Detaching
<1>10. h \in Grid BY <1>9, SoundSites
<1>11. IsFiniteSet(Legacy(g))
  <2>1. IsFiniteSet(Attached(g)) BY AttachedAreSites
  <2> QED BY <2>1, <1>5, FS_Subset
<1>12. Cardinality(Legacy(g) \ {s}) = r.waiting - 1 /\ r.waiting \in Nat
  BY <1>1, <1>11, SizeOf
<1>13. /\ less \in UpdateRecord /\ less.waiting = r.waiting - 1 /\ less.links = ls /\ less.sites = sites
       /\ ~less.done /\ ~less.moving
  BY <1>1, <1>3, <1>4, <1>12 DEF UpdateRecord
<1>14. PICK us : us = [g.updates EXCEPT ![u] = less] OBVIOUS
<1>15. /\ us \in Seq(UpdateRecord) /\ Len(us) = u /\ us[u] = less
       /\ \A v \in 1..u : v # u => us[v] = g.updates[v]
  <2> HIDE DEF less
  <2> QED BY <1>2, <1>4, <1>13, <1>14, UpdateChanges
<1>16. k = [h EXCEPT !.updates = us] BY <1>2, <1>4, <1>9, <1>10, <1>14 DEF Grid, UpdateRecord
<1> HIDE DEF k, less
<1>17. k \in Grid /\ k.cells = h.cells /\ k.nodes = h.nodes /\ k.updates = us
  BY <1>10, <1>15, <1>16 DEF Grid
<1>18. Sound(k) /\ Attached(k) = Attached(g) \ {s} BY <1>9, <1>17, SameCells
<1>19. \A t \in Attached(k) : t # s /\ t \in Attached(g) /\ k.nodes[t] = g.nodes[t]
  BY <1>6, <1>9, <1>17, <1>18
<1>20. k.updates[u] = less /\ Latest(k) = less /\ Len(k.updates) = u BY <1>15, <1>17 DEF Latest
<1>21. EarlierDone(k, u)
  <2> SUFFICES ASSUME NEW v \in 1..u - 1 PROVE k.updates[v].done /\ k.updates[v].waiting = 0
    BY DEF EarlierDone
  <2>1. v \in 1..u /\ v # u BY <1>2
  <2>2. k.updates[v] = g.updates[v] BY <2>1, <1>15, <1>17
  <2> QED BY <2>2, <1>3 DEF EarlierDone
<1>22. SitesFound(k, ls, sites)
  <2>1. sites \in Seq(Nat) /\ Len(sites) = Len(ls) /\ DOMAIN sites = 1..Len(ls)
    <3>1. sites \in Seq(Nat) /\ Len(sites) = Len(ls) BY <1>3 DEF SitesFound
    <3> QED BY <3>1, LenProperties
  <2>2. ASSUME NEW i \in 1..Len(ls), sites[i] # 0
        PROVE  sites[i] \in Attached(k) /\ ls[i] # None /\ k.nodes[sites[i]].url = ls[i]
    <3>1. sites[i] \in Attached(g) /\ ls[i] # None /\ g.nodes[sites[i]].url = ls[i]
      BY <2>2, <1>3 DEF SitesFound
    <3>2. sites[i] \in Range(sites) BY <2>1 DEF Range
    <3>3. sites[i] # s BY <3>2, <1>5
    <3>4. sites[i] \in Attached(k) BY <3>1, <3>3, <1>18
    <3> QED BY <3>1, <3>4, <1>19
  <2> QED BY <2>1, <2>2 DEF SitesFound
<1>23. Legacy(k) = Legacy(g) \ {s} BY <1>5, <1>13, <1>18, <1>20 DEF Legacy
<1>24. ASSUME NEW t \in Attached(k) PROVE Fades(k, k.nodes[t], t, {})
  <2>1. Fades(g, g.nodes[t], t, D) /\ t # s /\ k.nodes[t] = g.nodes[t] BY <1>1, <1>19
  <2>2. t \in Legacy(k) <=> t \in Legacy(g) BY <2>1, <1>23
  <2>3. [node |-> t, listener |-> RemoveOf(u)] \notin D BY <2>1
  <2> QED BY <2>1, <2>2, <2>3, <1>20 DEF Fades
<1>25. CASE r.waiting - 1 > 0
  <2>1. Continue(k, u) = k BY <1>13, <1>20, <1>25 DEF Continue
  <2>2. k.updates # <<>> BY <1>4, <1>20
  <2>3. InProgress(k) BY <2>2, <1>13, <1>20, <1>21, <1>22, <1>25 DEF InProgress, EarlierDone
  <2>4. Fading(k, {}) BY <2>3, <1>12, <1>13, <1>20, <1>23, <1>24 DEF Fading
  <2>5. Going(k, ls, u) BY <2>4, <1>13, <1>18, <1>20 DEF Going
  <2> QED BY <2>1, <2>5, <1>1, <1>8 DEF Outcome
<1>26. CASE ~(r.waiting - 1 > 0)
  <2>1. r.waiting - 1 = 0 BY <1>3, <1>12, <1>26
  <2>2. Continue(k, u) = MoveAndRearrange(k, u) BY <1>13, <1>20, <1>26 DEF Continue
  <2>3. Legacy(k) = {}
    <3>1. IsFiniteSet(Legacy(k)) BY <1>11, <1>23, FS_Subset
    <3>2. Cardinality(Legacy(k)) = 0 BY <2>1, <1>12, <1>23
    <3> QED BY <3>1, <3>2, SizeOf
  <2>4. \A t \in Attached(k) : Resting(k.nodes[t]) /\ t \in Range(sites)
    <3> SUFFICES ASSUME NEW t \in Attached(k) PROVE Resting(k.nodes[t]) /\ t \in Range(sites) OBVIOUS
    <3>1. t \notin Legacy(k) BY <2>3
    <3>2. t \in Range(sites) BY <3>1, <1>13, <1>20 DEF Legacy
    <3>3. Fades(k, k.nodes[t], t, {}) BY <1>24
    <3> QED BY <3>1, <3>2, <3>3 DEF Fades, Resting
  <2>5. Cleared(k, u)
    BY <2>1, <2>4, <1>4, <1>13, <1>18, <1>20, <1>21, <1>22 DEF Cleared
  <2>6. Outcome(MoveAndRearrange(k, u), k.updates[u].links, u) BY <2>5, MoveAndRearrangeGoesOn
  <2> QED BY <2>2, <2>6, <1>1, <1>8, <1>13, <1>20
<1> QED BY <1>25, <1>26

\* A site has slid to its cell: it is free again, and the update waits for one less.
LEMMA SlideCalledBack ==
  ASSUME NEW g, Sound(g), NEW s, NEW u, u = Len(g.updates), NEW D,
         D = {[node |-> s, listener |-> SlideOf(u)]}, Sliding(g, D)
  PROVE  Outcome(CallBack(g, s, SlideOf(u)), Latest(g).links, u)
<1> DEFINE r == g.updates[u]
           ls == r.links
           sites == r.sites
           n == g.nodes[s]
           free == [n EXCEPT !.frozen = FALSE, !.sliding = FALSE]
           less == [r EXCEPT !.waiting = r.waiting - 1]
           h == [g EXCEPT !.nodes[s].frozen = FALSE, !.nodes[s].sliding = FALSE]
           k == [h EXCEPT !.updates[u].waiting = h.updates[u].waiting - 1]
<1>1. /\ InProgress(g) /\ r.moving /\ r.waiting = Cardinality(Frozen(g)) /\ InPlace(g, sites)
      /\ \A t \in Attached(g) : Slides(g, g.nodes[t], t, D)
      /\ s \in Frozen(g) /\ Latest(g) = r /\ n.onSlide = <<>>
  <2>1. Latest(g) = r BY DEF Latest
  <2>2. \A d \in D : d.node \in Frozen(g) /\ g.nodes[d.node].onSlide = <<>> BY DEF Sliding
  <2>3. [node |-> s, listener |-> SlideOf(u)].node = s OBVIOUS
  <2> QED BY <2>1, <2>2, <2>3 DEF Sliding
<1>2. /\ g \in Grid /\ g.updates \in Seq(UpdateRecord) /\ u \in Nat /\ DOMAIN g.updates = 1..u
      /\ Len(g.nodes) \in Nat /\ \A t \in 1..Len(g.nodes) : g.nodes[t] \in Node
      /\ \A v \in 1..u : g.updates[v] \in UpdateRecord
      /\ g.nodes \in [1..Len(g.nodes) -> Node]
  <2>1. g \in Grid BY DEF Sound
  <2>2. g.nodes \in Seq(Node) BY <2>1 DEF Grid
  <2>3. g.nodes \in [1..Len(g.nodes) -> Node] BY <2>2, SeqIsFunction
  <2> QED BY <2>1, <2>3, SoundSites DEF Grid
<1>3. /\ g.updates # <<>> /\ EarlierDone(g, u) /\ ~r.done /\ r.waiting > 0 /\ SitesFound(g, ls, sites)
  BY <1>1 DEF InProgress, EarlierDone
<1>4. u # 0 /\ u \in 1..u /\ r \in UpdateRecord
  <2>1. u # 0 BY <1>2, <1>3, EmptySeq
  <2> QED BY <2>1, <1>2
<1>5. s \in Attached(g) /\ n.frozen BY <1>1 DEF Frozen
<1>6. \A t \in Attached(g) : t \in 1..Len(g.nodes) /\ t # 0 BY AttachedAreSites, <1>2
<1>7. n \in Node /\ s \in 1..Len(g.nodes) BY <1>2, <1>5, <1>6
<1>8. CallBack(g, s, SlideOf(u)) = Continue(k, u)
  <2>1. CallBack(g, s, SlideOf(u)) = Resolve(h, u) BY DEF CallBack, SlideOf
  <2> QED BY <2>1, <1>4 DEF Resolve
<1>9. PICK nodes : nodes = [g.nodes EXCEPT ![s] = free] OBVIOUS
<1>10. free \in Node /\ ~free.frozen /\ ~free.sliding /\ free.url = n.url /\ free.opacity = n.opacity
       /\ free.fading = n.fading /\ free.onFade = n.onFade /\ free.onSlide = n.onSlide
  BY <1>7 DEF Node
<1>11. h = [g EXCEPT !.nodes = nodes]
  BY <1>2, <1>7, <1>9 DEF Grid, Node
<1> HIDE DEF h, free
<1>12. nodes \in [1..Len(g.nodes) -> Node] /\ nodes[s] = free
       /\ \A t \in 1..Len(g.nodes) : t # s => nodes[t] = g.nodes[t]
  BY <1>2, <1>7, <1>9, <1>10
<1>13. nodes \in Seq(Node) /\ Len(nodes) = Len(g.nodes) BY <1>2, <1>12, FunctionIsSeq
<1>14. h \in Grid /\ h.cells = g.cells /\ h.nodes = nodes /\ h.updates = g.updates
  BY <1>2, <1>11, <1>13 DEF Grid
<1>15. IsFiniteSet(Frozen(g))
  <2>1. IsFiniteSet(Attached(g)) BY AttachedAreSites
  <2> QED BY <2>1, FS_Subset DEF Frozen
<1>16. Cardinality(Frozen(g) \ {s}) = r.waiting - 1 /\ r.waiting \in Nat
  BY <1>1, <1>15, SizeOf
<1>17. /\ less \in UpdateRecord /\ less.waiting = r.waiting - 1 /\ less.links = ls /\ less.sites = sites
       /\ ~less.done /\ less.moving
  BY <1>1, <1>3, <1>4, <1>16 DEF UpdateRecord
<1>18. PICK us : us = [g.updates EXCEPT ![u] = less] OBVIOUS
<1>19. /\ us \in Seq(UpdateRecord) /\ Len(us) = u /\ us[u] = less
       /\ \A v \in 1..u : v # u => us[v] = g.updates[v]
  <2> HIDE DEF less
  <2> QED BY <1>2, <1>4, <1>17, <1>18, UpdateChanges
<1>20. k = [h EXCEPT !.updates = us] BY <1>2, <1>4, <1>14, <1>18 DEF Grid, UpdateRecord
<1> HIDE DEF k, less
<1>21. k \in Grid /\ k.cells = g.cells /\ k.nodes = nodes /\ k.updates = us
  BY <1>14, <1>19, <1>20 DEF Grid
<1>22. Sound(k) /\ Attached(k) = Attached(g) /\ \A c \in Cells : Site(k, c) = Site(g, c)
  BY <1>13, <1>21, SameCells
<1>23. k.nodes[s] = free /\ \A t \in Attached(k) : t # s => k.nodes[t] = g.nodes[t]
  BY <1>6, <1>12, <1>21, <1>22
<1>24. k.updates[u] = less /\ Latest(k) = less /\ Len(k.updates) = u BY <1>19, <1>21 DEF Latest
<1>25. EarlierDone(k, u)
  <2> SUFFICES ASSUME NEW v \in 1..u - 1 PROVE k.updates[v].done /\ k.updates[v].waiting = 0
    BY DEF EarlierDone
  <2>1. v \in 1..u /\ v # u BY <1>2
  <2>2. k.updates[v] = g.updates[v] BY <2>1, <1>19, <1>21
  <2> QED BY <2>2, <1>3 DEF EarlierDone
<1>26. InPlace(k, sites) BY <1>1, <1>22 DEF InPlace
<1>27. SitesFound(k, ls, sites)
  <2>1. \A t \in Attached(g) : k.nodes[t].url = g.nodes[t].url BY <1>10, <1>22, <1>23
  <2> QED BY <2>1, <1>3, <1>22 DEF SitesFound
<1>28. Frozen(k) = Frozen(g) \ {s}
  <2>1. \A t \in Attached(g) : k.nodes[t].frozen <=> g.nodes[t].frozen /\ t # s
    BY <1>10, <1>22, <1>23
  <2> QED BY <2>1, <1>22 DEF Frozen
<1>29. ASSUME NEW t \in Attached(k) PROVE Slides(k, k.nodes[t], t, {})
  <2>1. Slides(g, g.nodes[t], t, D) BY <1>1, <1>22
  <2>2. CASE t # s
    <3>1. [node |-> t, listener |-> SlideOf(u)] \notin D BY <2>2
    <3>2. k.nodes[t] = g.nodes[t] BY <2>2, <1>23
    <3> QED BY <2>1, <3>1, <3>2, <1>24 DEF Slides
  <2>3. CASE t = s
    <3>1. n.opacity = 1 /\ ~n.fading /\ n.onFade = <<>> BY <2>1, <2>3 DEF Slides
    <3> QED BY <2>3, <3>1, <1>1, <1>10, <1>23 DEF Slides
  <2> QED BY <2>2, <2>3
<1>30. CASE r.waiting - 1 > 0
  <2>1. Continue(k, u) = k BY <1>17, <1>24, <1>30 DEF Continue
  <2>2. k.updates # <<>> BY <1>4, <1>24
  <2>3. InProgress(k) BY <2>2, <1>17, <1>24, <1>25, <1>27, <1>30 DEF InProgress, EarlierDone
  <2>4. Sliding(k, {}) BY <2>3, <1>16, <1>17, <1>24, <1>26, <1>28, <1>29 DEF Sliding
  <2>5. Going(k, ls, u) BY <2>4, <1>17, <1>22, <1>24 DEF Going
  <2> QED BY <2>1, <2>5, <1>1, <1>8 DEF Outcome
<1>31. CASE ~(r.waiting - 1 > 0)
  <2>1. r.waiting - 1 = 0 BY <1>3, <1>16, <1>31
  <2>2. Continue(k, u) = FillEmptyCells(k, u) BY <1>17, <1>24, <1>31 DEF Continue
  <2>3. Frozen(k) = {}
    <3>1. IsFiniteSet(Frozen(k)) BY <1>15, <1>28, FS_Subset
    <3>2. Cardinality(Frozen(k)) = 0 BY <2>1, <1>16, <1>28
    <3> QED BY <3>1, <3>2, SizeOf
  <2>4. ASSUME NEW t \in Attached(k) PROVE Settled(k.nodes[t])
    <3>1. ~k.nodes[t].frozen BY <2>3 DEF Frozen
    <3>2. Slides(k, k.nodes[t], t, {}) BY <1>29
    <3> QED BY <3>1, <3>2 DEF Slides, Settled
  <2>5. k.updates[u].waiting = 0 /\ k.updates[u].links = ls /\ k.updates[u].sites = sites
    BY <2>1, <1>17, <1>24
  <2>6. Ended(FillEmptyCells(k, u), k.updates[u].links, u)
    <3> HIDE DEF ls, sites
    <3> QED BY <2>4, <2>5, <1>4, <1>22, <1>24, <1>25, <1>26, <1>27, FillEmptyCellsEnds
  <2> QED BY <2>2, <2>5, <2>6, <1>1, <1>8 DEF Outcome
<1> QED BY <1>30, <1>31

\* A site has faded in, or a control in it: there is nothing left to do.
LEMMA ShowCalledBack ==
  ASSUME NEW g, Sound(g), NEW s, Rest(g, {[node |-> s, listener |-> Show]})
  PROVE  CallBack(g, s, Show) = g /\ Rest(g, {})
<1> DEFINE n == g.nodes[s]
           h == [g EXCEPT !.nodes[s].opacity = 1,
                          !.nodes[s].fading = @ \/ (n.opacity = 0 /\ s \in Attached(g))]
<1>1. s \in Attached(g)
  <2>1. [node |-> s, listener |-> Show].node = s OBVIOUS
  <2> QED BY <2>1 DEF Rest
<1>2. Settled(n) BY <1>1 DEF Rest
<1>3. s \in 1..Len(g.nodes) BY <1>1, AttachedAreSites
<1>4. g \in Grid /\ n \in Node BY <1>3, SoundSites
<1>5. g.nodes \in [1..Len(g.nodes) -> Node]
  <2>1. g.nodes \in Seq(Node) BY <1>4 DEF Grid
  <2> QED BY <2>1, SeqIsFunction
<1>6. n.opacity = 1 /\ n.fading \in BOOLEAN BY <1>2, <1>4 DEF Settled, Node
<1>7. PICK b : b = (n.fading \/ (n.opacity = 0 /\ s \in Attached(g))) OBVIOUS
<1>8. b = n.fading BY <1>6, <1>7
<1>9. PICK m : m = [n EXCEPT !.opacity = 1, !.fading = b] OBVIOUS
<1>10. m = n BY <1>4, <1>6, <1>8, <1>9 DEF Node
<1>11. h = [g EXCEPT !.nodes = [g.nodes EXCEPT ![s] = m]]
  <2>1. h = [g EXCEPT !.nodes = [g.nodes EXCEPT ![s] = [n EXCEPT !.opacity = 1, !.fading = b]]]
    BY <1>3, <1>4, <1>5, <1>7 DEF Grid, Node
  <2> QED BY <2>1, <1>9
<1>12. [g.nodes EXCEPT ![s] = n] = g.nodes BY <1>3, <1>5
<1>13. [g EXCEPT !.nodes = g.nodes] = g BY <1>4 DEF Grid
<1>14. h = g BY <1>10, <1>11, <1>12, <1>13
<1>15. CallBack(g, s, Show) = h BY DEF CallBack, Show, Resolve
<1>16. Rest(g, {}) BY DEF Rest
<1> QED BY <1>14, <1>15, <1>16

\* h is g with node s changed to m.
OneChanged(h, g, s, m) ==
  /\ Sound(h) /\ h.updates = g.updates /\ Attached(h) = Attached(g)
  /\ \A c \in Cells : Site(h, c) = Site(g, c)
  /\ h.nodes[s] = m /\ \A t \in Attached(g) : t # s => h.nodes[t] = g.nodes[t]

\* A change of one node leaves the others and the cells.
LEMMA OneNodeChanges ==
  ASSUME NEW g, Sound(g), NEW s \in Attached(g), NEW m \in Node
  PROVE  OneChanged([g EXCEPT !.nodes = [g.nodes EXCEPT ![s] = m]], g, s, m)
<1> DEFINE h == [g EXCEPT !.nodes = [g.nodes EXCEPT ![s] = m]]
<1>1. g \in Grid /\ g.nodes \in Seq(Node) BY DEF Sound, Grid
<1>2. Len(g.nodes) \in Nat /\ g.nodes \in [1..Len(g.nodes) -> Node] BY <1>1, SeqIsFunction
<1>3. \A t \in Attached(g) : t \in 1..Len(g.nodes) BY AttachedAreSites
<1>4. PICK nodes : nodes = [g.nodes EXCEPT ![s] = m] OBVIOUS
<1>5. nodes \in [1..Len(g.nodes) -> Node] /\ nodes[s] = m
      /\ \A t \in Attached(g) : t # s => nodes[t] = g.nodes[t]
  BY <1>2, <1>3, <1>4
<1>6. nodes \in Seq(Node) /\ Len(nodes) = Len(g.nodes) BY <1>2, <1>5, FunctionIsSeq
<1>7. h = [g EXCEPT !.nodes = nodes] BY <1>4
<1> HIDE DEF h
<1>8. h \in Grid /\ h.cells = g.cells /\ h.nodes = nodes /\ h.updates = g.updates
  BY <1>1, <1>6, <1>7 DEF Grid
<1>9. Sound(h) /\ Attached(h) = Attached(g) /\ \A c \in Cells : Site(h, c) = Site(g, c)
  BY <1>6, <1>8, SameCells
<1> QED BY <1>5, <1>8, <1>9 DEF OneChanged, h

\* The same links where they were, and the same updates
Alike(h, g) ==
  /\ h.updates = g.updates /\ Attached(h) = Attached(g)
  /\ \A c \in Cells : Site(h, c) = Site(g, c)
  /\ \A t \in Attached(g) : h.nodes[t].url = g.nodes[t].url

\* Pages that are alike stand alike to the links.
LEMMA AlikeKeeps ==
  ASSUME NEW g, Sound(g), NEW h, Alike(h, g)
  PROVE  /\ AllDone(h) <=> AllDone(g)
         /\ InProgress(g) => InProgress(h)
         /\ Latest(h) = Latest(g)
         /\ \A ls : (Shows(g, ls) => Shows(h, ls)) /\ (Updating(g, ls) => Updating(h, ls))
<1>1. /\ h.updates = g.updates /\ Attached(h) = Attached(g)
      /\ \A c \in Cells : Site(h, c) = Site(g, c)
      /\ \A t \in Attached(g) : h.nodes[t].url = g.nodes[t].url
  BY DEF Alike
<1>2. AllDone(h) <=> AllDone(g) BY <1>1 DEF AllDone
<1>3. Latest(h) = Latest(g) BY <1>1 DEF Latest
<1>4. ASSUME NEW ls, NEW sites, SitesFound(g, ls, sites) PROVE SitesFound(h, ls, sites)
  BY <1>1, <1>4 DEF SitesFound
<1>5. InProgress(g) => InProgress(h) BY <1>1, <1>3, <1>4 DEF InProgress
<1>6. ASSUME NEW ls, Shows(g, ls) PROVE Shows(h, ls)
  <2>1. \A c \in Cells : Site(g, c) # 0 => Site(g, c) \in Attached(g) BY AttachedAreSites
  <2> QED BY <2>1, <1>1, <1>6 DEF Shows
<1>7. ASSUME NEW ls, Updating(g, ls) PROVE Updating(h, ls) BY <1>3, <1>5, <1>7 DEF Updating
<1> QED BY <1>2, <1>3, <1>5, <1>6, <1>7

\* The listeners that an event takes from a node
Taken(s, list) == {[node |-> s, listener |-> list[i]] : i \in DOMAIN list}

\* A node has one listener or none.
LEMMA TakenFromOne ==
  ASSUME NEW s, NEW l
  PROVE  Taken(s, <<>>) = {} /\ Taken(s, <<l>>) = {[node |-> s, listener |-> l]}
BY DEF Taken

\* What the event makes of the page
EventTakes(h, g, s, list) ==
  /\ PageOk(h, Taken(s, list)) /\ Alike(h, g)
  /\ list = <<>> \/ \E l \in Listener : list = <<l>>

\* A fade ends, or the listeners are called while it goes on: they are taken.
LEMMA FadeTakes ==
  ASSUME NEW g, PageOk(g, {}), NEW s \in Attached(g), NEW n, n = g.nodes[s],
         NEW b \in {n.fading, FALSE}, n.fading \/ n.onFade # <<>>,
         NEW h, OneChanged(h, g, s, [n EXCEPT !.fading = b, !.onFade = <<>>])
  PROVE  EventTakes(h, g, s, n.onFade)
<1> SUFFICES /\ PageOk(h, Taken(s, n.onFade)) /\ Alike(h, g)
             /\ n.onFade = <<>> \/ \E l \in Listener : n.onFade = <<l>>
  BY DEF EventTakes
<1> DEFINE m == [n EXCEPT !.fading = b, !.onFade = <<>>]
           D == Taken(s, n.onFade)
           u == Len(g.updates)
<1>1. Sound(g) BY DEF PageOk
<1>2. s \in 1..Len(g.nodes) BY <1>1, AttachedAreSites
<1>3. n \in Node /\ u \in Nat BY <1>1, <1>2, SoundSites
<1>4. /\ m.url = n.url /\ m.opacity = n.opacity /\ m.frozen = n.frozen /\ m.sliding = n.sliding
      /\ m.onSlide = n.onSlide /\ m.onFade = <<>> /\ m.fading = b
  BY <1>3 DEF Node
<1> HIDE DEF m
<1>5. /\ Sound(h) /\ h.updates = g.updates /\ Attached(h) = Attached(g)
      /\ \A c \in Cells : Site(h, c) = Site(g, c)
      /\ h.nodes[s] = m /\ \A t \in Attached(g) : t # s => h.nodes[t] = g.nodes[t]
  BY DEF OneChanged, m
<1>6. Alike(h, g) BY <1>4, <1>5 DEF Alike
<1>7. /\ AllDone(h) <=> AllDone(g)
      /\ InProgress(g) => InProgress(h)
      /\ Latest(h) = Latest(g) /\ Len(h.updates) = u
  BY <1>1, <1>5, <1>6, AlikeKeeps
<1>8. Show \in Listener /\ RemoveOf(u) \in Listener BY <1>3 DEF Show, RemoveOf, Listener
<1>9. CASE Rest(g, {})
  <2>1. Settled(n) BY <1>9 DEF Rest
  <2>2. Settled(m) BY <2>1, <1>4 DEF Settled
  <2>3. \A t \in Attached(h) : Settled(h.nodes[t]) BY <2>2, <1>5, <1>9 DEF Rest
  <2>4. n.onFade = <<>> \/ n.onFade = <<Show>> BY <2>1 DEF Settled
  <2>5. \A d \in D : d.node \in Attached(h) /\ d.listener = Show
    <3>1. D = {} \/ D = {[node |-> s, listener |-> Show]} BY <2>4, TakenFromOne
    <3>2. [node |-> s, listener |-> Show].node = s /\ [node |-> s, listener |-> Show].listener = Show
      OBVIOUS
    <3> QED BY <3>1, <3>2, <1>5
  <2>6. Rest(h, D) BY <2>3, <2>5, <1>7, <1>9 DEF Rest
  <2> QED BY <2>4, <2>6, <1>5, <1>6, <1>8 DEF PageOk
<1>10. CASE Fading(g, {})
  <2>1. \A t \in Attached(g) : Fades(g, g.nodes[t], t, {}) BY <1>10 DEF Fading
  <2>2. s \in Legacy(g) /\ n.onFade = <<RemoveOf(u)>> BY <2>1 DEF Fades
  <2>3. D = {[node |-> s, listener |-> RemoveOf(u)]} BY <2>2, TakenFromOne
  <2>4. Legacy(h) = Legacy(g) BY <1>5, <1>7 DEF Legacy
  <2>5. ASSUME NEW t \in Attached(h) PROVE Fades(h, h.nodes[t], t, D)
    <3>1. CASE t = s
      <4>1. ~n.frozen /\ ~n.sliding /\ n.onSlide = <<>> BY <2>1 DEF Fades
      <4> QED BY <3>1, <4>1, <2>2, <2>3, <2>4, <1>4, <1>5, <1>7 DEF Fades
    <3>2. CASE t # s BY <3>2, <2>1, <2>4, <1>5, <1>7 DEF Fades
    <3> QED BY <3>1, <3>2
  <2>6. \A d \in D : d.node \in Legacy(h) /\ d.listener = RemoveOf(Len(h.updates))
    BY <2>2, <2>3, <2>4, <1>7
  <2>7. Fading(h, D) BY <2>4, <2>5, <2>6, <1>7, <1>10 DEF Fading
  <2> QED BY <2>2, <2>7, <1>5, <1>6, <1>8 DEF PageOk
<1>11. CASE Sliding(g, {})
  <2>1. Slides(g, n, s, {}) BY <1>11 DEF Sliding
  <2> QED BY <2>1 DEF Slides
<1> QED BY <1>9, <1>10, <1>11 DEF PageOk

\* A slide ends: its listener is taken.
LEMMA SlideTakes ==
  ASSUME NEW g, PageOk(g, {}), NEW s \in Attached(g), NEW n, n = g.nodes[s], n.sliding,
         NEW h, OneChanged(h, g, s, [n EXCEPT !.sliding = FALSE, !.onSlide = <<>>])
  PROVE  EventTakes(h, g, s, n.onSlide)
<1> SUFFICES /\ PageOk(h, Taken(s, n.onSlide)) /\ Alike(h, g)
             /\ n.onSlide = <<>> \/ \E l \in Listener : n.onSlide = <<l>>
  BY DEF EventTakes
<1> DEFINE m == [n EXCEPT !.sliding = FALSE, !.onSlide = <<>>]
           D == Taken(s, n.onSlide)
           u == Len(g.updates)
<1>1. Sound(g) BY DEF PageOk
<1>2. s \in 1..Len(g.nodes) BY <1>1, AttachedAreSites
<1>3. n \in Node /\ u \in Nat BY <1>1, <1>2, SoundSites
<1>4. /\ m.url = n.url /\ m.opacity = n.opacity /\ m.frozen = n.frozen /\ ~m.sliding
      /\ m.onSlide = <<>> /\ m.onFade = n.onFade /\ m.fading = n.fading
  BY <1>3 DEF Node
<1> HIDE DEF m
<1>5. /\ Sound(h) /\ h.updates = g.updates /\ Attached(h) = Attached(g)
      /\ \A c \in Cells : Site(h, c) = Site(g, c)
      /\ h.nodes[s] = m /\ \A t \in Attached(g) : t # s => h.nodes[t] = g.nodes[t]
  BY DEF OneChanged, m
<1>6. Alike(h, g) BY <1>4, <1>5 DEF Alike
<1>7. /\ InProgress(g) => InProgress(h)
      /\ Latest(h) = Latest(g) /\ Len(h.updates) = u
  BY <1>1, <1>5, <1>6, AlikeKeeps
<1>8. SlideOf(u) \in Listener BY <1>3 DEF SlideOf, Listener
<1>9. CASE Rest(g, {}) \/ Fading(g, {})
  <2>1. ~n.sliding BY <1>9 DEF Rest, Settled, Fading, Fades
  <2> QED BY <2>1
<1>10. CASE Sliding(g, {})
  <2>1. \A t \in Attached(g) : Slides(g, g.nodes[t], t, {}) BY <1>10 DEF Sliding
  <2>2. n.frozen /\ n.onSlide = <<SlideOf(u)>> BY <2>1 DEF Slides
  <2>3. D = {[node |-> s, listener |-> SlideOf(u)]} BY <2>2, TakenFromOne
  <2>4. Frozen(h) = Frozen(g) BY <1>4, <1>5 DEF Frozen
  <2>5. ASSUME NEW t \in Attached(h) PROVE Slides(h, h.nodes[t], t, D)
    <3>1. CASE t = s
      <4>1. n.opacity = 1 /\ ~n.fading /\ n.onFade = <<>> BY <2>1 DEF Slides
      <4> QED BY <3>1, <4>1, <2>2, <2>3, <1>4, <1>5, <1>7 DEF Slides
    <3>2. CASE t # s BY <3>2, <2>1, <1>5, <1>7 DEF Slides
    <3> QED BY <3>1, <3>2
  <2>6. s \in Frozen(h) BY <2>2, <2>4 DEF Frozen
  <2>7. \A d \in D : /\ d.node \in Frozen(h) /\ d.listener = SlideOf(Len(h.updates))
                     /\ h.nodes[d.node].onSlide = <<>>
    BY <2>3, <2>6, <1>4, <1>5, <1>7
  <2>8. InPlace(h, Latest(h).sites) BY <1>5, <1>7, <1>10 DEF Sliding, InPlace
  <2>9. Sliding(h, D) BY <2>4, <2>5, <2>7, <2>8, <1>7, <1>10 DEF Sliding
  <2> QED BY <2>2, <2>9, <1>5, <1>6, <1>8 DEF PageOk
<1> QED BY <1>9, <1>10 DEF PageOk

\* A page that is not busy is at rest.
LEMMA NotBusyRests ==
  ASSUME NEW g, PageOk(g, {}), ~Busy(g)
  PROVE  Rest(g, {}) /\ ~Moving(g) /\ ~InProgress(g)
<1>1. Sound(g) BY DEF PageOk
<1>2. ~Moving(g) /\ \A u \in DOMAIN g.updates : ~(g.updates[u].waiting > 0) BY DEF Busy
<1>3. Len(g.updates) \in Nat /\ DOMAIN g.updates = 1..Len(g.updates)
      /\ g.updates \in Seq(UpdateRecord)
  BY <1>1, SoundSites DEF Grid
<1>4. ~InProgress(g)
  <2> SUFFICES ASSUME InProgress(g) PROVE FALSE OBVIOUS
  <2>1. g.updates # <<>> /\ Latest(g).waiting > 0 BY DEF InProgress
  <2>2. Len(g.updates) # 0 BY <2>1, <1>3, EmptySeq
  <2>3. Len(g.updates) \in DOMAIN g.updates BY <2>2, <1>3
  <2> QED BY <2>1, <2>3, <1>2 DEF Latest
<1>5. ~Fading(g, {}) /\ ~Sliding(g, {}) BY <1>4 DEF Fading, Sliding
<1> QED BY <1>2, <1>4, <1>5 DEF PageOk

\* When nothing moves and no listener is due, a page is at rest.
LEMMA StillRests ==
  ASSUME NEW g, PageOk(g, {}), ~Moving(g)
  PROVE  Rest(g, {}) /\ ~InProgress(g)
<1>1. Sound(g) BY DEF PageOk
<1>2. \A s \in Attached(g) : ~g.nodes[s].fading /\ ~g.nodes[s].sliding BY DEF Moving
<1>3. ~Fading(g, {})
  <2> SUFFICES ASSUME Fading(g, {}) PROVE FALSE OBVIOUS
  <2>1. Cardinality(Legacy(g)) > 0 BY DEF Fading, InProgress
  <2>2. Legacy(g) \subseteq Attached(g) BY DEF Legacy
  <2>3. IsFiniteSet(Legacy(g)) BY <2>2, <1>1, AttachedAreSites, FS_Subset
  <2>4. Legacy(g) # {} BY <2>1, <2>3, SizeOf
  <2>5. PICK s \in Legacy(g) : TRUE BY <2>4
  <2>6. Fades(g, g.nodes[s], s, {}) BY <2>2, <2>5 DEF Fading
  <2> QED BY <2>2, <2>5, <2>6, <1>2 DEF Fades
<1>4. ~Sliding(g, {})
  <2> SUFFICES ASSUME Sliding(g, {}) PROVE FALSE OBVIOUS
  <2>1. Cardinality(Frozen(g)) > 0 BY DEF Sliding, InProgress
  <2>2. Frozen(g) \subseteq Attached(g) BY DEF Frozen
  <2>3. IsFiniteSet(Frozen(g)) BY <2>2, <1>1, AttachedAreSites, FS_Subset
  <2>4. Frozen(g) # {} BY <2>1, <2>3, SizeOf
  <2>5. PICK s \in Frozen(g) : TRUE BY <2>4
  <2>6. Slides(g, g.nodes[s], s, {}) /\ g.nodes[s].frozen BY <2>2, <2>5 DEF Sliding, Frozen
  <2> QED BY <2>2, <2>5, <2>6, <1>2 DEF Slides
<1>5. Rest(g, {}) BY <1>3, <1>4 DEF PageOk
<1>6. ~InProgress(g)
  <2> SUFFICES ASSUME InProgress(g) PROVE FALSE OBVIOUS
  <2>1. g.updates # <<>> /\ ~Latest(g).done BY DEF InProgress
  <2>2. Len(g.updates) \in Nat /\ DOMAIN g.updates = 1..Len(g.updates)
        /\ g.updates \in Seq(UpdateRecord)
    BY <1>1, SoundSites DEF Grid
  <2>3. Len(g.updates) # 0 BY <2>1, <2>2, EmptySeq
  <2>4. Len(g.updates) \in DOMAIN g.updates BY <2>2, <2>3
  <2> QED BY <2>1, <2>4, <1>5 DEF Rest, AllDone, Latest
<1> QED BY <1>5, <1>6

\* How many updates of a page are done
LEMMA FinishedUpdates ==
  ASSUME NEW g, Sound(g)
  PROVE  /\ AllDone(g) => Finished(g) = Len(g.updates)
         /\ InProgress(g) => Finished(g) = Len(g.updates) - 1
<1> DEFINE n == Len(g.updates)
           Done == {u \in DOMAIN g.updates : g.updates[u].done}
<1>1. n \in Nat /\ DOMAIN g.updates = 1..n /\ g.updates \in Seq(UpdateRecord)
  BY SoundSites DEF Grid
<1>2. ASSUME AllDone(g) PROVE Finished(g) = n
  <2>1. Done = 1..n BY <1>1, <1>2 DEF AllDone
  <2>2. Cardinality(1..n) = n
    <3>1. PICK k \in Nat : k = n BY <1>1
    <3>2. Cardinality(1..k) = k BY FS_Interval
    <3> QED BY <3>1, <3>2
  <2> QED BY <2>1, <2>2 DEF Finished
<1>3. ASSUME InProgress(g) PROVE Finished(g) = n - 1
  <2>1. g.updates # <<>> /\ ~g.updates[n].done /\ \A u \in 1..n - 1 : g.updates[u].done
    BY <1>3 DEF InProgress, Latest
  <2>2. n # 0 BY <2>1, <1>1, EmptySeq
  <2>3. Done = 1..n - 1 BY <2>1, <2>2, <1>1
  <2>4. Cardinality(1..n - 1) = n - 1
    <3>1. PICK k \in Nat : k = n - 1
      <4>1. n - 1 \in Nat
        <5>1. PICK j \in Nat : j = n /\ j # 0 BY <2>2, <1>1
        <5>2. j - 1 \in Nat BY <5>1
        <5> QED BY <5>1, <5>2
      <4> QED BY <4>1
    <3>2. Cardinality(1..k) = k BY FS_Interval
    <3> QED BY <3>1, <3>2
  <2> QED BY <2>3, <2>4 DEF Finished
<1> QED BY <1>2, <1>3

-----------------------------------------------------------------------------
\* The pages.

\* The one listener that fires is due on its page only.
LEMMA DueOfOne ==
  ASSUME NEW p, NEW s, NEW l
  PROVE  LET due == <<[page |-> p, node |-> s, listener |-> l]>>
         IN /\ DueOf(due, p) = {[node |-> s, listener |-> l]}
            /\ \A q : q # p => DueOf(due, q) = {}
<1> DEFINE d == [page |-> p, node |-> s, listener |-> l]
           due == <<d>>
<1>1. DOMAIN due = {1} /\ due[1] = d OBVIOUS
<1>2. d.page = p /\ d.node = s /\ d.listener = l OBVIOUS
<1> HIDE DEF d, due
<1>3. DueOf(due, p) = {[node |-> s, listener |-> l]} BY <1>1, <1>2 DEF DueOf
<1>4. \A q : q # p => DueOf(due, q) = {} BY <1>1, <1>2 DEF DueOf
<1> QED BY <1>3, <1>4 DEF d, due

\* No listener fires, so none is due.
LEMMA NoneDue ==
  \A p : DueOf(<<>>, p) = {}
BY DEF DueOf

\* When no listener is due, every page is at rest or waits for a transition.
LEMMA IdlePages ==
  ASSUME GridInv, firing = <<>>
  PROVE  \A q \in Pages : PageOk(grid[q], {})
BY NoneDue DEF GridInv, Due

\* The links that the pages ask for
LEMMA LinksAfter ==
  ASSUME provided' \in Providers, pinned' \in Pins
  PROVE  Links \in LinkList /\ Links = Current'
BY LinksHavePlaces DEF Links, Current

\* The links stay what they are.
LEMMA LinksStayPut ==
  ASSUME UNCHANGED links
  PROVE  Links = Current /\ Current' = Current /\ UNCHANGED <<provided, pinned, blocked>>
BY DEF Links, Current, links

\* What telling the others does
LEMMA ToldPages ==
  ASSUME NEW p, NEW h
  PROVE  /\ Finished(h) > Finished(grid[p]) =>
              /\ Told(p, h).refresh = ((open \ {p}) \cap ready) \ hidden
              /\ Told(p, h).delay = (open \ {p}) \cap hidden
         /\ ~(Finished(h) > Finished(grid[p])) => Told(p, h).refresh = {} /\ Told(p, h).delay = {}
         /\ Told(p, h).refresh \subseteq open \ {p}
BY DEF Told, Nobody, Notified

\* An update of p begins.  If it ends at once the others are told, and if not
\* they wait for it, so that all pages follow.
LEMMA UpdateStep ==
  ASSUME ~Hasty, GridInv, firing = <<>>, firing' = firing, NEW p \in open, open' = open,
         ready' = ready, provided' \in Providers, pinned' \in Pins, blocked' \in SUBSET Urls,
         UndoTyped(undo'), Update(p)
  PROVE  GridInv'
<1> DEFINE g == grid[p]
           h == UpdateGrid(g, Links)
           u == Len(g.updates) + 1
           told == Told(p, h)
<1>1. p \in Pages /\ open \in SUBSET Pages BY DEF GridInv, Typed
<1>2. \A q \in Pages : PageOk(grid[q], {}) BY IdlePages
<1>3. Links \in LinkList /\ Links = Current' BY LinksAfter
<1>4. GridBecomes(p, h, told, {p}) BY DEF Update
<1>5. /\ \A q \in told.refresh \cup {p} : ~Busy(grid[q])
      /\ grid' = [q \in Pages |-> IF q = p THEN h
                                  ELSE IF q \in told.refresh THEN Refreshed(Links) ELSE grid[q]]
      /\ timer' = timer \cup told.delay
  BY <1>4 DEF GridBecomes, MayTouch
<1>6. Sound(g) /\ Rest(g, {}) /\ ~Moving(g) BY <1>1, <1>2, <1>5, NotBusyRests DEF PageOk
<1>7. Outcome(h, Links, u) BY <1>3, <1>6, UpdateGridStarts
<1>8. Finished(g) = u - 1 /\ u - 1 \in Nat /\ u \in Nat
  <2>1. Len(g.updates) \in Nat BY <1>6, SoundSites
  <2>2. Finished(g) = Len(g.updates) BY <1>6, FinishedUpdates DEF Rest
  <2> QED BY <2>1, <2>2
<1>9. PICK ls \in LinkList : ls = Links BY <1>3
<1>10. /\ Sound(Refreshed(ls)) /\ Rest(Refreshed(ls), {}) /\ Shows(Refreshed(ls), ls) BY RefreshedShows
<1> HIDE DEF h, u
<1>11. PageOk(h, {})
  BY <1>7 DEF Outcome, Going, Ended, PageOk
<1>12. ASSUME NEW q \in Pages PROVE PageOk(grid'[q], {})
  <2>1. PageOk(Refreshed(ls), {}) BY <1>10 DEF PageOk
  <2> HIDE DEF told
  <2> QED BY <2>1, <1>2, <1>5, <1>9, <1>11
<1>13. ASSUME NEW q \in open \cap ready PROVE Follows(q)'
  <2>1. q \in Pages BY <1>1
  <2>2. CASE Ended(h, Links, u)
    <3>1. Sound(h) /\ AllDone(h) /\ Shows(h, Links) /\ Len(h.updates) = u
      BY <2>2 DEF Ended, Rest
    <3>2. Finished(h) = u BY <3>1, FinishedUpdates
    <3>3. Finished(h) > Finished(grid[p]) BY <3>2, <1>8
    <3>4. told.refresh = ((open \ {p}) \cap ready) \ hidden /\ told.delay = (open \ {p}) \cap hidden
      <4> HIDE DEF h
      <4> QED BY <3>3, ToldPages
    <3> HIDE DEF told
    <3>5. CASE q = p
      <4>1. grid'[q] = h BY <2>1, <3>5, <1>5
      <4>2. AllDone(grid'[q]) /\ Shows(grid'[q], Current') BY <4>1, <3>1, <1>3
      <4> QED BY <4>2 DEF Follows
    <3>6. CASE q # p /\ q \in hidden
      <4>1. q \in timer' BY <3>4, <3>6, <1>5
      <4> QED BY <4>1 DEF Follows
    <3>7. CASE q # p /\ q \notin hidden
      <4>1. grid'[q] = Refreshed(ls) BY <2>1, <3>4, <3>7, <1>5, <1>9
      <4>2. AllDone(grid'[q]) /\ Shows(grid'[q], Current') BY <4>1, <1>3, <1>9, <1>10 DEF Rest
      <4> QED BY <4>2 DEF Follows
    <3> QED BY <3>5, <3>6, <3>7
  <2>3. CASE Going(h, Links, u)
    <3>1. Updating(h, Links) BY <2>3 DEF Going, Fading, Sliding, Updating
    <3>2. grid'[p] = h
      <4> HIDE DEF told
      <4> QED BY <1>1, <1>5
    <3>3. p \in open' /\ Updating(grid'[p], Current') BY <3>1, <3>2, <1>3
    <3> QED BY <3>3 DEF Follows
  <2> QED BY <2>2, <2>3, <1>7 DEF Outcome
<1>14. Typed'
  <2>1. DOMAIN grid' = Pages
    <3> HIDE DEF told
    <3> QED BY <1>5
  <2> QED BY <2>1, <1>1 DEF Typed
<1>15. OneFires(firing') BY DEF OneFires
<1>16. \A q \in Pages : PageOk(grid'[q], Due(q)')
  <2>1. \A q : Due(q)' = {} BY NoneDue DEF Due
  <2> QED BY <2>1, <1>12
<1>17. \A q \in (open' \cap ready') \ behind' : Follows(q)' BY <1>13
<1> QED BY <1>14, <1>15, <1>16, <1>17 DEF GridInv

\* The grid of a page is made anew.
LEMMA RefreshStep ==
  ASSUME ~Hasty, GridInv, firing = <<>>, NEW p \in open, Refresh(p), UNCHANGED links,
         UNCHANGED <<open, restoring, undo, firing>>, ready' \subseteq ready \cup {p},
         timer \ {p} \subseteq timer'
  PROVE  GridInv'
<1> DEFINE h == Refreshed(Links)
<1>1. p \in Pages /\ open \in SUBSET Pages /\ DOMAIN grid = Pages BY DEF GridInv, Typed
<1>2. \A q \in Pages : PageOk(grid[q], {}) BY IdlePages
<1>3. Links = Current /\ Current' = Current /\ UNCHANGED <<provided, pinned, blocked>>
  BY LinksStayPut
<1>4. Links \in LinkList BY <1>3, LinksAfter DEF GridInv, Typed
<1>5. /\ ~Busy(grid[p]) /\ grid' = [grid EXCEPT ![p] = h] /\ behind' = behind \ {p}
  BY DEF Refresh, MayTouch
<1>6. ~InProgress(grid[p]) BY <1>1, <1>2, <1>5, NotBusyRests
<1>7. Sound(h) /\ Rest(h, {}) /\ Shows(h, Links) BY <1>4, RefreshedShows
<1> HIDE DEF h
<1>8. DOMAIN grid' = Pages /\ grid'[p] = h /\ \A q \in Pages : q # p => grid'[q] = grid[q]
  BY <1>1, <1>5
<1>9. \A q \in Pages : PageOk(grid'[q], {}) BY <1>2, <1>7, <1>8 DEF PageOk
<1>10. ASSUME NEW q \in (open' \cap ready') \ behind' PROVE Follows(q)'
  <2>1. q \in open /\ q \in Pages BY <1>1
  <2>2. CASE q = p
    <3>1. AllDone(grid'[q]) /\ Shows(grid'[q], Current') BY <2>2, <1>3, <1>7, <1>8 DEF Rest
    <3> QED BY <3>1 DEF Follows
  <2>3. CASE q # p
    <3>1. q \in (open \cap ready) \ behind BY <2>3, <1>5
    <3>2. Follows(q) BY <3>1 DEF GridInv
    <3>3. grid'[q] = grid[q] BY <2>1, <2>3, <1>8
    <3>4. CASE q \in timer
      <4>1. q \in timer' BY <2>3, <3>4
      <4> QED BY <4>1 DEF Follows
    <3>5. CASE restoring \cap open # {} BY <3>5 DEF Follows
    <3>6. CASE AllDone(grid[q]) /\ Shows(grid[q], Current)
      <4>1. AllDone(grid'[q]) /\ Shows(grid'[q], Current') BY <3>3, <3>6, <1>3
      <4> QED BY <4>1 DEF Follows
    <3>7. CASE \E r \in open : Updating(grid[r], Current)
      <4>1. PICK r \in open : Updating(grid[r], Current) BY <3>7
      <4>2. r # p BY <4>1, <1>6 DEF Updating
      <4>3. r \in open' /\ Updating(grid'[r], Current') BY <4>1, <4>2, <1>1, <1>3, <1>8
      <4> QED BY <4>3 DEF Follows
    <3> QED BY <3>2, <3>4, <3>5, <3>6, <3>7 DEF Follows
  <2> QED BY <2>2, <2>3
<1>11. Typed' BY <1>3, <1>8 DEF GridInv, Typed
<1>12. OneFires(firing') BY DEF OneFires
<1>13. \A q \in Pages : PageOk(grid'[q], Due(q)')
  <2>1. \A q : Due(q)' = {} BY NoneDue DEF Due
  <2> QED BY <2>1, <1>9
<1> QED BY <1>10, <1>11, <1>12, <1>13 DEF GridInv

\* What touches neither the links nor a grid.
LEMMA OtherStep ==
  ASSUME GridInv, UNCHANGED links, UNCHANGED <<open, ready, restoring, grid, behind, firing>>,
         \A q \in ready : q \in timer => q \in timer', UndoTyped(undo')
  PROVE  GridInv'
<1>1. Current' = Current /\ UNCHANGED <<provided, pinned, blocked>> BY LinksStayPut
<1>2. Typed' BY <1>1 DEF GridInv, Typed
<1>3. \A q : Due(q)' = Due(q) BY DEF Due
<1>4. \A q \in (open' \cap ready') \ behind' : Follows(q)'
  <2> SUFFICES ASSUME NEW q \in (open \cap ready) \ behind PROVE Follows(q)' OBVIOUS
  <2>1. Follows(q) BY DEF GridInv
  <2> QED BY <2>1, <1>1 DEF Follows
<1> QED BY <1>2, <1>3, <1>4 DEF GridInv

\* A site that can be clicked is a node in a cell.
LEMMA ClickableSites ==
  ASSUME GridInv, NEW p \in Pages, NEW s \in Clickable(p)
  PROVE  p \in open /\ UrlOf(p, s) \in Urls /\ CellOf(grid[p], s) \in Cells
<1>1. p \in open /\ s \in Attached(grid[p]) BY DEF Clickable
<1>2. Sound(grid[p]) BY DEF GridInv, PageOk
<1>3. s \in 1..Len(grid[p].nodes) BY <1>1, <1>2, AttachedAreSites
<1>4. grid[p].nodes[s] \in Node BY <1>2, <1>3, SoundSites
<1>5. UrlOf(p, s) \in Urls BY <1>4 DEF UrlOf, Node
<1>6. \E c \in Cells : s \in Range(grid[p].cells[c]) BY <1>1 DEF Attached
<1>7. CellOf(grid[p], s) \in Cells BY <1>6 DEF CellOf
<1> QED BY <1>1, <1>5, <1>7

\* site.block: an update begins.
LEMMA BlockKeeps ==
  ASSUME ~Hasty, GridInv, NEW p \in Pages, NEW s \in Clickable(p), Block(p, s)
  PROVE  GridInv'
<1>1. p \in open /\ UrlOf(p, s) \in Urls /\ CellOf(grid[p], s) \in Cells BY ClickableSites
<1> DEFINE e == [index |-> CellOf(grid[p], s), url |-> UrlOf(p, s),
                 wasPinned |-> UrlOf(p, s) \in Range(pinned)]
<1>2. /\ firing = <<>> /\ firing' = firing /\ open' = open /\ ready' = ready
      /\ undo' = [undo EXCEPT ![p] = e] /\ blocked' = blocked \cup {UrlOf(p, s)}
      /\ pinned' = Unpinned(pinned, UrlOf(p, s)) /\ provided' = provided /\ Update(p)
  BY DEF Block, Step, Idle
<1>3. e.index \in Cells /\ e.url \in Urls BY <1>1
<1> HIDE DEF e
<1>4. UndoTyped(undo') BY <1>2, <1>3 DEF GridInv, Typed, UndoTyped
<1>5. provided' \in Providers /\ blocked' \in SUBSET Urls BY <1>1, <1>2 DEF GridInv, Typed
<1>6. pinned' \in Pins BY <1>1, <1>2, PinsStay DEF GridInv, Typed
<1> QED BY <1>1, <1>2, <1>4, <1>5, <1>6, UpdateStep

\* site.unpin: an update begins.
LEMMA UnpinKeeps ==
  ASSUME ~Hasty, GridInv, NEW p \in Pages, NEW s \in Clickable(p), Unpin(p, s)
  PROVE  GridInv'
<1>1. p \in open /\ UrlOf(p, s) \in Urls /\ CellOf(grid[p], s) \in Cells BY ClickableSites
<1>2. /\ firing = <<>> /\ firing' = firing /\ open' = open /\ ready' = ready
      /\ undo' = undo /\ blocked' = blocked
      /\ pinned' = Unpinned(pinned, UrlOf(p, s)) /\ provided' = provided /\ Update(p)
  BY DEF Unpin, Step, Idle
<1>3. UndoTyped(undo') BY <1>2 DEF GridInv, Typed
<1>4. provided' \in Providers /\ blocked' \in SUBSET Urls BY <1>2 DEF GridInv, Typed
<1>5. pinned' \in Pins BY <1>1, <1>2, PinsStay DEF GridInv, Typed
<1> QED BY <1>1, <1>2, <1>3, <1>4, <1>5, UpdateStep

\* gDrop.drop: an update begins.
LEMMA DropLinkKeeps ==
  ASSUME ~Hasty, GridInv, NEW p \in Pages, NEW u \in Urls, NEW c \in Cells, DropLink(p, u, c)
  PROVE  GridInv'
<1>1. /\ firing = <<>> /\ firing' = firing /\ open' = open /\ ready' = ready /\ p \in open
      /\ undo' = undo /\ blocked' = blocked \ {u}
      /\ pinned' = PinnedAt(pinned, u, c) /\ provided' = provided /\ Update(p)
  BY DEF DropLink, Step, Idle
<1>2. UndoTyped(undo') BY <1>1 DEF GridInv, Typed
<1>3. provided' \in Providers /\ blocked' \in SUBSET Urls BY <1>1 DEF GridInv, Typed
<1>4. pinned' \in Pins BY <1>1, PinsStay DEF GridInv, Typed
<1> QED BY <1>1, <1>2, <1>3, <1>4, UpdateStep

\* _undo: an update begins.
LEMMA UndoKeeps ==
  ASSUME ~Hasty, GridInv, NEW p \in Pages, Undo(p)
  PROVE  GridInv'
<1>1. /\ firing = <<>> /\ firing' = firing /\ open' = open /\ ready' = ready /\ p \in open
      /\ undo[p] # NoUndo /\ undo' = [undo EXCEPT ![p] = NoUndo] /\ blocked' = blocked \ {undo[p].url}
      /\ pinned' = IF undo[p].wasPinned THEN PinnedAt(pinned, undo[p].url, undo[p].index) ELSE pinned
      /\ provided' = provided /\ Update(p)
  BY DEF Undo, Step, Idle
<1>2. undo[p].index \in Cells /\ undo[p].url \in Urls BY <1>1 DEF GridInv, Typed, UndoTyped
<1>3. UndoTyped(undo') BY <1>1 DEF GridInv, Typed, UndoTyped
<1>4. provided' \in Providers /\ blocked' \in SUBSET Urls BY <1>1 DEF GridInv, Typed
<1>5. pinned' \in Pins
  <2>1. pinned \in Pins BY DEF GridInv, Typed
  <2>2. PinnedAt(pinned, undo[p].url, undo[p].index) \in Pins BY <2>1, <1>2, PinsStay
  <2> QED BY <2>1, <2>2, <1>1
<1> QED BY <1>1, <1>3, <1>4, <1>5, UpdateStep

\* The links have been read again: an update begins.
LEMMA RestoredKeeps ==
  ASSUME ~Hasty, GridInv, NEW p \in Pages, Restored(p)
  PROVE  GridInv'
<1>1. /\ firing = <<>> /\ firing' = firing /\ open' = open /\ ready' = ready /\ p \in open
      /\ UNCHANGED links /\ undo' = [undo EXCEPT ![p] = NoUndo] /\ Update(p)
  BY DEF Restored, Idle
<1>2. UNCHANGED <<provided, pinned, blocked>> BY <1>1, LinksStayPut
<1>3. UndoTyped(undo') BY <1>1 DEF GridInv, Typed, UndoTyped
<1>4. provided' \in Providers /\ pinned' \in Pins /\ blocked' \in SUBSET Urls
  BY <1>2 DEF GridInv, Typed
<1> QED BY <1>1, <1>3, <1>4, UpdateStep

\* gGrid.init: the grid is made.
LEMMA PopulatedKeeps ==
  ASSUME ~Hasty, GridInv, NEW p \in Pages, Populated(p)
  PROVE  GridInv'
<1>1. /\ firing = <<>> /\ p \in open /\ UNCHANGED links /\ Refresh(p) /\ ready' = ready \cup {p}
      /\ UNCHANGED <<open, restoring, undo, firing>> /\ timer' = timer
  BY DEF Populated, Idle
<1> QED BY <1>1, RefreshStep

\* The timer of a page: its grid is made anew, if it is ready.
LEMMA TimerFiresKeeps ==
  ASSUME ~Hasty, GridInv, NEW p \in Pages, TimerFires(p)
  PROVE  GridInv'
<1>1. /\ firing = <<>> /\ p \in open /\ UNCHANGED links /\ timer' = timer \ {p}
      /\ UNCHANGED <<open, ready, restoring, undo, firing>>
      /\ IF p \in ready THEN Refresh(p) ELSE UNCHANGED <<grid, behind>>
  BY DEF TimerFires, Idle
<1>2. CASE p \in ready
  <2>1. Refresh(p) /\ ready' \subseteq ready \cup {p} /\ timer \ {p} \subseteq timer' BY <1>1, <1>2
  <2> QED BY <2>1, <1>1, RefreshStep
<1>3. CASE p \notin ready
  <2>1. UndoTyped(undo') BY <1>1 DEF GridInv, Typed
  <2>2. \A q \in ready : q \in timer => q \in timer' BY <1>1, <1>3
  <2>3. UNCHANGED <<open, ready, restoring, grid, behind, firing>> BY <1>1, <1>3
  <2> QED BY <2>1, <2>2, <2>3, <1>1, OtherStep
<1> QED BY <1>2, <1>3

\* The first visibilitychange: the update that was put off is done.
LEMMA BecomesVisibleKeeps ==
  ASSUME ~Hasty, GridInv, NEW p \in Pages, BecomesVisible(p)
  PROVE  GridInv'
<1>1. /\ firing = <<>> /\ firing' = firing /\ p \in open /\ UNCHANGED links
      /\ UNCHANGED <<open, ready, restoring, undo>>
  BY DEF BecomesVisible, Step, Idle
<1>2. UndoTyped(undo') BY <1>1 DEF GridInv, Typed
<1>3. CASE p \in listening /\ p \in timer /\ p \in ready
  <2>1. timer' = timer \ {p} /\ Refresh(p) BY <1>3 DEF BecomesVisible
  <2>2. ready' \subseteq ready \cup {p} /\ timer \ {p} \subseteq timer' BY <2>1, <1>1
  <2> QED BY <2>1, <2>2, <1>1, RefreshStep
<1>4. CASE p \in listening /\ p \in timer /\ p \notin ready
  <2>1. timer' = timer \ {p} /\ UNCHANGED <<grid, behind>> BY <1>4 DEF BecomesVisible
  <2>2. \A q \in ready : q \in timer => q \in timer' BY <2>1, <1>4
  <2>3. UNCHANGED <<open, ready, restoring, grid, behind, firing>> BY <2>1, <1>1
  <2> QED BY <2>2, <2>3, <1>1, <1>2, OtherStep
<1>5. CASE ~(p \in listening /\ p \in timer)
  <2>1. UNCHANGED <<timer, grid, behind>> BY <1>5 DEF BecomesVisible
  <2>2. \A q \in ready : q \in timer => q \in timer' BY <2>1
  <2>3. UNCHANGED <<open, ready, restoring, grid, behind, firing>> BY <2>1, <1>1
  <2> QED BY <2>2, <2>3, <1>1, <1>2, OtherStep
<1> QED BY <1>3, <1>4, <1>5

\* No grid and no link changes.
LEMMA BecomesHiddenKeeps ==
  ASSUME GridInv, NEW p \in Pages, BecomesHidden(p) \/ HideUndo(p)
  PROVE  GridInv'
<1>1. /\ UNCHANGED <<open, ready, restoring, grid, behind, firing>> /\ UNCHANGED links
      /\ timer' = timer
  BY DEF BecomesHidden, HideUndo, Step, links, page
<1>2. undo' = undo \/ undo' = [undo EXCEPT ![p] = NoUndo] BY DEF BecomesHidden, HideUndo
<1>3. UndoTyped(undo') BY <1>2 DEF GridInv, Typed, UndoTyped
<1>4. \A q \in ready : q \in timer => q \in timer' BY <1>1
<1> QED BY <1>1, <1>3, <1>4, OtherStep

\* _undoAll: the page that asked for it will update.
LEMMA UndoAllKeeps ==
  ASSUME GridInv, NEW p \in Pages, UndoAll(p)
  PROVE  GridInv'
<1>1. /\ p \in open /\ pinned' = [c \in Cells |-> None] /\ blocked' = {} /\ provided' = provided
      /\ restoring' = restoring \cup {p}
      /\ UNCHANGED <<open, ready, timer, undo, grid, behind, firing>>
  BY DEF UndoAll, Step
<1>2. pinned' \in Pins BY <1>1 DEF Pins
<1>3. Typed' BY <1>1, <1>2 DEF GridInv, Typed
<1>4. \A q : Due(q)' = Due(q) BY <1>1 DEF Due
<1>5. restoring' \cap open' # {} BY <1>1
<1>6. \A q \in (open' \cap ready') \ behind' : Follows(q)' BY <1>5 DEF Follows
<1>7. OneFires(firing') BY <1>1 DEF GridInv
<1>8. \A q \in Pages : PageOk(grid'[q], Due(q)') BY <1>1, <1>4 DEF GridInv
<1> QED BY <1>3, <1>6, <1>7, <1>8 DEF GridInv

\* The providers have other links: hidden pages will be updated, the others are
\* not to follow.
LEMMA LinksChangeKeeps ==
  ASSUME GridInv, LinksChange
  PROVE  GridInv'
<1>1. /\ provided' \in Providers /\ UNCHANGED <<pinned, blocked>>
      /\ timer' = timer \cup (open \cap hidden) /\ behind' = behind \cup (open \ hidden)
      /\ UNCHANGED <<open, ready, restoring, undo, grid, firing>>
  BY DEF LinksChange, Step, Notified
<1>2. Typed' BY <1>1 DEF GridInv, Typed
<1>3. \A q : Due(q)' = Due(q) BY <1>1 DEF Due
<1>4. \A q \in (open' \cap ready') \ behind' : Follows(q)'
  <2> SUFFICES ASSUME NEW q \in (open \cap ready) \ behind' PROVE Follows(q)' BY <1>1
  <2>1. q \in timer' BY <1>1
  <2> QED BY <2>1 DEF Follows
<1>5. OneFires(firing') BY <1>1 DEF GridInv
<1>6. \A q \in Pages : PageOk(grid'[q], Due(q)') BY <1>1, <1>3 DEF GridInv
<1> QED BY <1>2, <1>4, <1>5, <1>6 DEF GridInv

\* A page is closed: no other waits for it.
LEMMA UnloadKeeps ==
  ASSUME ~Hasty, GridInv, NEW p \in Pages, Unload(p)
  PROVE  GridInv'
<1>1. /\ firing = <<>> /\ ~Busy(grid[p]) /\ p \notin restoring
      /\ open' = open \ {p} /\ grid' = [grid EXCEPT ![p] = EmptyGrid] /\ UNCHANGED links
      /\ UNCHANGED <<ready, timer, restoring, undo, behind, firing>>
  BY DEF Unload, Step, Idle, MayTouch
<1>2. open \in SUBSET Pages /\ DOMAIN grid = Pages BY DEF GridInv, Typed
<1>3. \A q \in Pages : PageOk(grid[q], {}) BY <1>1, IdlePages
<1>4. Current' = Current /\ UNCHANGED <<provided, pinned, blocked>> BY <1>1, LinksStayPut
<1>5. ~InProgress(grid[p]) BY <1>1, <1>3, NotBusyRests
<1>6. DOMAIN grid' = Pages /\ grid'[p] = EmptyGrid /\ \A q \in Pages : q # p => grid'[q] = grid[q]
  BY <1>1, <1>2
<1>7. \A q \in Pages : PageOk(grid'[q], {})
  <2>1. PageOk(EmptyGrid, {}) BY EmptyIsSound DEF PageOk
  <2> QED BY <2>1, <1>3, <1>6
<1>8. ASSUME NEW q \in (open' \cap ready') \ behind' PROVE Follows(q)'
  <2>1. q \in (open \cap ready) \ behind /\ q # p /\ q \in Pages BY <1>1, <1>2
  <2>2. Follows(q) BY <2>1 DEF GridInv
  <2>3. grid'[q] = grid[q] BY <2>1, <1>6
  <2>4. CASE q \in timer BY <2>4, <1>1 DEF Follows
  <2>5. CASE restoring \cap open # {}
    <3>1. restoring' \cap open' # {} BY <2>5, <1>1
    <3> QED BY <3>1 DEF Follows
  <2>6. CASE AllDone(grid[q]) /\ Shows(grid[q], Current)
    <3>1. AllDone(grid'[q]) /\ Shows(grid'[q], Current') BY <2>3, <2>6, <1>4
    <3> QED BY <3>1 DEF Follows
  <2>7. CASE \E r \in open : Updating(grid[r], Current)
    <3>1. PICK r \in open : Updating(grid[r], Current) BY <2>7
    <3>2. r # p BY <3>1, <1>5 DEF Updating
    <3>3. r \in open' /\ Updating(grid'[r], Current') BY <3>1, <3>2, <1>1, <1>2, <1>4, <1>6
    <3> QED BY <3>3 DEF Follows
  <2> QED BY <2>2, <2>4, <2>5, <2>6, <2>7 DEF Follows
<1>9. Typed' BY <1>1, <1>2, <1>4, <1>6 DEF GridInv, Typed
<1>10. OneFires(firing') BY <1>1 DEF GridInv
<1>11. \A q \in Pages : PageOk(grid'[q], Due(q)')
  <2>1. \A q : Due(q)' = {} BY <1>1, NoneDue DEF Due
  <2> QED BY <2>1, <1>7
<1> QED BY <1>8, <1>9, <1>10, <1>11 DEF GridInv

\* A site is pinned where it is: pages that are told show it, and the others
\* have the links that they should have, or are not to follow.
LEMMA PinKeeps ==
  ASSUME ~Hasty, GridInv, NEW p \in Pages, NEW s \in Clickable(p), NEW changed \in BOOLEAN,
         Pin(p, s, changed)
  PROVE  GridInv'
<1>1. p \in open /\ UrlOf(p, s) \in Urls /\ CellOf(grid[p], s) \in Cells BY ClickableSites
<1> DEFINE told == IF changed THEN Notified(open \ {p}, FALSE) ELSE Nobody
<1>2. PICK T : T = told OBVIOUS
<1>3. T.refresh \subseteq open BY <1>2 DEF Notified, Nobody
<1>4. /\ firing = <<>> /\ pinned' = PinnedAt(pinned, UrlOf(p, s), CellOf(grid[p], s))
      /\ UNCHANGED <<provided, blocked>> /\ UNCHANGED <<open, ready, restoring, undo, firing>>
  BY DEF Pin, Step, Idle
<1>5. /\ \A q \in T.refresh : ~Busy(grid[q])
      /\ grid' = [q \in Pages |-> IF q \in T.refresh THEN Refreshed(Links) ELSE grid[q]]
      /\ timer' = timer \cup T.delay
      /\ behind' = (IF Links = Current THEN behind ELSE open) \ T.refresh
  BY <1>2 DEF Pin, MayTouch, Current
<1>6. pinned' \in Pins BY <1>1, <1>4, PinsStay DEF GridInv, Typed
<1>7. provided' \in Providers /\ blocked' \in SUBSET Urls /\ open \in SUBSET Pages
  BY <1>4 DEF GridInv, Typed
<1>8. Links \in LinkList /\ Links = Current' BY <1>6, <1>7, LinksAfter
<1>9. PICK ls \in LinkList : ls = Links BY <1>8
<1>10. Sound(Refreshed(ls)) /\ Rest(Refreshed(ls), {}) /\ Shows(Refreshed(ls), ls) BY RefreshedShows
<1>11. \A q \in Pages : PageOk(grid[q], {}) BY <1>4, IdlePages
<1>12. \A q \in Pages : PageOk(grid'[q], {})
  <2>1. PageOk(Refreshed(ls), {}) BY <1>10 DEF PageOk
  <2> QED BY <2>1, <1>5, <1>9, <1>11
<1>13. ASSUME NEW q \in (open' \cap ready') \ behind' PROVE Follows(q)'
  <2>1. q \in open \cap ready /\ q \in Pages BY <1>4, <1>7
  <2>2. CASE q \in T.refresh
    <3>1. grid'[q] = Refreshed(ls) BY <2>1, <2>2, <1>5, <1>9
    <3>2. AllDone(grid'[q]) /\ Shows(grid'[q], Current') BY <3>1, <1>8, <1>9, <1>10 DEF Rest
    <3> QED BY <3>2 DEF Follows
  <2>3. CASE q \notin T.refresh
    <3>1. Links = Current /\ q \notin behind BY <2>1, <2>3, <1>5
    <3>2. Follows(q) BY <2>1, <3>1 DEF GridInv
    <3>3. grid'[q] = grid[q] BY <2>1, <2>3, <1>5
    <3>4. Current' = Current BY <3>1, <1>8
    <3>5. CASE q \in timer
      <4>1. q \in timer' BY <3>5, <1>5
      <4> QED BY <4>1 DEF Follows
    <3>6. CASE restoring \cap open # {} BY <3>6, <1>4 DEF Follows
    <3>7. CASE AllDone(grid[q]) /\ Shows(grid[q], Current)
      <4>1. AllDone(grid'[q]) /\ Shows(grid'[q], Current') BY <3>3, <3>4, <3>7
      <4> QED BY <4>1 DEF Follows
    <3>8. CASE \E r \in open : Updating(grid[r], Current)
      <4>1. PICK r \in open : Updating(grid[r], Current) BY <3>8
      <4>2. r \in Pages BY <1>7
      <4>3. r \notin T.refresh
        <5> SUFFICES ASSUME r \in T.refresh PROVE FALSE OBVIOUS
        <5>1. ~InProgress(grid[r]) BY <4>2, <1>5, <1>11, NotBusyRests
        <5> QED BY <5>1, <4>1 DEF Updating
      <4>4. r \in open' /\ Updating(grid'[r], Current') BY <4>1, <4>2, <4>3, <3>4, <1>4, <1>5
      <4> QED BY <4>4 DEF Follows
    <3> QED BY <3>2, <3>5, <3>6, <3>7, <3>8 DEF Follows
  <2> QED BY <2>2, <2>3
<1>14. DOMAIN grid' = Pages BY <1>5
<1>15. Typed' BY <1>4, <1>6, <1>7, <1>14 DEF GridInv, Typed
<1>16. OneFires(firing') BY <1>4 DEF GridInv
<1>17. \A q \in Pages : PageOk(grid'[q], Due(q)')
  <2>1. \A q : Due(q)' = {} BY <1>4, NoneDue DEF Due
  <2> QED BY <2>1, <1>12
<1> QED BY <1>13, <1>15, <1>16, <1>17 DEF GridInv

\* An event takes the listeners of a node.
LEMMA EventStep ==
  ASSUME GridInv, firing = <<>>, NEW p \in Pages, NEW s \in Attached(grid[p]), NEW list,
         NEW h, EventTakes(h, grid[p], s, list), grid' = [grid EXCEPT ![p] = h],
         firing' = Listeners(p, s, list), UNCHANGED links, UNCHANGED page, UNCHANGED <<undo, behind>>
  PROVE  GridInv'
<1> USE DEF EventTakes
<1>1. DOMAIN grid = Pages /\ open \in SUBSET Pages BY DEF GridInv, Typed
<1>2. /\ \A q \in Pages : PageOk(grid[q], {}) BY IdlePages
<1>3. DOMAIN grid' = Pages /\ grid'[p] = h /\ \A q \in Pages : q # p => grid'[q] = grid[q]
  BY <1>1
<1>4. UNCHANGED <<open, ready, timer, restoring>> BY DEF page
<1>5. Current' = Current /\ UNCHANGED <<provided, pinned, blocked>> BY LinksStayPut
<1>6. Typed' BY <1>3, <1>4, <1>5 DEF GridInv, Typed
<1>7. Sound(grid[p]) /\ s \in Nat
  <2>1. Sound(grid[p]) BY <1>2 DEF PageOk
  <2>2. s \in 1..Len(grid[p].nodes) BY <2>1, AttachedAreSites
  <2> QED BY <2>1, <2>2
<1>8. OneFires(firing') /\ Due(p)' = Taken(s, list) /\ \A q \in Pages : q # p => Due(q)' = {}
  <2>1. CASE list = <<>>
    <3>1. firing' = <<>> BY <2>1 DEF Listeners
    <3>2. \A q : Due(q)' = {} BY <3>1, NoneDue DEF Due
    <3> QED BY <2>1, <3>1, <3>2, TakenFromOne DEF OneFires
  <2>2. CASE \E l \in Listener : list = <<l>>
    <3>1. PICK l \in Listener : list = <<l>> BY <2>2
    <3>2. firing' = <<[page |-> p, node |-> s, listener |-> l]>> BY <3>1 DEF Listeners
    <3>3. OneFires(firing') BY <3>2, <1>7 DEF OneFires
    <3>4. /\ DueOf(firing', p) = {[node |-> s, listener |-> l]}
          /\ \A q : q # p => DueOf(firing', q) = {}
      BY <3>2, DueOfOne
    <3>5. Taken(s, list) = {[node |-> s, listener |-> l]} BY <3>1, TakenFromOne
    <3> QED BY <3>3, <3>4, <3>5 DEF Due
  <2> QED BY <2>1, <2>2
<1>9. \A q \in Pages : PageOk(grid'[q], Due(q)') BY <1>2, <1>3, <1>8
<1>10. /\ AllDone(h) <=> AllDone(grid[p])
       /\ \A ls : (Shows(grid[p], ls) => Shows(h, ls)) /\ (Updating(grid[p], ls) => Updating(h, ls))
  BY <1>7, AlikeKeeps
<1>11. ASSUME NEW q \in (open' \cap ready') \ behind' PROVE Follows(q)'
  <2>1. q \in (open \cap ready) \ behind /\ q \in Pages BY <1>1, <1>4
  <2>2. Follows(q) BY <2>1 DEF GridInv
  <2>3. CASE q \in timer \/ restoring \cap open # {} BY <2>3, <1>4 DEF Follows
  <2>4. CASE AllDone(grid[q]) /\ Shows(grid[q], Current)
    <3>1. AllDone(grid'[q]) /\ Shows(grid'[q], Current)
      <4>1. CASE q = p BY <4>1, <2>4, <1>3, <1>10
      <4>2. CASE q # p
        <5>1. grid'[q] = grid[q] BY <4>2, <2>1, <1>3
        <5> QED BY <5>1, <2>4
      <4> QED BY <4>1, <4>2
    <3>2. AllDone(grid'[q]) /\ Shows(grid'[q], Current') BY <3>1, <1>5
    <3> QED BY <3>2 DEF Follows
  <2>5. CASE \E r \in open : Updating(grid[r], Current)
    <3>1. PICK r \in open : Updating(grid[r], Current) BY <2>5
    <3>2. Updating(grid'[r], Current)
      <4>1. CASE r = p BY <4>1, <3>1, <1>3, <1>10
      <4>2. CASE r # p
        <5>1. grid'[r] = grid[r] BY <4>2, <1>1, <1>3
        <5> QED BY <5>1, <3>1
      <4> QED BY <4>1, <4>2
    <3>3. r \in open' /\ Updating(grid'[r], Current') BY <3>1, <3>2, <1>4, <1>5
    <3> QED BY <3>3 DEF Follows
  <2> QED BY <2>2, <2>3, <2>4, <2>5 DEF Follows
<1> QED BY <1>6, <1>8, <1>9, <1>11 DEF GridInv

\* A node without its listeners
LEMMA NodeWithout ==
  ASSUME NEW n \in Node
  PROVE  /\ [n EXCEPT !.fading = FALSE, !.onFade = <<>>] \in Node
         /\ [n EXCEPT !.onFade = <<>>] \in Node
         /\ [n EXCEPT !.sliding = FALSE, !.onSlide = <<>>] \in Node
<1>1. <<>> \in Seq(Listener) OBVIOUS
<1> HIDE DEF Listener
<1> QED BY <1>1 DEF Node

\* What an event finds and leaves.
LEMMA EventSite ==
  ASSUME GridInv, firing = <<>>, NEW p \in Pages, NEW s \in Attached(grid[p])
  PROVE  /\ PageOk(grid[p], {}) /\ Sound(grid[p]) /\ DOMAIN grid = Pages
         /\ grid[p] \in Grid /\ grid[p].nodes \in [1..Len(grid[p].nodes) -> Node]
         /\ s \in 1..Len(grid[p].nodes) /\ grid[p].nodes[s] \in Node
<1>1. PageOk(grid[p], {}) /\ DOMAIN grid = Pages BY IdlePages DEF GridInv, Typed
<1>2. Sound(grid[p]) BY <1>1 DEF PageOk
<1>3. grid[p] \in Grid /\ grid[p].nodes \in Seq(Node) BY <1>2 DEF Sound, Grid
<1>4. s \in 1..Len(grid[p].nodes) BY <1>2, AttachedAreSites
<1>5. grid[p].nodes[s] \in Node BY <1>2, <1>4, SoundSites
<1> QED BY <1>1, <1>2, <1>3, <1>4, <1>5, SeqIsFunction

\* The end of a fade
LEMMA FadeEndsKeeps ==
  ASSUME GridInv, NEW p \in Pages, NEW s \in Attached(grid[p]), FadeEnds(p, s)
  PROVE  GridInv'
<1> DEFINE g == grid[p]
           n == g.nodes[s]
           h == [g EXCEPT !.nodes = [g.nodes EXCEPT ![s] = [n EXCEPT !.fading = FALSE, !.onFade = <<>>]]]
<1>1. /\ firing = <<>> /\ n.fading /\ firing' = Listeners(p, s, n.onFade)
      /\ UNCHANGED links /\ UNCHANGED page /\ UNCHANGED <<undo, behind>>
      /\ grid' = [grid EXCEPT ![p].nodes[s].fading = FALSE, ![p].nodes[s].onFade = <<>>]
  BY DEF FadeEnds, Idle
<1>2. /\ PageOk(g, {}) /\ Sound(g) /\ DOMAIN grid = Pages
      /\ g \in Grid /\ g.nodes \in [1..Len(g.nodes) -> Node]
      /\ s \in 1..Len(g.nodes) /\ n \in Node
  BY <1>1, EventSite
<1>3. grid' = [grid EXCEPT ![p] = h]
  <2>1. PICK G : G = grid OBVIOUS
  <2>2. PICK d : d = G[p] OBVIOUS
  <2>3. PICK nodes : nodes = d.nodes OBVIOUS
  <2>4. PICK e : e = nodes[s] OBVIOUS
  <2>5. /\ p \in DOMAIN G /\ d \in Grid
        /\ nodes \in [1..Len(nodes) -> Node] /\ s \in 1..Len(nodes) /\ e \in Node
    BY <2>1, <2>2, <2>3, <2>4, <1>2
  <2>6. [G EXCEPT ![p].nodes[s].fading = FALSE, ![p].nodes[s].onFade = <<>>]
        = [G EXCEPT ![p] = [d EXCEPT !.nodes = [nodes EXCEPT ![s] = [e EXCEPT !.fading = FALSE, !.onFade = <<>>]]]]
    <3>1. PICK f : f = [e EXCEPT !.fading = FALSE] OBVIOUS
    <3>2. PICK nodes1 : nodes1 = [nodes EXCEPT ![s] = f] OBVIOUS
    <3>3. PICK d1 : d1 = [d EXCEPT !.nodes = nodes1] OBVIOUS
    <3>4. PICK G1 : G1 = [G EXCEPT ![p] = d1] OBVIOUS
    <3>5. [G EXCEPT ![p].nodes[s].fading = FALSE] = G1 BY <2>2, <2>3, <2>4, <3>1, <3>2, <3>3, <3>4
    <3>6. G1[p] = d1 /\ d1.nodes = nodes1 /\ nodes1[s] = f
      BY <2>5, <3>2, <3>3, <3>4 DEF Grid
    <3>7. PICK x : x = [e EXCEPT !.fading = FALSE, !.onFade = <<>>] OBVIOUS
    <3>8. [f EXCEPT !.onFade = <<>>] = x BY <3>1, <3>7
    <3>9. PICK y : y = [nodes EXCEPT ![s] = x] OBVIOUS
    <3>10. [nodes1 EXCEPT ![s] = x] = y BY <3>2, <3>9
    <3>11. PICK z : z = [d EXCEPT !.nodes = y] OBVIOUS
    <3>12. [d1 EXCEPT !.nodes = y] = z BY <3>3, <3>11
    <3>13. [G1 EXCEPT ![p] = z] = [G EXCEPT ![p] = z] BY <3>4
    <3>14. [G1 EXCEPT ![p].nodes[s].onFade = <<>>] = [G1 EXCEPT ![p] = z]
      BY <3>6, <3>8, <3>10, <3>12
    <3>15. [G EXCEPT ![p].nodes[s].fading = FALSE, ![p].nodes[s].onFade = <<>>]
           = [[G EXCEPT ![p].nodes[s].fading = FALSE] EXCEPT ![p].nodes[s].onFade = <<>>]
      OBVIOUS
    <3> QED BY <3>5, <3>7, <3>9, <3>11, <3>13, <3>14, <3>15
  <2> QED BY <2>1, <2>2, <2>3, <2>4, <2>6, <1>1
<1>4. [n EXCEPT !.fading = FALSE, !.onFade = <<>>] \in Node BY <1>2, NodeWithout
<1>5. PICK m \in Node : m = [n EXCEPT !.fading = FALSE, !.onFade = <<>>] BY <1>4
<1>6. OneChanged([g EXCEPT !.nodes = [g.nodes EXCEPT ![s] = m]], g, s, m) BY <1>2, OneNodeChanges
<1>7. PICK k : k = h OBVIOUS
<1>8. OneChanged(k, g, s, [n EXCEPT !.fading = FALSE, !.onFade = <<>>]) BY <1>5, <1>6, <1>7
<1>9. grid' = [grid EXCEPT ![p] = k] BY <1>3, <1>7
<1>10. PICK a : a = n OBVIOUS
<1>11. OneChanged(k, g, s, [a EXCEPT !.fading = FALSE, !.onFade = <<>>]) BY <1>8, <1>10
<1>12. a.fading /\ FALSE \in {a.fading, FALSE} BY <1>1, <1>10
<1> HIDE DEF h, n
<1>13. EventTakes(k, g, s, a.onFade)
  BY <1>2, <1>10, <1>11, <1>12, FadeTakes DEF n
<1>14. firing' = Listeners(p, s, a.onFade) BY <1>1, <1>10
<1> QED BY <1>1, <1>9, <1>13, <1>14, EventStep

\* The end of a transition within the site
LEMMA ControlFadesKeeps ==
  ASSUME GridInv, NEW p \in Pages, NEW s \in Attached(grid[p]), ControlFades(p, s)
  PROVE  GridInv'
<1> DEFINE g == grid[p]
           n == g.nodes[s]
           h == [g EXCEPT !.nodes = [g.nodes EXCEPT ![s] = [n EXCEPT !.onFade = <<>>]]]
<1>1. /\ firing = <<>> /\ n.onFade # <<>> /\ firing' = Listeners(p, s, n.onFade)
      /\ UNCHANGED links /\ UNCHANGED page /\ UNCHANGED <<undo, behind>>
      /\ grid' = [grid EXCEPT ![p].nodes[s].onFade = <<>>]
  BY DEF ControlFades, Idle
<1>2. /\ PageOk(g, {}) /\ Sound(g) /\ DOMAIN grid = Pages
      /\ g \in Grid /\ g.nodes \in [1..Len(g.nodes) -> Node]
      /\ s \in 1..Len(g.nodes) /\ n \in Node
  BY <1>1, EventSite
<1>3. grid' = [grid EXCEPT ![p] = h]
  BY <1>1, <1>2 DEF Grid, Node
<1>4. PICK a : a = n OBVIOUS
<1>5. PICK b : b = a.fading OBVIOUS
<1>6. [n EXCEPT !.onFade = <<>>] = [a EXCEPT !.fading = b, !.onFade = <<>>]
  BY <1>2, <1>4, <1>5 DEF Node
<1>7. [n EXCEPT !.onFade = <<>>] \in Node BY <1>2, NodeWithout
<1>8. PICK m \in Node : m = [n EXCEPT !.onFade = <<>>] BY <1>7
<1>9. OneChanged([g EXCEPT !.nodes = [g.nodes EXCEPT ![s] = m]], g, s, m) BY <1>2, OneNodeChanges
<1>10. PICK k : k = h OBVIOUS
<1>11. OneChanged(k, g, s, [a EXCEPT !.fading = b, !.onFade = <<>>]) BY <1>6, <1>8, <1>9, <1>10
<1>12. grid' = [grid EXCEPT ![p] = k] BY <1>3, <1>10
<1>13. b \in {a.fading, FALSE} BY <1>5
<1>16. a.fading \/ a.onFade # <<>> BY <1>1, <1>4
<1> HIDE DEF h, n
<1>14. EventTakes(k, g, s, a.onFade)
  BY <1>2, <1>4, <1>11, <1>13, <1>16, FadeTakes DEF n
<1>15. firing' = Listeners(p, s, a.onFade) BY <1>1, <1>4
<1> QED BY <1>1, <1>12, <1>14, <1>15, EventStep

\* The end of a slide
LEMMA SlideEndsKeeps ==
  ASSUME GridInv, NEW p \in Pages, NEW s \in Attached(grid[p]), SlideEnds(p, s)
  PROVE  GridInv'
<1> DEFINE g == grid[p]
           n == g.nodes[s]
           h == [g EXCEPT !.nodes = [g.nodes EXCEPT ![s] = [n EXCEPT !.sliding = FALSE, !.onSlide = <<>>]]]
<1>1. /\ firing = <<>> /\ n.sliding /\ firing' = Listeners(p, s, n.onSlide)
      /\ UNCHANGED links /\ UNCHANGED page /\ UNCHANGED <<undo, behind>>
      /\ grid' = [grid EXCEPT ![p].nodes[s].sliding = FALSE, ![p].nodes[s].onSlide = <<>>]
  BY DEF SlideEnds, Idle
<1>2. /\ PageOk(g, {}) /\ Sound(g) /\ DOMAIN grid = Pages
      /\ g \in Grid /\ g.nodes \in [1..Len(g.nodes) -> Node]
      /\ s \in 1..Len(g.nodes) /\ n \in Node
  BY <1>1, EventSite
<1>3. grid' = [grid EXCEPT ![p] = h]
  BY <1>1, <1>2 DEF Grid, Node
<1>4. [n EXCEPT !.sliding = FALSE, !.onSlide = <<>>] \in Node BY <1>2, NodeWithout
<1>5. PICK m \in Node : m = [n EXCEPT !.sliding = FALSE, !.onSlide = <<>>] BY <1>4
<1>6. OneChanged([g EXCEPT !.nodes = [g.nodes EXCEPT ![s] = m]], g, s, m) BY <1>2, OneNodeChanges
<1>7. PICK k : k = h OBVIOUS
<1>8. PICK a : a = n OBVIOUS
<1>9. OneChanged(k, g, s, [a EXCEPT !.sliding = FALSE, !.onSlide = <<>>]) BY <1>5, <1>6, <1>7, <1>8
<1>10. grid' = [grid EXCEPT ![p] = k] BY <1>3, <1>7
<1>11. a.sliding BY <1>1, <1>8
<1> HIDE DEF h, n
<1>12. EventTakes(k, g, s, a.onSlide)
  BY <1>2, <1>8, <1>9, <1>11, SlideTakes DEF n
<1>13. firing' = Listeners(p, s, a.onSlide) BY <1>1, <1>8
<1> QED BY <1>1, <1>10, <1>12, <1>13, EventStep

\* A listener finds its page at rest and leaves it so, or an update goes on.
CalledBack(h, g) ==
  \/ h = g /\ Rest(g, {})
  \/ InProgress(g) /\ Outcome(h, Latest(g).links, Len(g.updates))

\* Whatever listener is called
LEMMA ListenerCalledBack ==
  ASSUME NEW g, NEW s, NEW l, PageOk(g, {[node |-> s, listener |-> l]})
  PROVE  CalledBack(CallBack(g, s, l), g)
<1> DEFINE d == [node |-> s, listener |-> l]
<1>1. d.node = s /\ d.listener = l OBVIOUS
<1>2. Sound(g) BY DEF PageOk
<1>3. PICK D : D = {d} OBVIOUS
<1>4. d \in D BY <1>3
<1>5. PICK u : u = Len(g.updates) OBVIOUS
<1> HIDE DEF d
<1>6. CASE Rest(g, D)
  <2>1. l = Show BY <1>1, <1>4, <1>6 DEF Rest
  <2>2. Rest(g, {[node |-> s, listener |-> Show]}) BY <2>1, <1>3, <1>6 DEF d
  <2>3. CallBack(g, s, Show) = g /\ Rest(g, {}) BY <2>2, <1>2, ShowCalledBack
  <2> QED BY <2>1, <2>3 DEF CalledBack
<1>7. CASE Fading(g, D)
  <2>1. l = RemoveOf(u) BY <1>1, <1>4, <1>5, <1>7 DEF Fading
  <2>2. D = {[node |-> s, listener |-> RemoveOf(u)]} BY <2>1, <1>3 DEF d
  <2>3. Outcome(CallBack(g, s, RemoveOf(u)), Latest(g).links, u)
    BY <2>2, <1>2, <1>5, <1>7, RemoveCalledBack
  <2>4. InProgress(g) BY <1>7 DEF Fading
  <2> QED BY <2>1, <2>3, <2>4, <1>5 DEF CalledBack
<1>8. CASE Sliding(g, D)
  <2>1. l = SlideOf(u) BY <1>1, <1>4, <1>5, <1>8 DEF Sliding
  <2>2. D = {[node |-> s, listener |-> SlideOf(u)]} BY <2>1, <1>3 DEF d
  <2>3. Outcome(CallBack(g, s, SlideOf(u)), Latest(g).links, u)
    BY <2>2, <1>2, <1>5, <1>8, SlideCalledBack
  <2>4. InProgress(g) BY <1>8 DEF Sliding
  <2> QED BY <2>1, <2>3, <2>4, <1>5 DEF CalledBack
<1> QED BY <1>3, <1>6, <1>7, <1>8 DEF PageOk, d

\* The listener that is due
LEMMA FiredListener ==
  ASSUME GridInv, CallListener
  PROVE  \E p \in Pages, s \in Nat, l \in Listener :
           /\ PageOk(grid[p], {[node |-> s, listener |-> l]})
           /\ \A q \in Pages : q # p => PageOk(grid[q], {})
           /\ firing' = <<>>
           /\ \E h \in {CallBack(grid[p], s, l)} : GridBecomes(p, h, Told(p, h), {})
<1>1. firing # <<>> BY DEF CallListener
<1>2. PICK p \in Pages, s \in Nat, l \in Listener : firing = <<[page |-> p, node |-> s, listener |-> l]>>
  BY <1>1 DEF GridInv, OneFires
<1>3. PICK d : d = [page |-> p, node |-> s, listener |-> l] OBVIOUS
<1>4. d.page = p /\ d.node = s /\ d.listener = l BY <1>3
<1>5. firing = <<d>> BY <1>2, <1>3
<1>6. Head(firing) = d /\ Tail(firing) = <<>> BY <1>5
<1>7. firing' = <<>> BY <1>6 DEF CallListener
<1>8. \E f \in {d} : \E h \in {CallBack(grid[f.page], f.node, f.listener)} :
        GridBecomes(f.page, h, Told(f.page, h), {})
  BY <1>6 DEF CallListener
<1>9. \E h \in {CallBack(grid[p], s, l)} : GridBecomes(p, h, Told(p, h), {}) BY <1>4, <1>8
<1>10. DueOf(firing, p) = {[node |-> s, listener |-> l]} /\ \A q : q # p => DueOf(firing, q) = {}
  BY <1>2, DueOfOne
<1>11. PageOk(grid[p], {[node |-> s, listener |-> l]}) BY <1>10 DEF GridInv, Due
<1>12. \A q \in Pages : q # p => PageOk(grid[q], {}) BY <1>10 DEF GridInv, Due
<1> QED BY <1>7, <1>9, <1>11, <1>12

\* The update that a listener ends makes all pages follow; the one that goes on
\* is still waited for.
LEMMA CallListenerKeeps ==
  ASSUME ~Hasty, GridInv, CallListener
  PROVE  GridInv'
<1>1. PICK p \in Pages, s \in Nat, l \in Listener :
           /\ PageOk(grid[p], {[node |-> s, listener |-> l]})
           /\ \A q \in Pages : q # p => PageOk(grid[q], {})
           /\ firing' = <<>>
           /\ \E h \in {CallBack(grid[p], s, l)} : GridBecomes(p, h, Told(p, h), {})
  BY FiredListener
<1>2. PICK h : h = CallBack(grid[p], s, l) /\ GridBecomes(p, h, Told(p, h), {}) BY <1>1
<1>3. CalledBack(h, grid[p]) BY <1>1, <1>2, ListenerCalledBack
<1>4. PICK told : told = Told(p, h) OBVIOUS
<1>5. /\ \A q \in told.refresh : ~Busy(grid[q])
      /\ grid' = [q \in Pages |-> IF q = p THEN h
                                  ELSE IF q \in told.refresh THEN Refreshed(Links) ELSE grid[q]]
      /\ timer' = timer \cup told.delay
      /\ behind' = behind \ told.refresh
  BY <1>2, <1>4 DEF GridBecomes, MayTouch
<1>6. /\ UNCHANGED links /\ UNCHANGED <<open, ready, restoring, undo>> BY DEF CallListener
<1>7. Links = Current /\ Current' = Current /\ UNCHANGED <<provided, pinned, blocked>>
  BY <1>6, LinksStayPut
<1>8. Links \in LinkList BY <1>7, LinksAfter DEF GridInv, Typed
<1>9. open \in SUBSET Pages BY DEF GridInv, Typed
<1>10. PICK ls \in LinkList : ls = Links BY <1>8
<1>11. Sound(Refreshed(ls)) /\ Rest(Refreshed(ls), {}) /\ Shows(Refreshed(ls), ls) BY RefreshedShows
<1>12. PageOk(h, {})
  <2>1. Sound(grid[p]) BY <1>1 DEF PageOk
  <2> QED BY <2>1, <1>3 DEF CalledBack, Outcome, Going, Ended, PageOk
<1>13. ASSUME NEW q \in Pages PROVE PageOk(grid'[q], {})
  <2>1. PageOk(Refreshed(ls), {}) BY <1>11 DEF PageOk
  <2> QED BY <2>1, <1>1, <1>5, <1>10, <1>12
<1>14. /\ Finished(h) > Finished(grid[p]) =>
               told.refresh = ((open \ {p}) \cap ready) \ hidden /\ told.delay = (open \ {p}) \cap hidden
       /\ ~(Finished(h) > Finished(grid[p])) => told.refresh = {} /\ told.delay = {}
       /\ told.refresh \subseteq open \ {p}
  BY <1>4, ToldPages
<1>15. grid'[p] = h BY <1>5
<1>16. \A q \in Pages : q # p /\ q \notin told.refresh => grid'[q] = grid[q] BY <1>5
<1>17. \A r \in open : r # p /\ InProgress(grid[r]) => grid'[r] = grid[r]
  <2> SUFFICES ASSUME NEW r \in open, r # p, InProgress(grid[r]) PROVE grid'[r] = grid[r] OBVIOUS
  <2>1. r \in Pages BY <1>9
  <2>2. PageOk(grid[r], {}) BY <2>1, <1>1
  <2>3. Busy(grid[r]) BY <2>2, NotBusyRests
  <2>4. r \notin told.refresh BY <2>3, <1>5
  <2> QED BY <2>1, <2>4, <1>16
<1>18. ASSUME NEW q \in (open' \cap ready') \ behind', q \in told.refresh PROVE Follows(q)'
  <2>1. q # p /\ q \in Pages BY <1>9, <1>14, <1>18
  <2>2. grid'[q] = Refreshed(ls) BY <2>1, <1>5, <1>10, <1>18
  <2>3. AllDone(grid'[q]) /\ Shows(grid'[q], Current') BY <2>2, <1>7, <1>10, <1>11 DEF Rest
  <2> QED BY <2>3 DEF Follows
<1>19. ASSUME NEW q \in (open' \cap ready') \ behind', q \notin told.refresh PROVE Follows(q)'
  <2>1. q \in (open \cap ready) \ behind /\ q \in Pages BY <1>5, <1>6, <1>9, <1>19
  <2>2. Follows(q) BY <2>1 DEF GridInv
  <2>3. CASE q \in timer
    <3>1. q \in timer' BY <2>3, <1>5
    <3> QED BY <3>1 DEF Follows
  <2>4. CASE restoring \cap open # {} BY <2>4, <1>6 DEF Follows
  <2>5. CASE AllDone(grid[q]) /\ Shows(grid[q], Current)
    <3>1. grid'[q] = grid[q]
      <4>1. CASE q = p
        <5>1. ~InProgress(grid[p])
          <6> SUFFICES ASSUME InProgress(grid[p]) PROVE FALSE OBVIOUS
          <6>1. Sound(grid[p]) BY <1>1 DEF PageOk
          <6>2. Len(grid[p].updates) \in Nat BY <6>1, SoundSites
          <6>3. Finished(grid[p]) = Len(grid[p].updates) BY <6>1, <4>1, <2>5, FinishedUpdates
          <6>4. Finished(grid[p]) = Len(grid[p].updates) - 1 BY <6>1, FinishedUpdates
          <6> QED BY <6>2, <6>3, <6>4
        <5>2. h = grid[p] BY <5>1, <1>3 DEF CalledBack
        <5> QED BY <5>2, <4>1, <1>15
      <4>2. CASE q # p BY <4>2, <2>1, <1>16, <1>19
      <4> QED BY <4>1, <4>2
    <3>2. AllDone(grid'[q]) /\ Shows(grid'[q], Current') BY <3>1, <2>5, <1>7
    <3> QED BY <3>2 DEF Follows
  <2>6. CASE \E r \in open : Updating(grid[r], Current)
    <3>1. PICK r \in open : Updating(grid[r], Current) BY <2>6
    <3>2. InProgress(grid[r]) /\ Latest(grid[r]).links = Current BY <3>1 DEF Updating
    <3>3. CASE r # p
      <4>1. r \in open' /\ Updating(grid'[r], Current') BY <3>1, <3>2, <3>3, <1>6, <1>7, <1>17
      <4> QED BY <4>1 DEF Follows
    <3>4. CASE r = p
      <4>1. PICK u : u = Len(grid[p].updates) OBVIOUS
      <4>2. Sound(grid[p]) BY <1>1 DEF PageOk
      <4>3. u \in Nat BY <4>1, <4>2, SoundSites
      <4>4. Finished(grid[p]) = u - 1 BY <4>1, <4>2, <3>2, <3>4, FinishedUpdates
      <4>5. CASE h = grid[p]
        <5>1. r \in open' /\ Updating(grid'[r], Current') BY <4>5, <3>1, <3>4, <1>6, <1>7, <1>15
        <5> QED BY <5>1 DEF Follows
      <4>6. CASE Going(h, Current, u)
        <5>1. Updating(h, Current) BY <4>6 DEF Going, Fading, Sliding, Updating
        <5>2. r \in open' /\ Updating(grid'[r], Current') BY <5>1, <3>1, <3>4, <1>6, <1>7, <1>15
        <5> QED BY <5>2 DEF Follows
      <4>7. CASE Ended(h, Current, u)
        <5>1. Sound(h) /\ AllDone(h) /\ Shows(h, Current) /\ Len(h.updates) = u
          BY <4>7 DEF Ended, Rest
        <5>2. Finished(h) = u BY <5>1, FinishedUpdates
        <5>3. Finished(h) > Finished(grid[p]) BY <5>2, <4>3, <4>4
        <5>4. q \in timer' \/ q = p BY <5>3, <2>1, <1>5, <1>14, <1>19
        <5>5. CASE q = p
          <6>1. AllDone(grid'[q]) /\ Shows(grid'[q], Current') BY <5>1, <5>5, <1>7, <1>15
          <6> QED BY <6>1 DEF Follows
        <5>6. CASE q \in timer' BY <5>6 DEF Follows
        <5> QED BY <5>4, <5>5, <5>6
      <4>8. h = grid[p] \/ Going(h, Current, u) \/ Ended(h, Current, u)
        BY <4>1, <3>2, <3>4, <1>3 DEF CalledBack, Outcome
      <4> QED BY <4>5, <4>6, <4>7, <4>8
    <3> QED BY <3>3, <3>4
  <2> QED BY <2>2, <2>3, <2>4, <2>5, <2>6 DEF Follows
<1>20. DOMAIN grid' = Pages BY <1>5
<1>21. Typed' BY <1>6, <1>7, <1>20 DEF GridInv, Typed
<1>22. OneFires(firing') BY <1>1 DEF OneFires
<1>23. \A q \in Pages : PageOk(grid'[q], Due(q)')
  <2>1. \A q : Due(q)' = {} BY <1>1, NoneDue DEF Due
  <2> QED BY <2>1, <1>13
<1> QED BY <1>18, <1>19, <1>21, <1>22, <1>23 DEF GridInv

-----------------------------------------------------------------------------
\* The specification.

\* Every step keeps the invariant.
LEMMA StepKeepsInv ==
  ASSUME ~Hasty, GridInv, [Next]_vars
  PROVE  GridInv'
<1>1. CASE LinksChange BY <1>1, LinksChangeKeeps
<1>2. CASE CallListener BY <1>2, CallListenerKeeps
<1>3. ASSUME NEW p \in Pages,
             \/ Populated(p) \/ TimerFires(p) \/ BecomesVisible(p) \/ BecomesHidden(p)
             \/ Unload(p) \/ Undo(p) \/ UndoAll(p) \/ Restored(p) \/ HideUndo(p)
      PROVE  GridInv'
  BY <1>3, PopulatedKeeps, TimerFiresKeeps, BecomesVisibleKeeps, BecomesHiddenKeeps,
     UnloadKeeps, UndoKeeps, UndoAllKeeps, RestoredKeeps
<1>4. ASSUME NEW p \in Pages, NEW s \in Clickable(p),
             Block(p, s) \/ Unpin(p, s) \/ (\E changed \in BOOLEAN : Pin(p, s, changed))
      PROVE  GridInv'
  BY <1>4, BlockKeeps, UnpinKeeps, PinKeeps
<1>5. ASSUME NEW p \in Pages, NEW u \in Urls, NEW c \in Cells, DropLink(p, u, c)
      PROVE  GridInv'
  BY <1>5, DropLinkKeeps
<1>6. ASSUME NEW p \in Pages, NEW s \in Attached(grid[p]),
             FadeEnds(p, s) \/ SlideEnds(p, s) \/ ControlFades(p, s)
      PROVE  GridInv'
  BY <1>6, FadeEndsKeeps, SlideEndsKeeps, ControlFadesKeeps
<1>7. CASE UNCHANGED vars
  <2>1. /\ UNCHANGED links /\ UNCHANGED <<open, ready, restoring, grid, behind, firing>>
        /\ timer' = timer /\ undo' = undo
    BY <1>7 DEF vars, page
  <2>2. UndoTyped(undo') BY <2>1 DEF GridInv, Typed
  <2>3. \A q \in ready : q \in timer => q \in timer' BY <2>1
  <2> QED BY <2>1, <2>2, <2>3, OtherStep
<1>8. CASE Next BY <1>1, <1>2, <1>3, <1>4, <1>5, <1>6, <1>8 DEF Next
<1> QED BY <1>7, <1>8

\* GridInv: the grids are sound, every page is at rest or its latest update waits
\* for exactly the sites that still have a listener, and whichever page does not
\* show the links as they are will be made to (gUpdater.updateGrid, gPage.update).
THEOREM GridInvariant ==
  ASSUME ~Hasty
  PROVE  Spec => []GridInv
<1>1. Init => GridInv
  <2> SUFFICES ASSUME Init PROVE GridInv OBVIOUS
  <2>1. /\ provided \in Providers /\ pinned = [c \in Cells |-> None] /\ blocked = {}
        /\ open = Pages /\ ready = {} /\ undo = [p \in Pages |-> [index |-> 0]]
        /\ grid = [p \in Pages |-> EmptyGrid] /\ firing = <<>>
    BY DEF Init
  <2>2. pinned \in Pins BY <2>1 DEF Pins
  <2>3. UndoTyped(undo) BY <2>1 DEF UndoTyped, NoUndo
  <2>4. Typed BY <2>1, <2>2, <2>3 DEF Typed
  <2>5. PageOk(EmptyGrid, {}) BY EmptyIsSound DEF PageOk
  <2>6. \A p \in Pages : PageOk(grid[p], Due(p)) BY <2>1, <2>5, NoneDue DEF Due
  <2>7. OneFires(firing) BY <2>1 DEF OneFires
  <2> QED BY <2>1, <2>4, <2>6, <2>7 DEF GridInv
<1>2. GridInv /\ [Next]_vars => GridInv' BY StepKeepsInv
<1> QED BY <1>1, <1>2, PTL DEF Spec

\* Once nothing moves, no timer is set and no listener is due, a page that
\* follows shows the links.
LEMMA RestShows ==
  ASSUME GridInv, Quiet, NEW p \in (open \cap ready) \ behind
  PROVE  Agrees(p)
<1> DEFINE g == grid[p]
           ls == Current
<1>1. firing = <<>> /\ restoring \cap open = {} /\ timer \cap open = {}
      /\ \A q \in open : ~Moving(grid[q])
  BY DEF Quiet, Idle
<1>2. open \in SUBSET Pages /\ provided \in Providers /\ pinned \in Pins BY DEF GridInv, Typed
<1>3. \A q \in Pages : PageOk(grid[q], {}) BY <1>1, IdlePages
<1>4. \A q \in open : Rest(grid[q], {}) /\ ~InProgress(grid[q]) BY <1>1, <1>2, <1>3, StillRests
<1>5. Follows(p) BY DEF GridInv
<1>6. Shows(g, ls) BY <1>1, <1>4, <1>5 DEF Follows, Updating
<1>7. Sound(g) /\ Rest(g, {}) BY <1>2, <1>3, <1>4 DEF PageOk
<1>8. ls \in LinkList BY <1>2, LinksHavePlaces DEF Current
<1>9. DOMAIN ls = 1..Len(ls) BY <1>8, LinkPlaces
<1>10. \A c \in Cells : g.cells[c] = Holding(Site(g, c)) BY <1>7, SoundSites
<1> HIDE DEF g, ls
<1>11. ASSUME NEW c \in Cells, c \in DOMAIN ls /\ ls[c] # None
       PROVE  Len(g.cells[c]) = 1 /\ g.nodes[Site(g, c)].url = ls[c]
              /\ ~g.nodes[Site(g, c)].frozen /\ g.nodes[Site(g, c)].opacity = 1
  <2>1. Site(g, c) # 0 /\ g.nodes[Site(g, c)].url = ls[c]
    <3>1. c \in 1..Len(ls) /\ ls[c] # None BY <1>9, <1>11
    <3> QED BY <3>1, <1>6 DEF Shows
  <2>2. Len(g.cells[c]) = 1
    <3>1. g.cells[c] = <<Site(g, c)>> BY <2>1, <1>10 DEF Holding
    <3>2. PICK s : s = Site(g, c) OBVIOUS
    <3>3. Len(<<s>>) = 1 OBVIOUS
    <3> QED BY <3>1, <3>2, <3>3
  <2>3. Site(g, c) \in Attached(g) BY <2>1, <1>7, AttachedAreSites
  <2>4. Settled(g.nodes[Site(g, c)]) BY <2>3, <1>7 DEF Rest
  <2> QED BY <2>1, <2>2, <2>4 DEF Settled
<1>12. ASSUME NEW c \in Cells, ~(c \in DOMAIN ls /\ ls[c] # None)
       PROVE  g.cells[c] = <<>>
  <2>1. Site(g, c) = 0 BY <1>6, <1>9, <1>12 DEF Shows
  <2> QED BY <2>1, <1>10 DEF Holding
<1> QED BY <1>11, <1>12 DEF Agrees, g, ls, Current

\* Synchronized: when everything has come to rest, every open page shows the links
\* as they are pinned and blocked, whichever page changed them.
THEOREM PagesSynchronized ==
  ASSUME ~Hasty
  PROVE  Spec => []Synchronized
<1>1. GridInv => Synchronized BY RestShows DEF Synchronized
<1> QED BY <1>1, GridInvariant, PTL

\* No update waits for a site that will not call back.
NoneHangs == Idle => \A p \in Pages : Moving(grid[p]) \/ AllDone(grid[p])

\* NoneHangs: an update is done, and the others told, unless a site of its page
\* still fades or slides (the batch of gUpdater._removeLegacySites and
\* _rearrangeSites).
THEOREM UpdatesEnd ==
  ASSUME ~Hasty
  PROVE  Spec => []NoneHangs
<1>1. GridInv => NoneHangs
  <2> SUFFICES ASSUME GridInv, firing = <<>>, NEW p \in Pages, ~Moving(grid[p])
               PROVE  AllDone(grid[p])
    BY DEF NoneHangs, Idle
  <2>1. PageOk(grid[p], {}) BY IdlePages
  <2>2. Rest(grid[p], {}) BY <2>1, StillRests
  <2> QED BY <2>2 DEF Rest
<1> QED BY <1>1, GridInvariant, PTL
===============================================================================
