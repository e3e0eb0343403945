------------------------------ MODULE NewTabGrid ------------------------------
(***************************************************************************)
(* The new tab page (components/newtab): the grid of sites of each open    *)
(* page, the animated updates that bring it in line with the pinned and    *)
(* blocked links, the coalesced updates of hidden pages, the undo dialog,  *)
(* and the pages telling each other of what they changed.                  *)
(*                                                                         *)
(* What is abstracted.  A cell holds its site nodes in document order.     *)
(* The opacity of a node is the one its style asks for, and whether a      *)
(* transition to it runs; its position is the cell it is drawn at, and     *)
(* whether it slides there.  A node that leaves the document loses its     *)
(* transitions, so transitionend is not fired for them.  Promise reactions *)
(* run when the callback that resolved them returns.  NewTabUtils, which   *)
(* keeps the links, is external.  Left out: dragging a site (DropPreview   *)
(* has the rearrangement), thumbnails, switching the page on and off.      *)
(***************************************************************************)
EXTENDS Integers, Sequences, FiniteSets, FiniteSetsExt, SequencesExt, Lists

CONSTANTS
  Pages, Urls, N,     \* open pages, links, cells of a grid
  None,
  Providers,          \* the orders in which the providers may list the links, each
                      \* once: the grid tells sites apart by them (_findRemainingSites)
  Hasty,              \* whether pages are used, updated, refreshed or closed
                      \* while their sites still move
  MaxSteps            \* bound on what users and providers do

Cells == 1..N

ASSUME ConstantsAssumption ==
  /\ N \in Nat \ {0} /\ MaxSteps \in Nat /\ Hasty \in BOOLEAN /\ None \notin Urls
  /\ Providers \subseteq Seq(Urls) /\ Providers # {} /\ \A o \in Providers : IsInjective(o)

VARIABLES
  provided, pinned, blocked,   \* the links of NewTabUtils
  open, ready,      \* pages registered in gAllPages, pages whose grid is ready
  hidden, listening,\* document.hidden; waiting for the first visibilitychange
  timer,            \* pages with a _scheduleUpdateTimeout
  restoring,        \* pages that wait for NewTabUtils.undoAll
  undo,             \* _undoData of each page
  grid,             \* of each page: its cells, site nodes and updates
  firing,           \* listeners an event has still to call
  \* History and bounds:
  behind,           \* pages that were not to follow a change of the links
  steps

links == <<provided, pinned, blocked>>
page == <<open, ready, hidden, listening, timer, restoring>>
vars == <<links, page, undo, grid, firing, behind, steps>>

-----------------------------------------------------------------------------
\* NewTabUtils.

\* gLinks.getLinks, cut to the cells: pinned links keep their place, what is
\* neither pinned nor blocked fills the gaps.
LinksOf(prov, pins, blk) ==
  LET free == Kept(prov, {n \in DOMAIN prov : prov[n] \notin blk \cup Range(pins)})
      At(i) == IF pins[i] # None THEN pins[i]
               ELSE LET k == Cardinality({j \in 1..i : pins[j] = None})
                    IN IF k <= Len(free) THEN free[k] ELSE None
      last == Max({i \in Cells : At(i) # None} \cup {0})
  IN [i \in 1..last |-> At(i)]

Links == LinksOf(provided', pinned', blocked')
Unpinned(pins, u) == [i \in Cells |-> IF pins[i] = u THEN None ELSE pins[i]]
PinnedAt(pins, u, i) == [Unpinned(pins, u) EXCEPT ![i] = u]

-----------------------------------------------------------------------------
\* The document of a page.

\* cell.site
Site(g, c) == IF g.cells[c] = <<>> THEN 0 ELSE Head(g.cells[c])
Sites(g) == {Site(g, c) : c \in Cells} \ {0}
Attached(g) == UNION {Range(g.cells[c]) : c \in Cells}
CellOf(g, s) == CHOOSE c \in Cells : s \in Range(g.cells[c])
Moving(g) == \E s \in Attached(g) : g.nodes[s].fading \/ g.nodes[s].sliding
Busy(g) == Moving(g) \/ \E u \in DOMAIN g.updates : g.updates[u].waiting > 0
MayTouch(ps) == Hasty \/ \A p \in ps : ~Busy(grid[p])

NewNode(u, fading) ==
  [url |-> u, opacity |-> 1, fading |-> fading, frozen |-> FALSE, spot |-> 0,
   sliding |-> FALSE, onFade |-> IF fading THEN <<[kind |-> "show", update |-> 0]>> ELSE <<>>,
   onSlide |-> <<>>]

\* removeChild; nodes that leave the document lose their transitions.
Detach(g, gone) ==
  [g EXCEPT !.cells = [c \in Cells |-> Kept(@[c], {k \in DOMAIN @[c] : @[c][k] \notin gone})],
            !.nodes = [s \in DOMAIN @ |->
                         IF s \in gone THEN [@[s] EXCEPT !.fading = FALSE, !.sliding = FALSE]
                         ELSE @[s]]]

EmptyGrid == [cells |-> [c \in Cells |-> <<>>], nodes |-> <<>>, updates |-> <<>>]

\* createSite in every empty cell that has a link
FillIn(g, ls, fading) ==
  LET free == Kept([i \in 1..Len(ls) |-> i],
                   {i \in 1..Len(ls) : Site(g, i) = 0 /\ ls[i] # None})
      nodes == [k \in 1..Len(free) |-> NewNode(ls[free[k]], fading)]
      Id(c) == CHOOSE k \in 1..Len(free) : free[k] = c
  IN [g EXCEPT !.nodes = @ \o nodes,
               !.cells = [c \in Cells |-> IF c \in Range(free)
                                          THEN <<Len(g.nodes) + Id(c)>> ELSE @[c]]]

\* _refreshGrid; the updates of the old cells never go on.
Refreshed(ls) == FillIn(EmptyGrid, ls, FALSE)

-----------------------------------------------------------------------------
\* gUpdater.updateGrid and gTransformation.

\* _findRemainingSites: the node for each link, or 0.
RemainingSites(g, ls) ==
  [i \in DOMAIN ls |->
     LET same == {c \in Cells : Site(g, c) # 0 /\ g.nodes[Site(g, c)].url = ls[i]}
     IN IF ls[i] = None \/ same = {} THEN 0 ELSE Site(g, Max(same))]

\* _fillEmptyCells; then the update is done.
FillEmptyCells(g, u) ==
  FillIn([g EXCEPT !.updates[u].done = TRUE], g.updates[u].links, TRUE)

Put(g, i, s) == [Detach(g, {s}) EXCEPT !.cells[i] = Append(@, s)]

\* _moveSiteNodes for cell i, where site s, or none, belongs
MoveToCell(g, i, s) ==
  LET emptied == Detach(g, {Site(g, i)} \ {0})
  IN IF s = 0 THEN emptied ELSE IF Site(g, i) = s THEN g ELSE Put(emptied, i, s)

MoveSiteNodes(g, sites) ==
  LET moved[i \in 0..Len(sites)] == IF i = 0 THEN g ELSE MoveToCell(moved[i-1], i, sites[i])
  IN moved[Len(sites)]

\* freezeSitePosition, for the sites that remain
Freeze(g, sites) ==
  [g EXCEPT !.nodes = [s \in DOMAIN @ |->
     IF s \in Range(sites) /\ ~@[s].frozen
     THEN [@[s] EXCEPT !.frozen = TRUE,
                       !.spot = IF s \in Attached(g) THEN CellOf(g, s) ELSE 0]
     ELSE @[s]]]

\* rearrangeSites for one site: it fades in, is where it belongs, or slides.
Rearranged(n, c, u) ==
  IF n.opacity = 0 \/ n.fading
  THEN [n EXCEPT !.opacity = 1, !.fading = TRUE,
                 !.onFade = Append(@, [kind |-> "show", update |-> u])]
  ELSE IF n.spot = c /\ ~n.sliding THEN [n EXCEPT !.frozen = FALSE]
  ELSE [n EXCEPT !.spot = c, !.sliding = TRUE,
                 !.onSlide = Append(@, [kind |-> "slide", update |-> u])]

\* What follows when all legacy sites of update u are gone.
MoveAndRearrange(g, u) ==
  LET sites == g.updates[u].sites
      h == MoveSiteNodes(Freeze(g, sites), sites)
      nodes == [s \in DOMAIN h.nodes |->
                  IF s \in Range(sites)
                  THEN Rearranged(h.nodes[s], CHOOSE i \in DOMAIN sites : sites[i] = s, u)
                  ELSE h.nodes[s]]
      waiting == {s \in Range(sites) \ {0} : nodes[s].fading \/ nodes[s].sliding}
      j == [h EXCEPT !.nodes = nodes, !.updates[u].moving = TRUE,
                     !.updates[u].waiting = Cardinality(waiting)]
  IN IF waiting = {} THEN FillEmptyCells(j, u) ELSE j

Continue(g, u) ==
  IF g.updates[u].waiting > 0 THEN g
  ELSE IF g.updates[u].moving THEN FillEmptyCells(g, u) ELSE MoveAndRearrange(g, u)

\* updateGrid: legacy sites fade out, those that cannot be seen go at once.
UpdateGrid(g, ls) ==
  LET sites == RemainingSites(g, ls)
      legacy == Sites(g) \ Range(sites)
      gone == {s \in legacy : g.nodes[s].opacity = 0 /\ ~g.nodes[s].fading}
      u == Len(g.updates) + 1
      h == Detach(g, gone)
      nodes == [s \in DOMAIN h.nodes |->
                  IF s \in legacy \ gone
                  THEN [h.nodes[s] EXCEPT !.opacity = 0, !.fading = TRUE,
                          !.onFade = Append(@, [kind |-> "remove", update |-> u])]
                  ELSE h.nodes[s]]
      new == [links |-> ls, sites |-> sites, moving |-> FALSE, done |-> FALSE,
              waiting |-> Cardinality(legacy \ gone)]
  IN Continue([h EXCEPT !.nodes = nodes, !.updates = Append(@, new)], u)

Resolve(g, u) ==
  IF u = 0 THEN g ELSE Continue([g EXCEPT !.updates[u].waiting = @ - 1], u)

\* A listener of node s runs: the callbacks of hideSite, which throws when the
\* node has no parent any more, of showSite, and finish of slideSiteTo.
CallBack(g, s, l) ==
  CASE l.kind = "remove" -> IF s \in Attached(g) THEN Resolve(Detach(g, {s}), l.update) ELSE g
    [] l.kind = "show" ->
         Resolve([g EXCEPT !.nodes[s].opacity = 1,
                           !.nodes[s].fading = @ \/ (g.nodes[s].opacity = 0 /\ s \in Attached(g))],
                 l.update)
    [] l.kind = "slide" ->
         Resolve([g EXCEPT !.nodes[s].frozen = FALSE, !.nodes[s].sliding = FALSE], l.update)

-----------------------------------------------------------------------------
\* gPage.

\* Wrong: hidden pages are not updated later.
NotifiedVisible(ps, linksChanged) ==
  [refresh |-> IF linksChanged THEN {} ELSE (ps \cap ready) \ hidden, delay |-> {}]

\* gPage.update on the pages of ps, with or without the reason "links-changed".
Notified(ps, linksChanged) ==
  [refresh |-> IF linksChanged THEN {} ELSE (ps \cap ready) \ hidden,
   delay |-> ps \cap hidden]

Nobody == Notified({}, FALSE)

\* The pages of told are notified, the grid of p becomes g; started is {p} when
\* that begins an update of p.
GridBecomes(p, g, told, started) ==
  /\ MayTouch(told.refresh \cup started)
  /\ grid' = [q \in Pages |-> IF q = p THEN g
                              ELSE IF q \in told.refresh THEN Refreshed(Links) ELSE grid[q]]
  /\ timer' = timer \cup told.delay
  /\ behind' = behind \ (told.refresh \cup started)

Finished(g) == Cardinality({u \in DOMAIN g.updates : g.updates[u].done})

\* gAllPages.update(gPage), when an update of p got done
Told(p, g) == IF Finished(g) > Finished(grid[p]) THEN Notified(open \ {p}, FALSE) ELSE Nobody

\* gUpdater.updateGrid on page p
Update(p) ==
  \E g \in {UpdateGrid(grid[p], Links)} : GridBecomes(p, g, Told(p, g), {p})

Init ==
  /\ provided \in Providers
  /\ pinned = [c \in Cells |-> None] /\ blocked = {}
  /\ open = Pages /\ ready = {}
  /\ hidden \in SUBSET Pages /\ listening = hidden
  /\ timer = {} /\ restoring = {}
  /\ undo = [p \in Pages |-> [index |-> 0]]
  /\ grid = [p \in Pages |-> EmptyGrid]
  /\ firing = <<>> /\ behind = {} /\ steps = 0

Idle == firing = <<>>
Step == Idle /\ steps < MaxSteps /\ steps' = steps + 1 /\ UNCHANGED firing

\* The grid of p is made anew.
Refresh(p) ==
  /\ MayTouch({p})
  /\ grid' = [grid EXCEPT ![p] = Refreshed(Links)]
  /\ behind' = behind \ {p}

\* gGrid.init: the links have been read.
Populated(p) ==
  /\ Idle /\ p \in open \ ready
  /\ UNCHANGED links
  /\ Refresh(p)
  /\ ready' = ready \cup {p}
  /\ UNCHANGED <<open, hidden, listening, timer, restoring, undo, firing, steps>>

\* SCHEDULE_UPDATE_TIMEOUT_MS later
TimerFires(p) ==
  /\ Idle /\ p \in timer \cap open
  /\ timer' = timer \ {p}
  /\ UNCHANGED links
  /\ IF p \in ready THEN Refresh(p) ELSE UNCHANGED <<grid, behind>>
  /\ UNCHANGED <<open, ready, hidden, listening, restoring, undo, firing, steps>>

\* handleEvent, visibilitychange.  Only the first one is listened for.
BecomesVisible(p) ==
  /\ Step /\ p \in hidden \cap open
  /\ hidden' = hidden \ {p} /\ listening' = listening \ {p}
  /\ UNCHANGED links
  /\ IF p \in listening /\ p \in timer
     THEN /\ timer' = timer \ {p}
          /\ IF p \in ready THEN Refresh(p) ELSE UNCHANGED <<grid, behind>>
     ELSE UNCHANGED <<timer, grid, behind>>
  /\ UNCHANGED <<open, ready, restoring, undo>>

BecomesHidden(p) ==
  /\ Step /\ p \in open \ hidden
  /\ hidden' = hidden \cup {p}
  /\ UNCHANGED <<links, open, ready, listening, timer, restoring, undo, grid, behind>>

\* _handleUnloadEvent
Unload(p) ==
  /\ Step /\ p \in open /\ MayTouch({p}) /\ (Hasty \/ p \notin restoring)
  /\ open' = open \ {p} /\ grid' = [grid EXCEPT ![p] = EmptyGrid]
  /\ UNCHANGED <<links, ready, hidden, listening, timer, restoring, undo, behind>>

\* The providers have other links.
LinksChange ==
  /\ Step
  /\ provided' \in Providers \ {provided} /\ UNCHANGED <<pinned, blocked>>
  /\ LET told == Notified(open, TRUE)
     IN timer' = timer \cup told.delay /\ behind' = behind \cup (open \ hidden)
  /\ UNCHANGED <<open, ready, hidden, listening, restoring, undo, grid>>

-----------------------------------------------------------------------------
\* The user.

\* Sites that can be clicked; frozen ones have no pointer events.
Clickable(p) ==
  IF p \in open \ hidden
  THEN {s \in Attached(grid[p]) : ~grid[p].nodes[s].frozen} ELSE {}

UrlOf(p, s) == grid[p].nodes[s].url
NoUndo == [index |-> 0]

\* site.block, with gUndoDialog.show
Block(p, s) ==
  /\ Step /\ s \in Clickable(p) /\ UrlOf(p, s) \notin blocked
  /\ LET u == UrlOf(p, s) IN
       /\ undo' = [undo EXCEPT ![p] = [index |-> CellOf(grid[p], s), url |-> u,
                                       wasPinned |-> u \in Range(pinned)]]
       /\ blocked' = blocked \cup {u} /\ pinned' = Unpinned(pinned, u)
  /\ UNCHANGED provided
  /\ Update(p)
  /\ UNCHANGED <<open, ready, hidden, listening, restoring>>

\* site.unpin
Unpin(p, s) ==
  /\ Step /\ s \in Clickable(p) /\ UrlOf(p, s) \in Range(pinned)
  /\ pinned' = Unpinned(pinned, UrlOf(p, s)) /\ UNCHANGED <<provided, blocked>>
  /\ Update(p)
  /\ UNCHANGED <<open, ready, hidden, listening, restoring, undo>>

\* site.pin where it is; the others hear of it when the link changed its type.
Pin(p, s, changed) ==
  /\ Step /\ s \in Clickable(p) /\ UrlOf(p, s) \notin Range(pinned)
  /\ pinned' = PinnedAt(pinned, UrlOf(p, s), CellOf(grid[p], s))
  /\ UNCHANGED <<provided, blocked>>
  /\ LET told == IF changed THEN Notified(open \ {p}, FALSE) ELSE Nobody
         same == Links = LinksOf(provided, pinned, blocked)
     IN /\ MayTouch(told.refresh \cup {p})
        /\ grid' = [q \in Pages |-> IF q \in told.refresh THEN Refreshed(Links) ELSE grid[q]]
        /\ timer' = timer \cup told.delay
        /\ behind' = (IF same THEN behind ELSE open) \ told.refresh
  /\ UNCHANGED <<open, ready, hidden, listening, restoring, undo>>

\* gDrop.drop of a link from elsewhere on a cell without a pinned site
DropLink(p, u, c) ==
  /\ Step /\ p \in (open \cap ready) \ hidden
  /\ IF Site(grid[p], c) = 0 THEN TRUE ELSE UrlOf(p, Site(grid[p], c)) \notin Range(pinned)
  /\ pinned' = PinnedAt(pinned, u, c) /\ blocked' = blocked \ {u} /\ UNCHANGED provided
  /\ Update(p)
  /\ UNCHANGED <<open, ready, hidden, listening, restoring, undo>>

\* _undo
Undo(p) ==
  /\ Step /\ p \in open \ hidden /\ undo[p] # NoUndo
  /\ blocked' = blocked \ {undo[p].url}
  /\ pinned' = IF undo[p].wasPinned THEN PinnedAt(pinned, undo[p].url, undo[p].index)
               ELSE pinned
  /\ UNCHANGED provided
  /\ undo' = [undo EXCEPT ![p] = NoUndo]
  /\ Update(p)
  /\ UNCHANGED <<open, ready, hidden, listening, restoring>>

\* _undoAll: all is forgotten at once, the links are read again.
UndoAll(p) ==
  /\ Step /\ p \in open \ hidden /\ undo[p] # NoUndo
  /\ pinned' = [c \in Cells |-> None] /\ blocked' = {} /\ UNCHANGED provided
  /\ restoring' = restoring \cup {p}
  /\ UNCHANGED <<open, ready, hidden, listening, timer, undo, grid, behind>>

Restored(p) ==
  /\ Idle /\ p \in restoring \cap open
  /\ restoring' = restoring \ {p}
  /\ UNCHANGED links
  /\ undo' = [undo EXCEPT ![p] = NoUndo]
  /\ Update(p)
  /\ UNCHANGED <<open, ready, hidden, listening, firing, steps>>

\* hide, from its timeout or its button
HideUndo(p) ==
  /\ Idle /\ undo[p] # NoUndo
  /\ undo' = [undo EXCEPT ![p] = NoUndo]
  /\ UNCHANGED <<links, page, grid, firing, behind, steps>>

-----------------------------------------------------------------------------
\* Transitions.

Listeners(p, s, ls) == [i \in DOMAIN ls |-> [page |-> p, node |-> s, listener |-> ls[i]]]

FadeEnds(p, s) ==
  /\ Idle /\ s \in Attached(grid[p]) /\ grid[p].nodes[s].fading
  /\ grid' = [grid EXCEPT ![p].nodes[s].fading = FALSE, ![p].nodes[s].onFade = <<>>]
  /\ firing' = Listeners(p, s, grid[p].nodes[s].onFade)
  /\ UNCHANGED <<links, page, undo, behind, steps>>

\* The transition of a button in the site ends; its event bubbles.
ControlFades(p, s) ==
  /\ Idle /\ s \in Attached(grid[p]) /\ grid[p].nodes[s].onFade # <<>>
  /\ grid' = [grid EXCEPT ![p].nodes[s].onFade = <<>>]
  /\ firing' = Listeners(p, s, grid[p].nodes[s].onFade)
  /\ UNCHANGED <<links, page, undo, behind, steps>>

SlideEnds(p, s) ==
  /\ Idle /\ s \in Attached(grid[p]) /\ grid[p].nodes[s].sliding
  /\ grid' = [grid EXCEPT ![p].nodes[s].sliding = FALSE, ![p].nodes[s].onSlide = <<>>]
  /\ firing' = Listeners(p, s, grid[p].nodes[s].onSlide)
  /\ UNCHANGED <<links, page, undo, behind, steps>>

CallListener ==
  /\ firing # <<>> /\ firing' = Tail(firing)
  /\ UNCHANGED links
  /\ \E f \in {Head(firing)} : \E g \in {CallBack(grid[f.page], f.node, f.listener)} :
       GridBecomes(f.page, g, Told(f.page, g), {})
  /\ UNCHANGED <<open, ready, hidden, listening, restoring, undo, steps>>

Next ==
  \/ LinksChange \/ CallListener
  \/ \E p \in Pages :
       \/ Populated(p) \/ TimerFires(p) \/ BecomesVisible(p) \/ BecomesHidden(p)
       \/ Unload(p) \/ Undo(p) \/ UndoAll(p) \/ Restored(p) \/ HideUndo(p)
       \/ \E s \in Clickable(p) :
            Block(p, s) \/ Unpin(p, s) \/ (\E changed \in BOOLEAN : Pin(p, s, changed))
       \/ \E u \in Urls, c \in Cells : DropLink(p, u, c)
       \/ \E s \in Attached(grid[p]) : FadeEnds(p, s) \/ SlideEnds(p, s) \/ ControlFades(p, s)

Spec == Init /\ [][Next]_vars
-----------------------------------------------------------------------------
\* Properties.

\* The grid of p shows exactly the links, each in its place and free to be used.
Agrees(p) ==
  LET g == grid[p]
      ls == LinksOf(provided, pinned, blocked)
  IN \A c \in Cells :
       IF c \in DOMAIN ls /\ ls[c] # None
       THEN Len(g.cells[c]) = 1 /\ g.nodes[Site(g, c)].url = ls[c]
              /\ ~g.nodes[Site(g, c)].frozen /\ g.nodes[Site(g, c)].opacity = 1
       ELSE g.cells[c] = <<>>

Quiet == Idle /\ restoring \cap open = {} /\ timer \cap open = {} /\ \A p \in open : ~Moving(grid[p])

\* When everything has come to rest every open page shows the links as they are
\* pinned and blocked, on whichever page that was done, though its own update was
\* animated, delayed while the page was hidden, or begun by another page
\* (updateGrid, gPage.update).
Synchronized == Quiet => \A p \in (open \cap ready) \ behind : Agrees(p)
=============================================================================
