------------------------------- MODULE PlacesTree -------------------------------
(***************************************************************************)
(* The tree of bookmarks of treeView.js.  PlacesTreeView shows a hierarchy *)
(* as one array, _rows, and never rebuilds more of it than a notification  *)
(* of the result asks for: it computes where a node goes from its siblings *)
(* and how many rows a folder takes from the indentation of what follows.  *)
(* The selection is a set of row numbers that has to follow the nodes.     *)
(* The commands that move or remove what is selected (tree.xml and         *)
(* controller.js) take it from the rows, work on the bookmarks item by     *)
(* item, and change the rows and the selection under way.                  *)
(*                                                                         *)
(* What is abstracted.  A node is a name, and stays the same node when the *)
(* result makes it anew (findNodeByDetails finds it by its id).  All       *)
(* containers are bookmark folders: no livemarks, no queries, no flat      *)
(* list.  A notification is handled within the step that causes it, and a  *)
(* drag ends in the step it begins: nothing changes below it.  Fewer than  *)
(* five transactions make no batch.                                        *)
(***************************************************************************)
EXTENDS Integers, Sequences, FiniteSets, SequencesExt, FiniteSetsExt

CONSTANTS
  Root, Folders, Items, Separators,
  Stray    \* what the environment may do that the view does not cope with:
           \* "behind": a node goes behind a separator that is not shown
           \* "unstored": a folder that is open but not stored as open is built
           \* "last": the last row is closed while one of its children is selected

Nodes == Folders \cup Items \cup Separators

ASSUME ConstantsAssumption ==
  /\ Root \notin Nodes /\ Folders \cap Items = {}
  /\ Separators \cap (Folders \cup Items) = {}
  /\ Stray \subseteq {"behind", "unstored", "last"}

VARIABLES
  s,      \* kids: the children of each container; open: the containers that are
          \* open; sorted: sortingMode is not SORT_BY_NONE; stored: the folders
          \* localStore has as open; rows: _rows; sel: the selected rows, from 0
  clicks  \* the step was a click, a drop or a call that selects (history)

vars == <<s, clicks>>

Init ==
  /\ s = [kids |-> [c \in Folders \cup {Root} |-> <<>>], open |-> {Root},
          sorted |-> FALSE, stored |-> {}, rows |-> <<>>, sel |-> {}]
  /\ clicks = FALSE

-----------------------------------------------------------------------------
\* The result, as the view sees it.

RECURSIVE Below(_, _)
Below(kids, c) ==
  LET own == ToSet(kids[c])
  IN own \cup UNION {Below(kids, f) : f \in own \cap Folders}

\* indentLevel, from 0 below the root
RECURSIVE Indent(_, _)
Indent(kids, n) ==
  IF n \notin UNION {ToSet(kids[c]) : c \in DOMAIN kids} THEN 0
  ELSE 1 + Indent(kids, CHOOSE c \in DOMAIN kids : n \in ToSet(kids[c]))

Hidden(v, n) == v.sorted /\ n \in Separators

-----------------------------------------------------------------------------
\* Rows and selection.

\* _getRowForNode: _rows.indexOf from the row of the parent on.
RowOf(v, n, from) ==
  LET start == IF from < 0 THEN Len(v.rows) + from ELSE from
      at == {i \in DOMAIN v.rows : v.rows[i] = n /\ i > start}
  IN IF at = {} THEN -1 ELSE Min(at) - 1

RowOfContainer(v, c) == IF c = Root THEN 0 ELSE RowOf(v, c, 0)

\* rowCountChanged: the selection of the tree moves with its rows.
Shifted(sel, at, count) ==
  {r \in sel : r < at}
    \cup {r + count : r \in {q \in sel : q >= at /\ (count < 0 => q >= at - count)}}

Added(v, row, list) ==
  [v EXCEPT !.rows = SubSeq(@, 1, row) \o list \o SubSeq(@, row + 1, Len(@)),
            !.sel = Shifted(@, row, Len(list))]

Dropped(v, row, count) ==
  [v EXCEPT !.rows = SubSeq(@, 1, row) \o SubSeq(@, row + count + 1, Len(@)),
            !.sel = Shifted(@, row, -count)]

\* _countVisibleRowsForNodeAtRow, by the indentation of the rows that follow
CountRows(v, kids, row) ==
  IF row < 0 \/ row >= Len(v.rows) \/ v.rows[row + 1] \notin Folders THEN 1
  ELSE LET level == Indent(kids, v.rows[row + 1])
           after == {i \in row + 2..Len(v.rows) : Indent(kids, v.rows[i]) <= level}
       IN (IF after = {} THEN Len(v.rows) + 1 ELSE Min(after)) - row - 1

\* _getSelectedNodesInRange, both ends included; a row past the end has no node,
\* for which Root stands, which is never in a row.
SelectedIn(v, first, last) ==
  {[node |-> IF r < Len(v.rows) THEN v.rows[r + 1] ELSE Root, row |-> r]
     : r \in {q \in v.sel : q >= first /\ q <= last}}

\* Wrong: only the rows are put back, not the nodes.
RestoredByRow(v, picked) == [v EXCEPT !.sel = @ \cup {p.row : p \in picked}]

\* _restoreSelection
Restored(v, picked) ==
  LET found == {RowOf(v, p.node, 0) : p \in picked} \ {-1}
      sel == v.sel \cup found
      old == {IF p.row < Len(v.rows) THEN p.row ELSE Len(v.rows) - 1 : p \in picked} \ {-1}
  IN [v EXCEPT !.sel = IF Cardinality(picked) = 1 /\ sel = {} THEN old ELSE sel]

-----------------------------------------------------------------------------
\* Building rows.

\* _buildVisibleSection over the children of a container: their rows, and the
\* folders whose openness differs from what is stored.
RECURSIVE Section(_, _)
Section(v, list) ==
  IF list = <<>> THEN [rows |-> <<>>, toOpen |-> <<>>]
  ELSE LET n == Head(list)
           rest == Section(v, Tail(list))
           differs == n \in Folders /\ ((n \in v.open) # (n \in v.stored))
           sub == IF n \in Folders /\ n \in v.open /\ ~differs
                  THEN Section(v, v.kids[n]) ELSE Section(v, <<>>)
       IN IF Hidden(v, n) THEN rest
          ELSE [rows |-> <<n>> \o sub.rows \o rest.rows,
                toOpen |-> (IF differs THEN <<n>> ELSE <<>>) \o sub.toOpen \o rest.toOpen]

\* invalidateContainer of a folder that is closed now
ClosedContainer(v, picked, start, total) ==
  IF picked # {} /\ Cardinality(picked) = total THEN [v EXCEPT !.sel = @ \cup {start}] ELSE v

\* invalidateContainer
RECURSIVE Invalidated(_, _), OpenedAll(_, _)
Invalidated(v, c) ==
  LET row == IF c = Root THEN -1 ELSE RowOf(v, c, 0)
      start == row + 1
      count == IF c = Root THEN Len(v.rows) ELSE CountRows(v, v.kids, row) - 1
      picked == SelectedIn(v, start, start + count)
      cut == Dropped(v, start, count)
      built == Section(v, v.kids[c])
  IN IF c \notin v.open THEN ClosedContainer(cut, picked, start, Cardinality(v.sel))
     ELSE Restored(OpenedAll(Added(cut, start, built.rows), built.toOpen), picked)

\* the containers that were persisted as open: each is opened, which comes back
\* as containerStateChanged
OpenedAll(v, list) ==
  IF list = <<>> THEN v
  ELSE LET c == Head(list)
       IN OpenedAll(IF c \in v.open THEN v
                    ELSE Invalidated([v EXCEPT !.open = @ \cup {c}], c), Tail(list))

-----------------------------------------------------------------------------
\* Notifications.  In v the result has already changed.

\* Wrong: the previous sibling is taken for a single row.
InsertedRowFlat(v, p, i) ==
  LET parentRow == RowOfContainer(v, p)
      list == v.kids[p]
  IN IF i = 0 THEN (IF p = Root THEN 0 ELSE parentRow + 1)
     ELSE RowOf(v, list[i], parentRow) + 1

\* nodeInserted: the row of the next sibling, or the one after the rows of the
\* previous sibling.
InsertedRow(v, p, i) ==
  LET parentRow == RowOfContainer(v, p)
      list == v.kids[p]
      next == IF i + 1 < Len(list) THEN RowOf(v, list[i + 2], parentRow) ELSE -1
      previous == RowOf(v, list[i], parentRow)
  IN IF i = 0 THEN (IF p = Root THEN 0 ELSE parentRow + 1)
     ELSE IF next >= 0 THEN next
     ELSE previous + CountRows(v, v.kids, previous)

NodeInserted(v, p, i) ==
  LET n == v.kids[p][i + 1]
      shown == Added(v, InsertedRow(v, p, i), <<n>>)
  IN IF Hidden(v, n) THEN v
     ELSE IF n \in Folders /\ n \in v.open THEN Invalidated(shown, n) ELSE shown

\* nodeRemoved; kids is what the result was before.
NodeRemoved(v, kids, p, n) ==
  LET row == RowOf(v, n, RowOfContainer(v, p))
      lost == Dropped(v, row, CountRows(v, kids, row))
      next == IF row < Len(lost.rows) THEN row ELSE Len(lost.rows) - 1
      throws == row < 0 \/ v.sel = {Len(v.rows)}   \* nodeForTreeIndex finds no child
  IN IF Hidden(v, n) \/ throws THEN v
     ELSE IF v.sel = {row} /\ next # -1 THEN [lost EXCEPT !.sel = @ \cup {next}] ELSE lost

\* nodeMoved, always within one container
NodeMoved(v, p, n, i) ==
  LET row == RowOf(v, n, RowOfContainer(v, p))
      count == CountRows(v, v.kids, row)
      picked == SelectedIn(v, row, row + count)
  IN IF Hidden(v, n) \/ row < 0 THEN v
     ELSE Restored(NodeInserted(Dropped(v, row, count), p, i), picked)

-----------------------------------------------------------------------------
\* What the result, the user and other windows do.

Without(list, set) == SelectSeq(list, LAMBDA n : n \notin set)
Parent(kids, n) == CHOOSE c \in DOMAIN kids : n \in ToSet(kids[c])
Position(kids, n) == CHOOSE i \in DOMAIN kids[Parent(kids, n)] : kids[Parent(kids, n)][i] = n

InTree == Below(s.kids, Root)
Placed == UNION {ToSet(s.kids[c]) : c \in DOMAIN s.kids}
Behind(v, p, i) ==
  /\ v.sorted /\ i > 0 /\ v.kids[p][i] \in Separators
  /\ i + 1 < Len(v.kids[p]) => v.kids[p][i + 2] \in Separators

\* An item is added to or removed from the bookmarks; the containers that are
\* closed have no rows to change.
ItemAdded(v, p, n, i) ==
  LET w == [v EXCEPT !.kids[p] = InsertAt(@, i + 1, n)]
  IN IF p \in v.open THEN NodeInserted(w, p, i) ELSE w

ItemRemoved(v, p, n) ==
  LET gone == IF n \in Folders THEN Below(v.kids, n) \cup {n} ELSE {n}
      w == [v EXCEPT !.kids[p] = Without(@, {n}), !.open = @ \ gone]
  IN IF p \in v.open THEN NodeRemoved(w, v.kids, p, n) ELSE w

Insert(p, n, i) ==
  /\ n \notin Placed /\ p \in InTree \cup {Root} /\ i \in 0..Len(s.kids[p])
  /\ "behind" \in Stray \/ ~Behind([s EXCEPT !.kids[p] = InsertAt(@, i + 1, n)], p, i)
  /\ s' = ItemAdded(s, p, n, i)
  /\ clicks' = FALSE

Delete(p, n) ==
  /\ p \in InTree \cup {Root} /\ n \in ToSet(s.kids[p])
  /\ s' = ItemRemoved(s, p, n)
  /\ clicks' = FALSE

InStep(c) == "unstored" \in Stray \/ (Below(s.kids, c) \cap s.open) \subseteq s.stored

Move(p, n, i) ==
  /\ p \in s.open /\ n \in ToSet(s.kids[p]) /\ i \in 0..Len(s.kids[p]) - 1
  /\ s.kids[p][i + 1] # n
  /\ n \in Folders => InStep(n)
  /\ \E v \in {[s EXCEPT !.kids[p] = InsertAt(Without(@, {n}), i + 1, n)]} :
       /\ "behind" \in Stray \/ ~Behind(v, p, i)
       /\ s' = NodeMoved(v, p, n, i)
  /\ clicks' = FALSE

\* The result reads a folder again, as at the end of a batch: its folders are
\* new nodes, and closed.
Refresh(c, list) ==
  /\ c \in s.open
  /\ s' = Invalidated([s EXCEPT !.kids[c] = list, !.open = @ \ Below(s.kids, c)], c)
  /\ clicks' = FALSE

\* cycleHeader; the result sorts all it has and invalidates the root.
Sort(mode) ==
  /\ s.sorted \/ mode
  /\ InStep(Root)
  /\ s' = Invalidated([s EXCEPT !.sorted = mode,
                                !.kids = [c \in DOMAIN @ |-> Reverse(@[c])]], Root)
  /\ clicks' = FALSE

\* toggleOpenState; a container that is closed closes what is below it.
Toggle(f) ==
  /\ f \in ToSet(s.rows)
  /\ IF f \in s.open
     THEN /\ \/ "last" \in Stray
             \/ s.sel \cap RowOf(s, f, 0) + 1..Len(s.rows) = {}
             \/ RowOf(s, f, 0) + CountRows(s, s.kids, RowOf(s, f, 0)) < Len(s.rows)
          /\ s' = Invalidated([s EXCEPT !.open = @ \ (Below(s.kids, f) \cup {f}),
                                        !.stored = @ \ {f}], f)
     ELSE s' = Invalidated([s EXCEPT !.open = @ \cup {f}, !.stored = @ \cup {f}], f)
  /\ clicks' = FALSE

\* selectItems of the tree: the folders above a node are opened, from the root
\* down, and nothing is stored.
Reveal(n) ==
  /\ n \in InTree /\ ~Hidden(s, n)
  /\ \E above \in {SortSeq(SetToSeq({f \in InTree \cap Folders : n \in Below(s.kids, f)}),
                           LAMBDA f, g : g \in Below(s.kids, f))} :
     \E v \in {OpenedAll([s EXCEPT !.sel = {}], above)} :
       s' = [v EXCEPT !.sel = {RowOf(v, n, 0)}]
  /\ clicks' = TRUE

Select(set) ==
  /\ set \subseteq 0..Len(s.rows) - 1
  /\ s' = [s EXCEPT !.sel = set]
  /\ clicks' = TRUE

\* The same folder is opened or closed in another window.
Elsewhere(f) ==
  /\ s' = [s EXCEPT !.stored = IF f \in @ THEN @ \ {f} ELSE @ \cup {f}]
  /\ clicks' = FALSE

-----------------------------------------------------------------------------
\* Commands on the selection.

\* selectedNodes, in the order of the rows
Selection(v) ==
  LET at == SetToSortSeq(v.sel, LAMBDA r, q : r < q)
  IN [k \in DOMAIN at |-> v.rows[at[k] + 1]]

\* removableSelectionRanges: no children of selected folders; _shouldSkipNode: nor
\* what is deeper in them.
Removable(v) ==
  LET chosen == ToSet(Selection(v))
  IN SelectSeq(Selection(v),
               LAMBDA n : \A f \in chosen \cap Folders : n \notin Below(v.kids, f))

\* _removeRowsFromBookmarks
RemoveSelection ==
  /\ s.sel # {}
  /\ LET list == Removable(s)
         v[k \in 0..Len(list)] ==
           IF k = 0 THEN s ELSE ItemRemoved(v[k-1], Parent(s.kids, list[k]), list[k])
     IN s' = v[Len(list)]
  /\ clicks' = FALSE

\* _getInsertionPoint of the view: the container and the index in it, -1 for its
\* end.  A drop is before, on or after row r, or, with row -1, below all rows.
InsertionPoint(r, where) ==
  LET n == s.rows[r + 1]
      p == Parent(s.kids, n)
      i == Position(s.kids, n)
  IN IF r = -1 THEN [into |-> Root, index |-> -1]
     ELSE IF where = "on" THEN [into |-> n, index |-> -1]
     ELSE IF where = "after" /\ n \in s.open /\ s.kids[n] # <<>>
          THEN [into |-> n, index |-> 0]
     ELSE [into |-> p, index |-> IF where = "before" THEN i - 1 ELSE i]

\* moveItem, and the notifications it causes
MoveItem(v, n, p, index) ==
  LET old == Parent(v.kids, n)
      pos == Position(v.kids, n) - 1
      i == IF old # p THEN (IF index = -1 THEN Len(v.kids[p]) ELSE index)
           ELSE IF index = -1 THEN Len(v.kids[p]) - 1
           ELSE IF index > pos THEN index - 1 ELSE index
      w == [v EXCEPT !.kids[p] = InsertAt(Without(@, {n}), i + 1, n)]
  IN IF old # p THEN ItemAdded(ItemRemoved(v, old, n), p, n, i)
     ELSE IF i = pos THEN v
     ELSE IF p \in v.open THEN NodeMoved(w, p, n, i) ELSE w

\* Dragged within its container towards its beginning
DraggingUp(ip, n) == Parent(s.kids, n) = ip.into /\ ip.index < Position(s.kids, n) - 1

\* Wrong: the index is not adjusted.
DropIndexSame(ip, list, k) == ip.index

\* The index of the k-th transaction
DropIndex(ip, list, k) ==
  IF ip.index # -1 /\ DraggingUp(ip, list[k])
  THEN ip.index + Cardinality({j \in 1..k - 1 : DraggingUp(ip, list[j])})
  ELSE ip.index

\* drop of the view and onDrop of the controller
Drop(r, where) ==
  /\ s.sel # {} /\ ~s.sorted
  /\ IF r = -1 THEN where = "on" ELSE where = "on" => s.rows[r + 1] \in Folders
  /\ \E ip \in {InsertionPoint(r, where)}, list \in {Selection(s)} :
       /\ \A f \in ToSet(list) \cap Folders :
            /\ ip.into \notin Below(s.kids, f) \cup {f}   \* canDrop
            /\ InStep(f)
       /\ LET v[k \in 0..Len(list)] ==
                IF k = 0 THEN s
                ELSE MoveItem(v[k-1], list[k], ip.into, DropIndex(ip, list, k))
          IN s' = v[Len(list)]
  /\ clicks' = TRUE

Next ==
  \/ \E p \in Folders \cup {Root}, n \in Nodes :
       \/ \E i \in 0..Cardinality(Nodes) : Insert(p, n, i) \/ Move(p, n, i)
       \/ Delete(p, n)
  \/ \E c \in Folders \cup {Root} :
       \E list \in {s.kids[c], Reverse(s.kids[c])} : Refresh(c, list)
  \/ \E mode \in BOOLEAN : Sort(mode)
  \/ \E f \in Folders : Toggle(f) \/ Elsewhere(f)
  \/ \E n \in Nodes : Reveal(n)
  \/ \E r, q \in 0..Len(s.rows) - 1 : Select({r, q})
  \/ RemoveSelection
  \/ \E r \in -1..Len(s.rows) - 1, where \in {"before", "on", "after"} : Drop(r, where)

Spec == Init /\ [][Next]_vars

-----------------------------------------------------------------------------
\* What the tree should show.

RECURSIVE Flat(_, _)
Flat(v, list) ==
  IF list = <<>> THEN <<>>
  ELSE LET n == Head(list)
       IN (IF Hidden(v, n) THEN <<>> ELSE <<n>>)
            \o (IF n \in Folders /\ n \in v.open THEN Flat(v, v.kids[n]) ELSE <<>>)
            \o Flat(v, Tail(list))

\* After every notification the rows are what building them from the root would
\* give: each visible node once, in order, below its folder (nodeInserted,
\* nodeRemoved, nodeMoved, invalidateContainer).
RowsAreVisible == s.rows = Flat(s, s.kids[Root])

SelectedNodes(v) == {v.rows[r + 1] : r \in v.sel \cap 0..Len(v.rows) - 1}

\* The selection stays with its nodes: whatever the result does, a selected node
\* that is still shown is still selected, and another node is selected only
\* where all that was selected is gone, and then one (_restoreSelection).
SelectionFollows ==
  [][~clicks' =>
       /\ SelectedNodes(s) \cap ToSet(s'.rows) \subseteq SelectedNodes(s')
       /\ SelectedNodes(s') \subseteq SelectedNodes(s)
            \/ /\ SelectedNodes(s) \cap ToSet(s'.rows) = {}
               /\ Cardinality(s'.sel) = 1]_vars

\* list put at an insertion point at once
Put(ip, list) ==
  LET set == ToSet(list)
      old == s.kids[ip.into]
      i == IF ip.index = -1 THEN Len(old) ELSE ip.index
  IN [c \in DOMAIN s.kids |->
        IF c = ip.into
        THEN Without(SubSeq(old, 1, i), set) \o list \o Without(SubSeq(old, i + 1, Len(old)), set)
        ELSE Without(s.kids[c], set)]

\* The drops whose order onDrop keeps: of one node, at the end of a container, or
\* of nodes that all were in the container, none at the insertion point already.
\* Others are not counted as dragged up, and what follows them goes before them.
KeepsOrder(ip, list) ==
  \/ ip.index = -1 \/ Len(list) = 1
  \/ \A k \in DOMAIN list : /\ Parent(s.kids, list[k]) = ip.into
                            /\ Position(s.kids, list[k]) - 1 # ip.index

\* What is dropped ends together where it was dropped, though it is moved one by
\* one, to indices computed before the first move, and the view changes below.
\* It keeps its order in the drops of KeepsOrder; in the others it may not, in
\* spite of what onDrop does "to prevent reversal of dragged items".
DroppedInOrder ==
  [][(clicks' /\ s'.kids # s.kids) =>
       \A r \in -1..Len(s.rows) - 1, where \in {"before", "on", "after"} :
         Drop(r, where) =>
           LET ip == InsertionPoint(r, where)
           IN IF KeepsOrder(ip, Selection(s)) THEN s'.kids = Put(ip, Selection(s))
              ELSE \E list \in SetToSeqs(ToSet(Selection(s))) : s'.kids = Put(ip, list)]_vars
=============================================================================
