------------------------------- MODULE Layout -------------------------------
(***************************************************************************)
(* How the windows share the screen (src/layout.c): a tree of splits, each *)
(* giving a part of its size to its first child.  Windows are split,       *)
(* deleted and resized by commands (src/window.c), and by the mouse, which *)
(* drags the divider of a split (src/term_redisplay.c); the terminal may   *)
(* change its size (src/redisplay.c).                                      *)
(*                                                                         *)
(* A ratio is the fraction the code computes as a double.  A split of n    *)
(* cells in t, kept as n/t, should be n cells of t again; in doubles,      *)
(* (n/t)*t may be just less than n, for the totals and sizes ROUNDS_DOWN.  *)
(***************************************************************************)
EXTENDS Integers, Sequences, SequencesExt

CONSTANTS Panes,            \* windows
          Sizes,            \* sizes of the terminal: pairs of columns and rows
          Drags,            \* where along a split the mouse is dragged
          LINK_SPLIT_WIDTH, \* least width of a sole window split for a link
          MAX_GENERATION,   \* bound: splits and deletions
          MAX_RESIZES       \* bound

(* Of totals up to 24, those and the sizes that doubles make one smaller.   *)
ROUNDS_DOWN == {<<22, 15>>, <<23, 13>>}

ASSUME LayoutAssumption == /\ \A s \in Sizes : s \in (4..24) \X (2..24)
                           /\ Drags \subseteq Nat /\ LINK_SPLIT_WIDTH \in Nat /\ {MAX_GENERATION, MAX_RESIZES} \subseteq Nat

VARIABLES
    root,        \* root_node
    size,        \* columns and rows
    panes,       \* the window list
    curPane,     \* cur_wp
    generation,
    resizes,     \* number of changes by command or mouse
    drag,        \* the split pressed, and the generation then
    told         \* history: the split last resized, by what, and what for
layVars == <<root, size, panes, curPane, generation, resizes, drag, told>>

Leaf(w) == [leaf |-> TRUE, wp |-> w]
SplitNode(kind, a, b) == [leaf |-> FALSE, kind |-> kind, num |-> 1, den |-> 2, kids |-> <<a, b>>]
NoDrag == [path |-> <<>>, generation |-> -1]
NotTold == [by |-> "none", path |-> <<>>, size |-> 0]

LayInit == /\ LET w == CHOOSE w \in Panes : TRUE IN root = Leaf(w) /\ panes = <<w>> /\ curPane = w
           /\ size \in Sizes
           /\ generation = 0 /\ resizes = 0 /\ drag = NoDrag /\ told = NotTold

-----------------------------------------------------------------------------
(* Sizes *)

(* (size_t) ((double) total * n->ratio)                                     *)
Part(n, total) ==
  LET d == (total * n.num) \div n.den
  IN  IF \E r \in ROUNDS_DOWN : total = r[1] /\ n.num * r[1] = n.den * r[2] THEN d - 1 ELSE d

FirstSize(n, total) ==
  LET d == Part(n, total)
  IN  IF d = 0 /\ total > 0 THEN 1 ELSE IF d >= total /\ total > 1 THEN total - 1 ELSE d

(* winnode_layout: the rectangles of all nodes under n, by path.            *)
RECURSIVE Rects(_, _, _)
Rects(n, path, r) ==
  {[path |-> path, node |-> n, x |-> r.x, y |-> r.y, w |-> r.w, h |-> r.h]} \cup
  IF n.leaf THEN {}
  ELSE IF n.kind = "rows"
  THEN LET d == FirstSize(n, r.h)
       IN  Rects(n.kids[1], Append(path, 1), [r EXCEPT !.h = d])
           \cup Rects(n.kids[2], Append(path, 2), [r EXCEPT !.y = @ + d, !.h = @ - d])
  ELSE LET d == FirstSize(n, r.w)
       IN  Rects(n.kids[1], Append(path, 1), [r EXCEPT !.w = d])
           \cup Rects(n.kids[2], Append(path, 2), [r EXCEPT !.x = @ + d, !.w = @ - d])

All(tree, s) == Rects(tree, <<>>, [x |-> 0, y |-> 0, w |-> s[1], h |-> s[2]])
Leaves(tree, s) == {r \in All(tree, s) : r.node.leaf}
RectOf(w) == CHOOSE r \in Leaves(root, size) : r.node.wp = w
RectAt(path) == CHOOSE r \in All(root, size) : r.path = path

TooSmall(w, h) == h < 2 \/ w < 4

(* winnode_fits *)
FitsIn(n, w, h) == \A r \in Leaves(n, <<w, h>>) : ~TooSmall(r.w, r.h)

(* split_fits: the children of the split r, the first one of d cells.       *)
SplitFits(r, d) ==
  IF r.node.kind = "rows" THEN FitsIn(r.node.kids[1], r.w, d) /\ FitsIn(r.node.kids[2], r.w, r.h - d)
  ELSE FitsIn(r.node.kids[1], d, r.h) /\ FitsIn(r.node.kids[2], r.w - d, r.h)

Total(r) == IF r.node.kind = "rows" THEN r.h ELSE r.w

-----------------------------------------------------------------------------
(* Changing the tree *)

RECURSIVE Put(_, _, _)
Put(n, path, new) == IF path = <<>> THEN new
                     ELSE [n EXCEPT !.kids[Head(path)] = Put(@, Tail(path), new)]

(* replace_leaf_with_split, and wm_split                                    *)
SplitPane(w, kind, new) ==
  /\ root' = Put(root, RectOf(w).path, SplitNode(kind, Leaf(w), Leaf(new)))
  /\ panes' = InsertAt(panes, SelectInSeq(panes, LAMBDA p : p = w) + 1, new)
  /\ generation' = generation + 1

(* remove_leaf_and_promote_sibling                                          *)
Promoted_Itself(tree, path) ==
  LET up == Front(path)
      parent == (CHOOSE r \in All(tree, size) : r.path = up).node
  IN  Put(tree, up, parent.kids[Last(path)])
Promoted(tree, path) ==
  LET up == Front(path)
      parent == (CHOOSE r \in All(tree, size) : r.path = up).node
  IN  Put(tree, up, parent.kids[3 - Last(path)])

(* window_delete: the one before it is selected, or the next.               *)
AfterDeleting(list, w, cur) ==
  LET i == SelectInSeq(list, LAMBDA p : p = w)
  IN  IF w # cur THEN cur ELSE IF i = 1 THEN list[2] ELSE list[i - 1]

Removed(state, w, s) ==
  LET r == CHOOSE r \in Leaves(state.root, s) : r.node.wp = w
  IN  [root |-> Promoted(state.root, r.path),
       panes |-> SelectSeq(state.panes, LAMBDA p : p # w),
       cur |-> AfterDeleting(state.panes, w, state.cur), n |-> state.n + 1]

Became(state) == /\ root' = state.root /\ panes' = state.panes /\ curPane' = state.cur
                 /\ generation' = state.n

Shape == [root |-> root, panes |-> panes, cur |-> curPane, n |-> generation]

-----------------------------------------------------------------------------
(* Commands (window.c)                                                      *)

More == generation < MAX_GENERATION

Free == Panes \ ToSet(panes)

SplitWin(kind) == /\ More /\ Free # {}
                  /\ IF kind = "rows" THEN RectOf(curPane).h >= 4 ELSE RectOf(curPane).w >= 4
                  /\ SplitPane(curPane, kind, CHOOSE w \in Free : TRUE)
                  /\ told' = NotTold
                  /\ UNCHANGED <<size, curPane, resizes, drag>>

DeleteWin == /\ More /\ Len(panes) > 1
             /\ Became(Removed(Shape, curPane, size))
             /\ told' = NotTold
             /\ UNCHANGED <<size, resizes, drag>>

OtherWin == /\ \E w \in ToSet(panes) \ {curPane} : curPane' = w
            /\ told' = NotTold
            /\ UNCHANGED <<root, size, panes, generation, resizes, drag>>

(* resize_window_layout: the nearest split of the kind is changed.          *)
Resizable(kind) ==
  LET path == RectOf(curPane).path
  IN  {i \in 1..Len(path) : RectAt(SubSeq(path, 1, i - 1)).node.kind = kind}

Clamp(num, den) == IF 20 * num < den THEN <<1, 20>>
                   ELSE IF 20 * num > 19 * den THEN <<19, 20>> ELSE <<num, den>>

CountedResize == resizes < MAX_RESIZES /\ resizes' = resizes + 1

Resize(kind, delta) ==
  /\ CountedResize
  /\ Resizable(kind) # {}
  /\ LET i == Max(Resizable(kind))
         path == SubSeq(RectOf(curPane).path, 1, i - 1)
         first == RectOf(curPane).path[i] = 1
         split == RectAt(path)
         total == Total(split)
         now == IF first THEN Part(split.node, total) ELSE total - Part(split.node, total)
         new == Max({2, Min({total - 2, now + delta})})
         ratio == Clamp(IF first THEN new ELSE total - new, total)
     IN  /\ new # now
         /\ root' = Put(root, path, [split.node EXCEPT !.num = ratio[1], !.den = ratio[2]])
         /\ told' = [by |-> "command", path |-> path, size |-> IF first THEN new ELSE total - new]
  /\ UNCHANGED <<size, panes, curPane, generation, drag>>

(* window_left_of: of those wholly to the left and beside it, the nearest,  *)
(* and then the one most beside it.                                         *)
Overlap(a, b) == Min({a.y + a.h, b.y + b.h}) - Max({a.y, b.y})
LeftOf(w) ==
  LET f == RectOf(w)
      beside == {r \in Leaves(root, size) : r.x + r.w <= f.x /\ Overlap(r, f) > 0}
      near == {r \in beside : \A q \in beside : q.x + q.w <= r.x + r.w}
  IN  {r.node.wp : r \in {r \in near : \A q \in near : Overlap(q, f) <= Overlap(r, f)}}

(* window_for_link, where no other window shows the file or a terminal.     *)
FollowLink ==
  /\ \/ curPane' \in LeftOf(curPane) /\ UNCHANGED <<root, panes, generation>>
     \/ /\ Len(panes) > 1 /\ LeftOf(curPane) = {}
        /\ curPane' = Head(SelectSeq(panes, LAMBDA p : p # curPane))
        /\ UNCHANGED <<root, panes, generation>>
     \/ /\ Len(panes) = 1 /\ More /\ Free # {}
        /\ LET wide == RectOf(curPane).w >= LINK_SPLIT_WIDTH
               new == CHOOSE w \in Free : TRUE
           IN  /\ wide \/ RectOf(curPane).h >= 4
               /\ SplitPane(curPane, IF wide THEN "columns" ELSE "rows", new)
               /\ curPane' = IF wide THEN curPane ELSE new
  /\ told' = NotTold
  /\ UNCHANGED <<size, resizes, drag>>

-----------------------------------------------------------------------------
(* The mouse *)

(* A press on the divider that layout_divider_at finds.                      *)
Press == /\ \E r \in All(root, size) : /\ ~r.node.leaf
                                       /\ drag' = [path |-> r.path, generation |-> generation]
         /\ told' = NotTold
         /\ UNCHANGED <<root, size, panes, curPane, generation, resizes>>

(* layout_resize_split: as asked, or nearest to it with no window too small.*)
HalfOver(d, total) == <<2 * d + 1, 2 * total>>

Nearest(r, asked, now) ==
  LET towards == IF asked < now THEN asked..now ELSE now..asked
      good == {d \in towards : d = now \/ SplitFits(r, d)}
  IN  IF asked < now THEN Min(good) ELSE Max(good)

DragTo(asked) ==
  LET r == RectAt(drag.path)
      total == Total(r)
      now == FirstSize(r.node, total)
      d == Nearest(r, Max({1, Min({total - 1, asked})}), now)
      ratio == HalfOver(d, total)
  IN  /\ total >= 2 /\ d # now
      /\ root' = Put(root, drag.path, [r.node EXCEPT !.num = ratio[1], !.den = ratio[2]])
      /\ told' = [by |-> "mouse", path |-> drag.path, size |-> d]

Drag == /\ drag # NoDrag
        /\ drag.generation = generation
        /\ CountedResize
        /\ \E asked \in Drags : DragTo(asked)
        /\ UNCHANGED <<size, panes, curPane, generation, drag>>

Release == /\ drag # NoDrag
           /\ drag' = NoDrag
           /\ told' = NotTold
           /\ UNCHANGED <<root, size, panes, curPane, generation, resizes>>

-----------------------------------------------------------------------------
(* The terminal changes its size: while a window is too small, the first    *)
(* such in the tree is deleted.                                             *)
InOrder(a, b) == \E i \in 1..Len(a) : SubSeq(a, 1, i - 1) = SubSeq(b, 1, i - 1) /\ a[i] < b[i]

RECURSIVE Shrunk(_, _)
Shrunk(state, s) ==
  LET small == {r \in Leaves(state.root, s) : TooSmall(r.w, r.h)}
  IN  IF small = {} \/ Len(state.panes) = 1 THEN state
      ELSE LET first == CHOOSE r \in small : \A q \in small : q = r \/ InOrder(r.path, q.path)
           IN  Shrunk(Removed(state, first.node.wp, s), s)

ResizeWindows == /\ More
                 /\ \E s \in Sizes \ {size} :
                      /\ size' = s
                      /\ Became(Shrunk(Shape, s))
                 /\ told' = NotTold
                 /\ UNCHANGED <<resizes, drag>>

LayNext == \/ \E kind \in {"rows", "columns"} :
                SplitWin(kind) \/ (\E delta \in {-1, 1} : Resize(kind, delta))
           \/ DeleteWin \/ OtherWin \/ FollowLink \/ Press \/ Drag \/ Release \/ ResizeWindows

-----------------------------------------------------------------------------
(* However windows are split, deleted and resized, the tree holds the       *)
(* windows of the list, the current one among them, and they fill the       *)
(* screen and do not overlap.                                               *)
RECURSIVE SumAreas(_)
SumAreas(rs) == IF rs = {} THEN 0
                ELSE LET r == CHOOSE r \in rs : TRUE IN r.w * r.h + SumAreas(rs \ {r})

Tiled ==
  LET rs == Leaves(root, size)
  IN  /\ {r.node.wp : r \in rs} = ToSet(panes)
      /\ curPane \in ToSet(panes)
      /\ SumAreas(rs) = size[1] * size[2]
      /\ \A a, b \in rs : a # b => \/ a.x + a.w <= b.x \/ b.x + b.w <= a.x
                                   \/ a.y + a.h <= b.y \/ b.y + b.h <= a.y

(* What is dragged gets the size that was found to leave room for every     *)
(* window, which a split keeps however its ratio is rounded.                *)
SizeOf(path) == LET r == RectAt(path) IN FirstSize(r.node, Total(r))
DragIsExact == told.by = "mouse" => SizeOf(told.path) = told.size

(* The tree of splits (replace_leaf_with_split, layout_resize_split and     *)
(* remove_leaf_and_promote_sibling in layout.c) shares the whole screen     *)
(* among just the windows of the list, and a divider that is dragged stays  *)
(* where it was put.                                                        *)
FrameShared == Tiled /\ DragIsExact

(* A command that makes a window one line bigger or smaller does so.        *)
ResizedAsAsked == told.by = "command" => SizeOf(told.path) = told.size
=============================================================================
