------------------------------ MODULE Hierarchy ------------------------------
(***************************************************************************)
(* The pages of a gschem window and the links between them: opening,        *)
(* closing and reverting pages (gschem/src/x_highlevel.c, x_lowlevel.c),    *)
(* going down into the sources or the symbol of a component and up again    *)
(* (x_hierarchy.c), the previous and the next page, the traversal for       *)
(* autonumbering (x_autonumber.c) and for searching text                    *)
(* (gschem_find_text_dockable.c) over libgeda/src/s_hierarchy.c and         *)
(* s_page.c, and undo, which restores the links of a page (o_undo.c).       *)
(*                                                                         *)
(* A handler is a function of the toplevel, composed of the functions that  *)
(* it calls.  Pages are only ever appended to the list of pages, and their  *)
(* pids increase, so the list is the set of pids in increasing order.       *)
(*                                                                         *)
(* What a page contains is its components, each with the file of its symbol *)
(* and its source= attributes, split at the commas.  Names of schematics    *)
(* and symbols are those of files in the source and component libraries.    *)
(* Files written by other programs, backups and failing writes are in       *)
(* PageFile, the trimming of undo lists is in Undo.                         *)
(*                                                                         *)
(* The operators NotBack, NoPage, ChainOfOne, KeptLink and NeverVisited are *)
(* faulty variants of the operators after them, which some property below   *)
(* tells apart; nothing uses them.                                          *)
(***************************************************************************)
EXTENDS Lists, FiniteSets

CONSTANTS
  Schematics,       \* the files of schematics
  Symbols,          \* the files of symbols
  Unreadable,       \* files that exist, but that o_read fails on
  Untitled,         \* the name of untitled pages
  NONE,             \* the content of a missing file
  Lowercase,        \* files with the same value differ by case only
  Designs,          \* what the files can contain at first
  Drawings,         \* what the user draws on a schematic
  EnforceHierarchy, \* the option enforce-hierarchy
  Texts,            \* whether the text to number ends in "*" or "?"
  MaxPages,         \* bound: the pages made
  MaxVisits,        \* bound: the rounds of a traversal or a search
  MaxControl,       \* bound: the page control numbers given out
  MaxChanges        \* bound: undo entries after the first, and pages named by the user

Files == Schematics \cup Symbols

ASSUME FilesAssumption ==
  /\ Schematics \cap Symbols = {}
  /\ Unreadable \subseteq Files
  /\ Untitled \notin Files /\ NONE \notin Files
ASSUME OptionsAssumption == EnforceHierarchy \in BOOLEAN /\ Texts \subseteq BOOLEAN

Component == [symbol : Symbols, source : Seq(Seq(Schematics))]

\* Symbols have no components.
ASSUME DesignsAssumption ==
  /\ \A d \in Designs :
       /\ DOMAIN d = Files
       /\ \A f \in Schematics : d[f] \in {NONE} \cup Seq(Component)
       /\ \A f \in Symbols : d[f] \in {NONE, <<>>}
  /\ Drawings \subseteq Seq(Component)
ASSUME BoundsAssumption == {MaxPages, MaxVisits, MaxControl, MaxChanges} \subseteq Nat

VARIABLES
  top,  \* the TOPLEVEL, with the view of the window and the static counters
  disk  \* [Files -> contents \cup {NONE}]

vars == <<top, disk>>

None == -1      \* no page: NULL
NoParent == -2  \* page->up of a page that nobody went down to

Min1(S) == CHOOSE x \in S : \A y \in S : x <= y
Max1(S) == CHOOSE x \in S : \A y \in S : x >= y

(* The pages in the order of the list. *)
Pages(t) == DOMAIN t.page
FirstOf(S) == IF S = {} THEN None ELSE Min1(S)
LastOf(S) == IF S = {} THEN None ELSE Max1(S)

-----------------------------------------------------------------------------
(* Pages: s_page.c, o_undo.c and f_basic.c as far as the links go *)

Node(p) == [content |-> p.content, page_control |-> p.page_control,
            up |-> p.up, CHANGED |-> p.CHANGED]

(* came_from, relinked and named are ghosts: the page from which the page was
   reached last, going down or in a traversal; undo, redo or the revert of
   another page for the same file changed up since; the user chose the name
   of the page.                                                             *)
NewPage(f) ==
  [file |-> f, is_untitled |-> FALSE, content |-> <<>>, CHANGED |-> FALSE,
   up |-> NoParent, page_control |-> 0, undo |-> <<>>, at |-> 0,
   came_from |-> None, relinked |-> FALSE, named |-> FALSE]

(* The new page gets the pid t.global_pid. *)
s_page_new(t, p) ==
  [t EXCEPT !.page = [q \in Pages(t) \cup {t.global_pid} |->
                        IF q = t.global_pid THEN p ELSE t.page[q]],
            !.global_pid = @ + 1]

s_page_goto(t, p) == [t EXCEPT !.page_current = p]

(* The view of the window forgets the page by its weak reference. *)
s_page_delete(t, p) ==
  [t EXCEPT !.page = [q \in Pages(t) \ {p} |-> t.page[q]],
            !.page_current = IF @ = p THEN None ELSE @,
            !.view = IF @ = p THEN None ELSE @]

NoPage(t, f) == None

s_page_search(t, f) ==
  FirstOf({p \in Pages(t) : ~t.page[p].is_untitled /\ t.page[p].file = f})

s_page_search_by_page_id(t, id) == IF id \in Pages(t) THEN id ELSE None

Exists(f) == disk[f] # NONE
Readable(f) == Exists(f) /\ f \notin Unreadable

f_open(t, p) ==
  IF Readable(t.page[p].file)
  THEN [t EXCEPT !.page[p].content = disk[t.page[p].file], !.page[p].CHANGED = FALSE]
  ELSE t

o_undo_savestate(t, p) ==
  LET q == t.page[p]
  IN  [t EXCEPT !.page[p] =
        [q EXCEPT !.undo = Append(SubSeq(q.undo, 1, q.at), Node(q)), !.at = q.at + 1]]

o_undo_callback(t, p, i) ==
  LET q == t.page[p]
      n == q.undo[i]
  IN  [t EXCEPT !.page[p] =
        [q EXCEPT !.content = n.content, !.page_control = n.page_control,
                  !.up = n.up, !.CHANGED = n.CHANGED, !.at = i,
                  !.relinked = @ \/ q.up # n.up]]

-----------------------------------------------------------------------------
(* x_window.c, x_lowlevel.c: functions that return a page return a record   *)

Result(t, p) == [top |-> t, page |-> p]

(* gschem_page_view_set_page does nothing for the page it shows already. *)
x_window_set_current_page(t, p) ==
  IF (p = t.page_current /\ t.view # None) \/ p = t.view
  THEN t
  ELSE s_page_goto([t EXCEPT !.view = p], p)

NotBack(t, saved) == t

(* What a function does that made another page current for a while. *)
Back(t, saved) == IF saved = None THEN t ELSE s_page_goto(t, saved)

(* A new page with its root undo entry *)
Entered(t, p, saved) == Back(o_undo_savestate(s_page_goto(t, p), p), saved)

x_lowlevel_new_page(t, f) ==
  LET p == [NewPage(f) EXCEPT !.is_untitled = f = Untitled, !.named = f # Untitled]
  IN  IF f # Untitled /\ Exists(f)
      THEN Result(t, None)
      ELSE Result(Entered(s_page_new(t, p), t.global_pid, t.page_current), t.global_pid)

x_lowlevel_open_page(t, f) ==
  LET found == s_page_search(t, f)
      pid == t.global_pid
      new == s_page_new(t, NewPage(f))
  IN  CASE found # None -> Result(t, found)
        [] found = None /\ Readable(f) ->
             Result(Entered(f_open(new, pid), pid, t.page_current), pid)
        [] OTHER ->
             Result(Back(s_page_delete(s_page_goto(new, pid), pid), t.page_current), None)

x_lowlevel_close_page(t, p) ==
  LET parent == s_page_search_by_page_id(t, t.page[p].up)
      prev == LastOf({q \in Pages(t) : q < p})
      next == FirstOf({q \in Pages(t) : q > p})
      beside == IF prev # None THEN prev ELSE next
      new_current == IF parent # None THEN parent ELSE beside
      deleted == s_page_delete(t, p)
      new == x_lowlevel_new_page(deleted, Untitled)
  IN  CASE p # t.page_current -> deleted
        [] p = t.page_current /\ new_current # None ->
             x_window_set_current_page(deleted, new_current)
        [] OTHER -> x_window_set_current_page(new.top, new.page)

(* The new page takes over the links of the old one; it is not new if another
   page has the same file.                                                  *)
x_lowlevel_revert_page(t, p) ==
  LET old == t.page[p]
      deleted == s_page_delete(t, p)
      o == x_lowlevel_open_page(deleted, old.file)
      read == o.top.page[o.page]
      kept == [o.top EXCEPT !.page[o.page] =
                [read EXCEPT !.page_control = old.page_control, !.up = old.up,
                          !.came_from = old.came_from,
                          !.relinked = old.relinked \/ o.page \in Pages(deleted),
                          !.named = @ \/ old.named]]
      first == FirstOf(Pages(deleted))
      new == x_lowlevel_new_page(o.top, Untitled)
  IN  CASE o.page # None /\ t.page_current = p -> x_window_set_current_page(kept, o.page)
        [] o.page # None /\ t.page_current # p -> kept
        [] o.page = None /\ o.top.page_current # None -> o.top
        [] o.page = None /\ o.top.page_current = None /\ first # None ->
             x_window_set_current_page(o.top, first)
        [] OTHER -> x_window_set_current_page(new.top, new.page)

(* Names are compared by g_ascii_strcasecmp. *)
Renamed(p, f) == p.is_untitled \/ Lowercase[p.file] # Lowercase[f]

(* x_lowlevel_save_page for the page; what it writes is Written. *)
Saved(t, p, f) ==
  LET q == t.page[p]
  IN  [t EXCEPT !.page[p] =
        [q EXCEPT !.file = IF Renamed(q, f) THEN f ELSE @, !.is_untitled = FALSE,
                  !.CHANGED = FALSE, !.named = @ \/ Renamed(q, f)]]

Written(p, f) == [disk EXCEPT ![f] = top.page[p].content]

-----------------------------------------------------------------------------
(* s_hierarchy.c *)

Parent(t, p) == s_page_search_by_page_id(t, t.page[p].up)

(* S has with a page the one that is found by its link. *)
ClosedUpwards(t, S) == \A q \in S : Parent(t, q) \in S \cup {None}

(* p, its parent, the parent of that, and so on *)
Chain(t, p) ==
  {q \in Pages(t) : \A S \in SUBSET Pages(t) : p \in S /\ ClosedUpwards(t, S) => q \in S}

ChainOfOne(t, p) == {p}

(* The pages that the search for a circular dependency looks at, from p up. *)
Forebears(t, p) == Chain(t, p)

(* The search goes round for ever, and the window hangs, unless it happens to
   look for a page in the circle; such a window is not followed any further. *)
Endless(t, p) == \A q \in Forebears(t, p) : Parent(t, q) # None

WithSource(content) == Filtered(content, {c \in ToSet(content) : c.source # <<>>})

(* The file that the whole of the first source= attribute names; the library
   has none whose name contains a comma.                                    *)
SourceOf(c) == IF Len(c.source[1]) = 1 THEN c.source[1][1] ELSE NONE

(* s_hierarchy_down_schematic_single (..., 0, HIERARCHY_NORMAL_LOAD, ...) *)
s_hierarchy_down_schematic_single(t, f, parent) ==
  LET found == s_page_search(t, f)
      pid == t.global_pid
      new == f_open(s_page_new(t, NewPage(f)), pid)
      Linked(u, p, control) ==
        [u EXCEPT !.page[p] =
          [@ EXCEPT !.page_control = control, !.up = parent, !.came_from = parent,
                    !.relinked = FALSE],
          !.page_control_counter = IF found = None THEN control ELSE @]
      missing == f = NONE \/ ~Exists(f)
      circular == found # None /\ found \in Forebears(t, parent)
  IN  CASE missing \/ circular -> Result(t, None)
        [] ~missing /\ ~circular /\ found # None ->
             Result(Linked(s_page_goto(t, found), found, t.page[found].page_control), found)
        [] OTHER -> Result(Linked(new, pid, t.page_control_counter + 1), pid)

NeverVisited(p, pages) == FALSE

Visited(p, pages) == p \in ToSet(pages)

(* A call for page p.  What its loop, and the loops of the calls it was made
   from, have still to look at is in todo: a component each, with its page.  *)
Traverse(s, p) ==
  LET components == WithSource(s.top.page[p].content)
  IN  IF Visited(p, s.pages)
      THEN s
      ELSE [s EXCEPT !.pages = Append(@, p),
                     !.todo = [i \in DOMAIN components |->
                                 [component |-> components[i], parent |-> p]] \o @]

(* The next round of the innermost loop *)
Dive(s) ==
  LET next == Head(s.todo)
      r == s_hierarchy_down_schematic_single(s.top, SourceOf(next.component), next.parent)
      rest == [s EXCEPT !.top = r.top, !.todo = Tail(@)]
  IN  CASE s.todo = <<>> -> s
        [] s.todo # <<>> /\ r.page = None -> rest
        [] OTHER -> Traverse(rest, r.page)

(* s_hierarchy_traversepages (..., HIERARCHY_NODUPS), up to MaxVisits rounds;
   it has ended if nothing is left to do.                                   *)
s_hierarchy_traversepages(t, p) ==
  LET after[n \in 0 .. MaxVisits] ==
        IF n = 0 THEN Traverse([top |-> t, pages |-> <<>>, todo |-> <<>>], p)
        ELSE Dive(after[n - 1])
  IN  after[MaxVisits]

s_hierarchy_load_subpage(t, f, p) ==
  LET found == s_page_search(t, f)
      pid == t.global_pid
      new == f_open(s_page_new(t, NewPage(f)), pid)
      counter == t.page_control_counter + 1
  IN  CASE ~Exists(f) -> Result(t, None)
        [] Exists(f) /\ found # None -> Result(t, found)
        [] Exists(f) /\ found = None /\ f \in Unreadable -> Result(s_page_delete(new, pid), None)
        [] OTHER -> Result([new EXCEPT !.page[pid].page_control = counter,
                                       !.page_control_counter = counter], pid)

Siblings(t, p) == {q \in Pages(t) : t.page[q].page_control = t.page[p].page_control}
s_hierarchy_find_prev_page(t, p) == LastOf({q \in Siblings(t, p) : q < p})
s_hierarchy_find_next_page(t, p) == FirstOf({q \in Siblings(t, p) : q > p})

-----------------------------------------------------------------------------
(* gschem_find_text_dockable.c *)

(* The subpage for f after those found already *)
Loaded(acc, f, p) ==
  LET r == s_hierarchy_load_subpage(acc.top, f, p)
  IN  [top |-> r.top,
       pages |-> IF r.page = None THEN acc.pages ELSE Append(acc.pages, r.page)]

get_subpages(t, p) ==
  LET components == WithSource(t.page[p].content)
      files == FlattenSeq([i \in DOMAIN components |-> components[i].source[1]])
      loaded[n \in 0 .. Len(files)] ==
        IF n = 0 THEN [top |-> t, pages |-> <<>>] ELSE Loaded(loaded[n - 1], files[n], p)
  IN  loaded[Len(files)]

(* One round of the loop in get_pages *)
Visit(s) ==
  LET p == Head(s.input)
      r == get_subpages(s.top, p)
      rest == [s EXCEPT !.input = Tail(@)]
  IN  CASE s.input = <<>> -> s
        [] s.input # <<>> /\ p \in ToSet(s.output) -> rest
        [] OTHER -> [rest EXCEPT !.top = r.top, !.input = @ \o r.pages, !.output = Append(@, p)]

get_pages(t, pages) ==
  LET after[n \in 0 .. MaxVisits] ==
        IF n = 0 THEN [top |-> t, input |-> pages, output |-> <<>>] ELSE Visit(after[n - 1])
  IN  after[MaxVisits]

-----------------------------------------------------------------------------
(* x_hierarchy.c *)

KeptLink(p, control, parent) ==
  IF p.up = NoParent
  THEN [p EXCEPT !.page_control = control, !.up = parent, !.came_from = parent, !.relinked = FALSE]
  ELSE [p EXCEPT !.came_from = parent]

(* The link of a page that the user goes down to *)
Link(p, control, parent) ==
  [p EXCEPT !.page_control = control, !.up = parent, !.came_from = parent, !.relinked = FALSE]

Created(t, f) ==
  {p \in Pages(t) : t.page[p].up = t.page_current /\ ~t.page[p].is_untitled /\ t.page[p].file = f}

(* One round of the loop in x_hierarchy_down_schematic; s.page_control is 0
   until the first page is linked.  For a missing file it offers to create a
   page; the user keeps the name that is proposed, or declines.             *)
load_source(s, f, create) ==
  LET current == s.top.page_current
      opened == x_lowlevel_open_page(s.top, f)
      made == x_lowlevel_new_page(s.top, f)
      control == IF s.page_control = 0 THEN s.top.page_control_counter + 1 ELSE s.page_control
      First(p) == IF s.first_page = None THEN p ELSE s.first_page
      With(r) == [top |-> [r.top EXCEPT !.page[r.page] = Link(@, control, current),
                                        !.page_control_counter = Max1({@, control})],
                  page_control |-> control, first_page |-> First(r.page)]
  IN  CASE Exists(f) /\ opened.page \in {None} \cup Forebears(opened.top, current) ->
             [s EXCEPT !.top = opened.top]
        [] Exists(f) /\ opened.page \notin {None} \cup Forebears(opened.top, current) ->
             With(opened)
        [] ~Exists(f) /\ Created(s.top, f) # {} ->
             [s EXCEPT !.first_page = First(Min1(Created(s.top, f)))]
        [] ~Exists(f) /\ Created(s.top, f) = {} /\ create -> With(made)
        [] OTHER -> s

x_hierarchy_down_schematic(t, c, create) ==
  LET files == FlattenSeq(c.source)
      loaded[n \in 0 .. Len(files)] ==
        IF n = 0 THEN [top |-> t, page_control |-> 0, first_page |-> None]
        ELSE load_source(loaded[n - 1], files[n], create)
      s == loaded[Len(files)]
  IN  IF s.first_page = None THEN s.top ELSE x_window_set_current_page(s.top, s.first_page)

x_hierarchy_down_symbol(t, c) ==
  LET r == x_lowlevel_open_page(t, c.symbol)
      control == t.page_control_counter + 1
  IN  CASE ~Exists(c.symbol) -> t   \* the library has no such symbol
        [] Exists(c.symbol) /\ r.page = None -> r.top
        [] Exists(c.symbol) /\ r.page # None ->
             x_window_set_current_page(
               [r.top EXCEPT !.page[r.page] = Link(@, control, t.page_current),
                             !.page_control_counter = control], r.page)

-----------------------------------------------------------------------------
(* The actions of the user *)

current == top.page[top.page_current]

(* The bounds.  A design that the user changes gets one page less. *)
Bounded ==
  LET entries == {e \in Pages(top') \X (2 .. MaxChanges + 2) :
                    e[2] \in DOMAIN top'.page[e[1]].undo}
      drawn == {e \in entries : LET undo == top'.page[e[1]].undo
                               IN  undo[e[2]].content # undo[e[2] - 1].content}
      named == {p \in Pages(top') : top'.page[p].named}
      changed == disk' \notin Designs \/ drawn # {} \/ named # {}
  IN  /\ top'.global_pid <= IF changed THEN MaxPages - 1 ELSE MaxPages
      /\ top'.page_control_counter <= MaxControl
      /\ Cardinality(entries) + Cardinality(named) <= MaxChanges

(* x_highlevel_new_page *)
NewUntitled ==
  LET r == x_lowlevel_new_page(top, Untitled)
  IN  /\ top' = x_window_set_current_page(r.top, r.page)
      /\ UNCHANGED disk
      /\ Bounded

(* x_highlevel_open_page, open_or_create_page; create is the answer to the
   question that it asks for a missing file.  The offer to reread a file that
   has changed on disk is Revert followed by Select.                        *)
Open(f, create) ==
  LET found == s_page_search(top, f)
      missing == IF create THEN x_lowlevel_new_page(top, f) ELSE Result(top, None)
      o == IF found # None \/ Exists(f) THEN x_lowlevel_open_page(top, f) ELSE missing
      sole == FirstOf(Pages(top))
      fresh == /\ Pages(top) = {sole} /\ o.page # sole
               /\ top.page[sole].is_untitled /\ ~top.page[sole].CHANGED
      alone == IF fresh THEN x_lowlevel_close_page(o.top, sole) ELSE o.top
  IN  /\ top' = IF o.page = None THEN o.top ELSE x_window_set_current_page(alone, o.page)
      /\ UNCHANGED disk
      /\ Bounded

HierarchyDownSchematic(i, create) ==
  /\ ~Endless(top, top.page_current)
  /\ top' = x_hierarchy_down_schematic(top, current.content[i], create)
  /\ UNCHANGED disk
  /\ Bounded

HierarchyDownSymbol(i) ==
  /\ top' = x_hierarchy_down_symbol(top, current.content[i])
  /\ UNCHANGED disk
  /\ Bounded

(* A page that is its own parent is freed and then made the current page; what
   happens after that is left out.                                          *)
Closable(p) == s_page_search_by_page_id(top, top.page[p].up) # p

(* x_hierarchy_up; a symbol is closed, and saved first if the user wants. *)
HierarchyUp(save) ==
  LET page == top.page_current
      parent == s_page_search_by_page_id(top, current.up)
      symbol == ~current.is_untitled /\ current.file \in Symbols
      kept == IF save THEN Saved(top, page, current.file) ELSE top
      left == IF symbol THEN x_lowlevel_close_page(kept, page) ELSE top
  IN  /\ parent # None
      /\ symbol => Closable(page)
      /\ save => symbol /\ current.CHANGED
      /\ top' = x_window_set_current_page(left, parent)
      /\ disk' = IF save THEN Written(page, current.file) ELSE disk

PagePrev ==
  LET p == IF EnforceHierarchy
           THEN s_hierarchy_find_prev_page(top, top.page_current)
           ELSE LastOf({q \in Pages(top) : q < top.page_current})
  IN  /\ p # None
      /\ top' = x_window_set_current_page(top, p)
      /\ UNCHANGED disk

PageNext ==
  LET p == IF EnforceHierarchy
           THEN s_hierarchy_find_next_page(top, top.page_current)
           ELSE FirstOf({q \in Pages(top) : q > top.page_current})
  IN  /\ p # None
      /\ top' = x_window_set_current_page(top, p)
      /\ UNCHANGED disk

(* The page manager *)
Select(p) ==
  /\ p # top.page_current
  /\ top' = x_window_set_current_page(top, p)
  /\ UNCHANGED disk

(* A changed page becomes the current one for the question. *)
Shown(p) == IF top.page[p].CHANGED THEN x_window_set_current_page(top, p) ELSE top

(* x_highlevel_close_page; the user discards the changes, if any. *)
Close(p) ==
  /\ Closable(p)
  /\ top' = x_lowlevel_close_page(Shown(p), p)
  /\ UNCHANGED disk
  /\ Bounded

(* x_highlevel_close_page; the user wants the changes saved. *)
SaveAndClose(p) ==
  LET f == top.page[p].file
  IN  /\ Closable(p)
      /\ top.page[p].CHANGED /\ ~top.page[p].is_untitled
      /\ top' = x_lowlevel_close_page(Saved(Shown(p), p, f), p)
      /\ disk' = Written(p, f)
      /\ Bounded

(* x_highlevel_revert_page *)
Revert(p) ==
  /\ ~top.page[p].is_untitled
  /\ top' = x_lowlevel_revert_page(Shown(p), p)
  /\ UNCHANGED disk
  /\ Bounded

(* An edit adds objects to the current page and saves the undo state of the
   page in the view.  Components are only drawn on schematics.              *)
Edit(content) ==
  LET drawn == [top EXCEPT !.page[top.page_current] =
                  [@ EXCEPT !.content = content, !.CHANGED = TRUE]]
  IN  /\ current.file \in Symbols => content = <<>>
      /\ top.view # None
      /\ top' = o_undo_savestate(drawn, top.view)
      /\ UNCHANGED disk
      /\ Bounded

Undo ==
  /\ top.view # None
  /\ top.page[top.view].at > 1
  /\ top' = o_undo_callback(top, top.view, top.page[top.view].at - 1)
  /\ UNCHANGED disk

Redo ==
  /\ top.view # None
  /\ top.page[top.view].at < Len(top.page[top.view].undo)
  /\ top' = o_undo_callback(top, top.view, top.page[top.view].at + 1)
  /\ UNCHANGED disk

(* x_highlevel_save_page for a page that has a name *)
Save ==
  /\ ~current.is_untitled
  /\ top' = Saved(top, top.page_current, current.file)
  /\ disk' = Written(top.page_current, current.file)

(* x_fileselect_save; schematics are saved as schematics, symbols as symbols. *)
SaveAs(f) ==
  /\ f \in Symbols <=> current.file \in Symbols
  /\ top' = Saved(top, top.page_current, f)
  /\ disk' = Written(top.page_current, f)
  /\ Bounded

(* autonumber_text_autonumber; complete is FALSE for a text that ends neither
   in "*" nor in "?".  The pages in scope have something to number.          *)
Autonumber(all, complete) ==
  LET s == s_hierarchy_traversepages(top, top.page_current)
      scope == IF all THEN ToSet(s.pages) ELSE {top.page_current}
      numbered == [s.top EXCEPT !.page = [p \in Pages(s.top) |->
                     [s.top.page[p] EXCEPT !.CHANGED = @ \/ p \in scope]]]
  IN  /\ ~Endless(top, top.page_current)
      /\ s.todo = <<>>
      /\ top.view # None
      /\ top' = IF complete
                THEN o_undo_savestate(Back(numbered, top.page_current), top.view)
                ELSE s.top
      /\ UNCHANGED disk
      /\ Bounded

(* gschem_find_text_dockable_find with "descend into hierarchy" *)
FindText ==
  LET s == get_pages(top, Filtered([i \in 1 .. top.global_pid |-> i - 1], Pages(top)))
  IN  /\ s.input = <<>>
      /\ top' = s.top
      /\ UNCHANGED disk
      /\ Bounded

-----------------------------------------------------------------------------
(* main_prog without files on the command line *)
Init ==
  LET none == [page |-> <<>>, page_current |-> None, view |-> None, global_pid |-> 0,
               page_control_counter |-> 0]
      r == x_lowlevel_new_page(none, Untitled)
  IN  /\ disk \in Designs
      /\ top = x_window_set_current_page(r.top, r.page)

Next ==
  \/ NewUntitled
  \/ \E f \in Files, create \in BOOLEAN : Open(f, create)
  \/ \E i \in DOMAIN current.content, create \in BOOLEAN : HierarchyDownSchematic(i, create)
  \/ \E i \in DOMAIN current.content : HierarchyDownSymbol(i)
  \/ \E save \in BOOLEAN : HierarchyUp(save)
  \/ PagePrev \/ PageNext
  \/ \E p \in Pages(top) : Select(p)
  \/ \E p \in Pages(top) : Close(p)
  \/ \E p \in Pages(top) : SaveAndClose(p)
  \/ \E p \in Pages(top) : Revert(p)
  \/ \E content \in Drawings : Edit(content)
  \/ Undo \/ Redo \/ Save
  \/ \E f \in Files : SaveAs(f)
  \/ \E all \in BOOLEAN, complete \in Texts : Autonumber(all, complete)
  \/ FindText

Spec == Init /\ [][Next]_vars

-----------------------------------------------------------------------------
(* Properties *)

(* The window always shows a page, the current one, and every link is NoParent
   or the pid of a page that is, or once was, open.                         *)
TypeOK ==
  /\ top.page_current \in Pages(top) /\ top.view = top.page_current
  /\ Pages(top) \subseteq 0 .. top.global_pid - 1
  /\ \A p \in Pages(top) :
       LET q == top.page[p]
       IN  /\ q.file \in Files \cup {Untitled}
           /\ q.up \in {NoParent} \cup 0 .. top.global_pid - 1
           /\ q.page_control \in 0 .. top.page_control_counter
           /\ q.at \in 0 .. Len(q.undo)
           /\ q.at = 0 => q.undo = <<>>
  /\ DOMAIN disk = Files

(* No page is among its own parents, on which the search for circular
   dependencies (s_hierarchy.c, x_hierarchy.c) relies to end; only undo and
   redo, which restore the link a page had, and reverting one of two pages for
   a file, which gives its link to the other, can close a circle.           *)
NoCircleUnlessRelinked ==
  \A p \in Pages(top) :
    Parent(top, p) # None /\ p \in Chain(top, Parent(top, p))
      => \E q \in Chain(top, p) : top.page[q].relinked

(* A file is loaded into one page only, whichever of the menus, the way down,
   autonumbering and searching for text asks for it (s_page_search); a page
   that was given its name by the user may hide another.                    *)
OnePagePerFile ==
  \A p, q \in Pages(top) :
    /\ top.page[p].file = top.page[q].file /\ top.page[p].file \in Files
    /\ ~top.page[p].named /\ ~top.page[q].named
    => p = q

(* The way up leads to the page from which the page was last reached, while
   that is open; only undo, redo and reverting change this.                 *)
ComesBackUnlessRelinked ==
  \A p \in Pages(top) :
    top.page[p].came_from \in Pages(top) /\ ~top.page[p].relinked
      => top.page[p].up = top.page[p].came_from

Contents(t, f) ==
  LET p == s_page_search(t, f)
  IN  CASE p # None -> t.page[p].content
        [] p = None /\ f \in Unreadable -> <<>>
        [] OTHER -> disk[f]

(* The files that a traversal looks for below a page with the content *)
Sources(content) ==
  {f \in {SourceOf(c) : c \in ToSet(WithSource(content))} \ {NONE} : Exists(f)}

(* The files, those that a traversal looks for below them, and so on *)
Below(t, files) ==
  {f \in Schematics : \A S \in SUBSET {g \in Schematics : Exists(g)} :
     files \subseteq S /\ (\A g \in S : Sources(Contents(t, g)) \subseteq S) => f \in S}

(* A traversal from the current page ends, lists it and all pages below it, each
   once, and follows no more than the first file of a component; what it finds
   further up than the current page it takes for a circular dependency.     *)
ListsPagesBelow ==
  LET s == s_hierarchy_traversepages(top, top.page_current)
      below == Below(top, Sources(current.content))
      above == {top.page[q].file : q \in Forebears(top, top.page_current)}
  IN  ~Endless(top, top.page_current) =>
        /\ s.todo = <<>> /\ IsInjective(s.pages)
        /\ below \cap above = {} =>
             {s.top.page[s.pages[i]].file : i \in 2 .. Len(s.pages)} = below

=============================================================================
