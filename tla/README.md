# Verification of gEDA/gaf

gEDA/gaf is a suite of programs for electronic design: the schematic editor
gschem on the C library libgeda, the Xorn library and netlister, and a number
of command-line tools.  This directory holds TLA+ models of the parts whose
correctness depends on the *order* in which things happen, the TLC
configurations that check them on small instances, and proofs checked by TLAPS
that hold for all instances.

All paths are relative to `src/`; "o_undo.c:198" is a file and a line.

| Module | Models | Properties are about |
|---|---|---|
| `Undo.tla` | the undo lists of gschem's pages | pointers, undo files, what undo and redo show |
| `History.tla` | abstract: what a user expects of undo | implemented by `Undo` |
| `Undo_proofs.tla` | TLAPS proofs: types, pointers and undo files of `Undo`, what undo shows, what trimming keeps, that `Undo` implements `History` | |
| `PageFile.tla` | a schematic file, its page, backups, the "file changed" bar | no loss of work, no silent overwriting |
| `PageFile_proofs.tla` | TLAPS proofs about `PageFile` | |
| `XornStorage.tla` | revisions, shared object states and the object tree of Xorn | sharing, reference counts, running out of memory |
| `Lists.tla` | lists without doubles, filtering and adding, as the storage library, the netlister and gschem use them | (used by all three) |
| `Lists_proofs.tla` | TLAPS lemmas about the operators of `Lists` and about inserting and erasing | |
| `XornStorage_proofs.tla` | TLAPS proofs about `XornStorage` | |
| `Drawing.tla` | what is connected on one page, for the Xorn netlister | used by `Netlist` |
| `Netlist.tla` | one run of the Xorn netlister over a hierarchy | who is in one net, names, what is dropped |
| `Netlist_proofs.tla` | TLAPS proofs: merging keeps the lists of local nets complete, joined nets stay joined; types, names, connections, and no exception without a report | |
| `NetlistJoined_proofs.tla` | TLAPS proofs: the nets of a page are the drawn ones, the pins of one net are those that the design links | |
| `Wiring.tla` | gschem's connection lists, selection, consolidation of nets | used by `Moving` |
| `Moving.tla` | selecting, drawing nets, moving, turning, deleting, locking | dangling pointers, stale connections, what a drawing joins |
| `Moving_proofs.tla` | TLAPS proofs about `Moving` and `Wiring`: types, lists without dangling pointers, connections, giving up | |
| `Hierarchy.tla` | the pages of a window, the links between them, going down and up, traversals | circles, lost ways back, files in two pages |
| `Hierarchy_proofs.tla` | TLAPS proofs about `Hierarchy`: types, one page for a file, ways back, no circles | |
| `MCUndo`, `MCPageFile`, `MCXornStorage`, `MCNetlist`, `MCMoving`, `MCHierarchy` | small instances, with the `.cfg` files | |

Run `tlc -config MCUndoPages.cfg MCUndo` (any `.cfg` with the MC module whose
name it begins with, `MCXorn*.cfg` with `MCXornStorage`), and
`tlapm Undo_proofs.tla` (or any other `*_proofs.tla`).
`PROJECT.json` lists the runs, what each checks, and for every definition the
lines it is translated from.


## 1. Inventory

### Components

**Undo list** (`gschem/src/o_undo.c`, `libgeda/src/s_undo.c`).
State: for each page a list of `UNDO` nodes from `undo_bottom` to `undo_tos`
and `undo_current` in it; process-wide, `undo_file_index` and the temporary
files `gschem.save<pid>_<n>.sch`.  Operations: `o_undo_savestate` (push, drop
the redo part, trim), `o_undo_callback` (undo, redo), `s_undo_free_all`.
Called by every editing command, by pan and zoom, and by opening a page.
Hard: two kinds of nodes (snapshots and viewport-only ones) in one list, two
ways to store a snapshot, a counter shared by all pages that both names files
and triggers trimming, results of `o_save` that nobody reads, and the place
list shared with an action in progress.
Correct if: undo and redo show what was recorded, the files of live nodes stay,
the pointers stay in the list, the list stays within the configured limit.

**Page and file lifecycle** (`gschem/src/x_highlevel.c`, `x_lowlevel.c`,
`libgeda/src/f_basic.c`, `s_page.c`, `gschem/src/o_misc.c`).
State: `st_page` (`CHANGED`, `last_modified`, `exists_on_disk`,
`saved_since_first_loaded`, `ops_since_last_backup`, `do_autosave_backup`) and on
disk the file, `file~` and `#file#`.  Operations: open, create, save, revert,
close, autosave.
Hard: several system calls per operation with other programs in between, each
may fail, the process may die between any two; a timer; recovery at the next
start; flags that undo restores.
Correct if: what was loaded survives in the file or in the backup, a version
another program wrote between two saves is not overwritten without asking (one it
writes within a save may be, section 6), a page that does not count as changed can
be closed without loss, an autosave backup is offered.

**File change notification** (`gschem_change_notification.c`, `x_fam.c`,
`x_window.c`).  State: path, the known and the current modification time, the
FAM monitor.  Events come from the main loop, later than the change they tell
of.  Correct if: the bar is shown exactly when saving would ask, and is shown
in the end.

**Connectivity** (`libgeda/src/s_conn.c`), **net consolidation**
(`o_net_basic.c`) and **selection** (`o_selection.c`).
State: the objects of a page; for each of them the list of what it touches,
with the point, kept on *both* sides; the selection.  Operations: adding an
object to a page or taking it off (which updates the lists), and
`o_net_consolidate`, which runs at every savestate and merges collinear nets
that meet end to end, freeing one of the two.
Hard: an object's entries in other lists are found only through its own list;
a net is extended by one coordinate, in the direction its ends suggest; the
lists of an object are searched for midpoints on one side only.
Correct if: the lists of two objects agree with each other and with the
geometry; consolidation neither takes a point from the drawing nor joins or
separates anything; nothing points to a freed object.

**Pages and hierarchy** (`gschem/src/x_hierarchy.c`, `x_lowlevel.c`,
`x_highlevel.c`, `libgeda/src/s_hierarchy.c`, `s_page.c`).
State: the list of pages; of each its file, its parent `up` (a pid), the number
`page_control` that it shares with the pages opened together with it; the current
page and the page that the view shows.  Operations: opening, creating, closing,
reverting and naming pages, down to the sources or the symbol of a component, up,
previous and next; and two traversals that load pages on the way, for
autonumbering (`x_autonumber.c`) and for searching text
(`gschem_find_text_dockable.c`).
Hard: a page may be reached from several pages and in several ways, four functions
load pages on their own, undo and revert replace the links, the traversal changes
the links and the current page of what the user looks at, and the search for
circular dependencies itself relies on links without a circle.
Correct if: Up leads where the user came from, a file is in one page only, the
window shows the current page, a traversal finds the pages below and ends.

**Interactive actions** (`x_event.c`, `i_basic.c`, `o_select.c`, `o_move.c`,
`o_place.c`, `o_net.c`, `o_delete.c`, `actions.c`).
State: `event_state`, `inside_action`, `place_list`, `stretch_list`, the
selection.  Most menu actions are available in the middle of another action.
Hard: while something is moved, `place_list` refers to objects of the page; in
all other modes it owns loose ones, and only `event_state` and `inside_action`
tell the two apart.  Rubber-banding collects the nets that follow before the
move and changes the page in doing so.
Correct if: no command that may come in the middle of an action leaves it with
freed objects, giving an action up leaves the page as it was, and moved
components stay joined with what they were joined with.

**Xorn storage** (`xorn/src/storage/`).  State: revisions (is it transient;
the maps `obstates`, `children`, `parent`), reference-counted `obstate`s,
`next_object_id`.  Operations: new, copy, finalize and free a revision; add,
set, relocate, delete, copy objects; set an attribute of a selection.
Hard: states are shared between revisions, three maps describe one tree, and
every allocation may fail and the catch blocks have to undo the rest by hand.
Correct if: reference counts are exact, revisions do not change each other,
the maps agree, a failing call leaves no trace.
Used by the Python bindings and through them by the netlister and `gaf`.

**Netlister** (`xorn/src/gaf/netlist/`).  One pass over a hierarchy of pages.
State: the sheets (a page is instantiated once for each component that has it as
its source), components and pins, local nets (those of one sheet), `Net` objects
with the local nets and pins they gather, `net_dict` from names to `Net`s, the
counters for unnamed nets.
Phases: read the pages and group what touches (`conn.py`, `blueprint.py`);
instantiate (`netlist.py`, `instance.py`); name and merge (`net.py`); resolve
ports of subsheets (`pp_hierarchy.py`); gather packages (`package.py`); drop
unconnected pins.
Hard: nets are merged in several phases and in the order of the objects, while
the local nets, the dictionary, the list of nets and the pins must all follow;
pin objects are shared between the components of a symbol; names are local or
global according to where they come from; errors are reported and the run goes
on.
Correct if: two pins are in one net exactly if a chain of touching lines, equal
names and ports joins them, whatever the order; names are unique; no exception
escapes except after an error that was reported.

The other parts listed in `PROJECT.json` are sequential (file format, backends,
`gsch2pcb`, gattrib, gsymcheck, configuration, libraries) or
presentation (dialogs, rendering), or glue (Scheme and Python bindings).  They
are not modelled; the entry of each says why.

### How they interact

* An editing command changes the page, sets `CHANGED` and calls
  `o_undo_savestate` (`gschem_toplevel.c:645-691`).  That call first writes the
  autosave backups which are due, of *all* pages (`o_undo.c:74-96`), then
  consolidates the nets of the page (`o_undo.c:107-113`), then pushes a node.
* A timer in `s_page.c` sets `do_autosave_backup`; nothing is written until the
  next savestate.
* Undo and redo restore the objects *and* the `CHANGED` flag of a page; saving
  clears the flag but does not touch the flags in the undo list.
* Undo during a move first leaves the move; redo does not (see `undo_redo`).
* Changing the current page, saving and editing refresh the bar; FAM events
  reach it through the main loop.
* Undo also restores the links of a page to its parent and its siblings, which going
  down and the traversals set.
* Opening, closing and reverting create and free undo lists, and cancel the
  action in progress.
* gschem's `s_conn.c` and the netlister's `conn.py` decide the same question, what
  touches what, by two implementations: `Wiring` and `Drawing` model them apart.
* The Xorn storage holds the objects the netlister reads.  The netlister changes
  no revision after reading, so nothing of `XornStorage` appears in `Netlist`.

gschem is single-threaded: interleaving comes from the main loop (between
commands), from other programs and from crashes (between system calls).
Each action of a model is therefore one command or event handler, except where
a handler makes several system calls whose order matters: opening and saving a
file are split at those calls.


## 2. The models

### Undo

A list is a sequence from `undo_bottom` to `undo_tos`, `undo_current` a position
in it.  `undo_file[i]` is the content of the i-th temporary file.
`o_undo_savestate` is the whole function: autosave apart (see PageFile) it drops
the nodes above `undo_current` with their files (`Pushed`, `Files`), pushes the
node, and every `CheckEvery` (in the code 10) saves trims from the bottom
(`Trim`).  `o_undo_callback` is the whole function for both directions;
`Source` is the choice of the node whose data is restored.

The content of a page is an abstract value, with one distinguished value for a
page without objects because the code cannot tell such an object list from none
(`s_undo.c:297`).  `action` says whether an action is in progress and what the
place list shares with the page; `freed_twice` records that an object was freed
a second time, after which the model stops, since the program may do anything.

*History* has no nodes, files or counters: a page has a line of entries and a
place in it.  `Undo` implements it (`ImplementsHistory`): an entry's content is
that of the nearest snapshot at or below its node.  History concedes one
weakness, which `Undo` has: trimming may leave viewport entries at the far end
whose content is lost.

### PageFile

One record per open page, the three files of each, the bar and the FAM event
that is on its way.  `pc` is the place inside an open (`s_page_new` looks at the
file, `f_open_flags` reads it) or a save (rename to `file~`, write, stat).  At
each of these places other programs write or delete the file, and `Crash` closes
everything and starts again.  Modification times come from a clock that every
write advances; `Second` is the precision at which autosaves are compared.
The variables `synced`, `rewound`, `unseen`, `loaded`, `orphan` are ghosts: they
record history for the properties, no action depends on them.  `unseen` says of a
version another program has written, until the user loads it or is told of it, where
the write found the editor: outside of a save of this file ("idle"), or before which
system call of one ("rename", "write", "stat").

The undo list appears as what matters for files, contents and `CHANGED` flags;
`Undo` has the rest.

### XornStorage

`std::map` is a function whose DOMAIN is the set of keys, because the code
depends on which keys exist: `operator[]` creates an entry, which may fail.
`heap` is the memory for object states; its size is a constant, and besides, any
allocation may fail at any time.  Every action is one call of the C API, with
its early returns (`Refused`), its success, and each of the states in which a
`bad_alloc` can leave it, computed as in the catch blocks: pushed and popped
again, copied and deleted again.  The exception that escapes from
`xorn_relocate_object` (`manipulate.cc:370` is outside the try block) is the
result "uncaught".  `xorn_copy_objects` visits objects in the order of the map
and the attached ones after each.

Not in the model: the data of objects, beyond being valid and being equal or
not; the type-specific wrappers in `convenience.cc`; queries, which change
nothing.

### Drawing and Netlist

A *design* is a set of pages with the options of a run; `Designs` is the set of
those explored, and everything else follows from the design.  A page is a
sequence of lines and components; a component shows a symbol, turned and
mirrored, with a few attributes.  `Drawing` is the geometry: `Connections` is
`s_conn_update_line_object` for every instance, `Nets` is `traverse_net`.  What the
code keeps in objects linked to each other is a path here: a sheet is the path
that leads to it, a component its sheet and position, a pin its component and
number.  So "the same pin object in two components" (`ObjectOf`) and "the same pin
of the page" are different things, as in the code.

`Netlist` walks through the phases; `pc` is the phase.  Each step of the loops
whose order matters is one action: one local net and the names it has in common
with others (`NameLocalNet`), one unnamed net (`NumberNet`), one composite
component (`BeginComposite`, `EndComposite`), one pin of it (`ResolvePin`) and one
port for that pin (`JoinPort`).  The others (`Read`, `Instantiate`, `ChooseNames`,
`CollectPins`, `Package`, `DropUnconnected`) are one action each.  `failed` says
that an error was reported, `crashed` is any exception nobody catches.
`merge_into` is `Merged` with `Moved`.

### Wiring and Moving

`Wiring` has the data structures and the functions of libgeda as operators on a
*drawing*, a record of the page's objects in order, their lists of connections
and the selection.  The order of all lists is kept, since it decides what
`o_net_consolidate` merges first, and in which direction.  A component has one
pin, and its origin is where the pin is.

`Moving` is gschem: one action per command.  A move is two actions, `MoveStart`
and `MoveEnd`, with whatever the user does between them; in between the page is
unchanged but for the nets of length zero that rubber-banding inserts where two
pins touch.  `Cleaned` is `o_redraw_cleanstates`, which most commands call first.
`savestate` is what a savestate does to the page: consolidation.
The constant `DuringMove` lists those commands in the middle of a move that are
known to break things and that the passing run partly leaves out: "turn" is
explored, "lock" and "toggle" (of rubber-banding) are not; see section 6.
The ghost `turned` is the set of objects whose connections are stale because they
were turned during a move.

### Hierarchy

One variable, `top`, holds what the functions pass around: the pages by pid, the
current page, the page in the view, the counters.  The functions are operators from
one such record to the next, composed as in the code; an action is one command
with all it calls.  That matters here, since most of the surprises come from what
one function leaves behind for the next (the current page, a first undo entry).
Contents are lists of components with their symbol and sources; the sources are
lists of lists, since the code treats the commas in one attribute and several
attributes differently from place to place.
`came_from`, `relinked` and `named` are ghosts.

The search up is the smallest set that has a page and, with every page, the one its link
leads to (`Chain`).  The traversal, which calls itself from within a loop, is a sequence
of rounds (`Dive`) over a stack of what all loops that are open have still to look at;
the search for text is one of rounds over its input list (`Visit`).  So neither needs a
`RECURSIVE` operator, and both can be reasoned about even where they would not end.

Left out by guards: closing a page that is its own parent (`Closable`; the program
goes on with a page it has freed) and traversals or going down above a circle of
links (`Endless`; the window hangs).  Both states are reached only after undo,
redo, or reverting a file that is in two pages, as `NoCircleUnlessRelinked` says.

### Faulty variants

Some operators come with a variant that is not used, like `TrimAll` before
`Trim`: a plausible bug, which at least one property tells from the real thing.
`PROJECT.json` ("mutants") says which.


## 3. The runs

| Run | Instance | Shows |
|---|---|---|
| `undo_pages` | 2 pages, 2 contents, 4 saves, undo-levels 1, trimming every 2nd save, viewport nodes, no failing write | types, pointers, files, refinement of History |
| `undo_one` | 1 page, both undo types, with and without viewport nodes, 5 saves, one failing write | undo and redo show the right snapshot; trimming keeps undo-levels snapshots; the limit is kept when alone |
| `undo_redo` | 1 page | violated: redo during a move frees objects twice |
| `page_file` | 1 file, clock to 3, 3 undo entries, fairness | all properties of PageFile, and that a change is shown in the end |
| `page_file_undo` | 1 file | violated: `CHANGED` is FALSE after save and undo |
| `xorn_sharing` | 2 revisions, 2 objects each, 3 states, 2 data values | counts exact, revisions independent, failing calls leave no trace |
| `xorn_tree` | 1 revision, 4 objects | the three maps agree; relocation is exact |
| `netlist` | 4 families of designs | the nets are exactly the chains of connections, in every order that happens |
| `netlist_same_pin` | parts set pin to pin | violated: equal pins of two parts of one symbol are not connected |
| `moving` | 3 pages on a 3 by 2 grid, 4 objects, 2 changes, selections of 2 | lists and connections are sound; consolidation and rubber-banding keep what is joined |
| `moving_turned` | a net with a corner, 5 objects | violated: a net vanishes after an abandoned move in which it was turned |
| `hierarchy` | a circular design with two ways to one page and a page not drawn yet, 4 pages, 1 change | the view shows the current page; one page for a file; links lead back and have no circle; a traversal lists what is below, each page once |

The violated properties quote what a comment or document of the repository says;
the four findings in `PROJECT.json` tell how the code gets there.

**Why the bounds are enough.**  *Undo.* The trimming interval, the padding and
undo-levels are scaled down (2, 1, 1 or 2 for 10, 5 and 10) so that trimming
happens in a few saves, more than once and with viewport nodes at the bottom,
in the middle and on top.  Two pages are what it takes for the shared counter;
two contents to tell snapshots apart.

*PageFile.* Three ticks allow a foreign write before, between and after the steps
of a save; two ticks to a second make both equal and different seconds happen.
One file is enough, because what two files have to do with each other (a due
autosave of a page that is not current, the bar as the page changes) is proved for any
number of them in `PageFile_proofs`, which needs no bounds.

*XornStorage.* Three states let two revisions share one while each has another;
four ids let a component with its text be copied, and lists of three be
reordered.  The VIEW identifies instances that differ in which address a state
has (addresses are only compared) and in how the last call returned (nothing
depends on it); `Small` leaves out revisions with more than `MaxKept` objects
between them.  Types are represented by "component" (texts can be attached, no
color) and "text" (can be attached, has one).

*Netlist.* `Drawings` is every pair of lines (nets, buses, a diagonal) on a 3 by 3
grid around a part with two pins in all eight orientations and a second part:
ends on ends, ends on middles, crossings, overlaps and chains of three all occur.
`Abutted` sets parts against each other and a bus, with a `net=` attribute for a bus
pin or without.  `Hierarchies` is a page with
none or one further instance of the subsheet (or one with two sources), five
wirings of the page and five of the subsheet, old and new style ports, two ports of
one name, names that are local or global, and names the user gives that look like
generated ones.  Three levels add nothing to the resolution of ports that two
instances of a two-source component do not show: each composite is resolved on its
own.  `Mistakes` has one design for each way to reach an error and go on, or an
exception.

*Moving.* Six points hold lines of length one and two, corners and crossings of
line and end; four objects are two components, a net and one more, or a net of
length zero; two changes are enough for drawing a net and moving what it joins,
and for a move after an abandoned one.  `ConsolidationKeeps` and `RubberKeepsPins`
quantify over the next net or the next move in every state, which makes it one
change more.  In `moving_turned` the order of four changes is needed, on a page that
has most of the drawing already.

*Hierarchy.* `MaxPages` bounds the pages made in a run (one less once the design or a
page has been changed), `MaxVisits` the rounds of a traversal or a search,
`MaxControl` the numbers for pages opened together,
`MaxChanges` the undo entries beyond the first ones and the pages whose name the user
has chosen, together.  Four pages are the untitled one, two that refer to each other,
and one reverted or not drawn yet; with two numbers a page is linked anew after it was
linked.  Ten rounds are enough to end each traversal that ends (`ListsPagesBelow` says
so).  One change is an edit that is undone, a page created for a missing source, or a
Save As over the file of another page.

`CHECK_DEADLOCK FALSE` is set where the bounds really stop the system: undo
files are used up, or the behaviour ends with a double free or an exception, or
the number of changes is used up (`Moving`), or pages (`Hierarchy`).  A finished run of the netlister
stutters (`Finished`), so deadlock is checked there: no phase gets stuck.

**Fairness** (only in `FairSpec` of PageFile).  Weak fairness of the steps of
opening and saving: they are consecutive system calls of one function, which
returns.  Strong fairness of `FamEvent`: the GLib main loop dispatches every
ready source whenever it is back in control, and a FAM event is ready until it
is read; commands in between disable it only for as long as they run.  Nothing
is assumed of the user, of other programs, or of the timer.


## 4. The proofs

### Undo

`Undo_proofs.tla` proves, for any set of pages and contents and any values of
undo-levels, padding, trimming interval and bounds:

* `TypeCorrect`: `Spec => []TypeOK`.  Not a formality: that undo always restores
  an object list, and never the content of a file that was unlinked as if it
  were one, is part of it.
* `CurrentAlwaysInList`: `Spec => []CurrentInList`.
* `UndoFilesAlwaysKept`: `Spec => []UndoFilesKept`.

The assumptions are those named in `Undo.tla`: the empty page is a content,
"Missing" is not, the numbers are positive or natural.  No set is assumed
finite.

The inductive invariant is `UndoInv`, the conjunction of the three.  None of
them is inductive alone: a savestate cuts the list at `undo_current`, so the
result is a list only because the pointer is in range; it unlinks the files of
the removed nodes, which leaves those of the others alone only because no two
nodes name the same file; and the new file's name is new only because all names
in use are below `undo_file_index`.  The heart is `SavestateStep`, about one
savestate on any page with any prefix of its list; it rests on lemmas about
pushing (`PushedNodes`), trimming (`TrimmedNodes`, `TrimLeavesOne`: the list is
never emptied, which needs that there are no more snapshots than nodes,
`LevelsInRange`) and the files of a part of a list (`FilesOfPart`).
The actions that save (`SavestateInv`, `ModifyInv`, `NewRootInv`), those that
move `undo_current` (`CallbackInv`) and those that leave the lists alone
(`ListsAlone`) follow from it; `NextInv` has one step per action.

The second part of `Undo_proofs.tla` goes on to what the list is for, in both undo types, with any
writes that fail:

* `SnapshotAlwaysShown`: `Spec => []SnapshotShown`.  This is not inductive: it says
  nothing of a list with a snapshot of an empty page in memory mode (a node with no
  data, which undo takes for a viewport node), but undo and a further savestate remove
  such a node.  `ShownInv` says of each snapshot what it is worth: the page shows it if
  only viewport nodes lie between it and `undo_current` (`Agrees`), and these have no
  data (`ViewportBare`).  A savestate keeps that because the files of old nodes are not
  touched (`OldNodes`), an undo because the node it picks is the one that `Agrees`
  speaks of afterwards (`CallbackAgrees`).
* `TrimAlwaysKeepsLevels`: `Spec => TrimKeepsLevels`.  `LevelsWithout` counts the
  snapshots of a list without its oldest node, `TrimmedLevels` of one trimmed by any
  number.
* `LevelsAlwaysBoundedAlone`: `Spec => []LevelsBoundedAlone`.  The invariant `Growth`
  relates the number of nodes to `undo_file_index` modulo the distance of two checks:
  between two multiples every push adds a node and a file.

The last part of `Undo_proofs.tla` proves the refinement:

* `UndoImplementsHistory`: with snapshots in files and no failing write,
  `Spec => ImplementsHistory`, for any pages, contents, undo-levels, padding, trimming
  distance and with or without viewport nodes.
* `FaithfulUndoImplementsHistory`: the same for every behaviour, in whatever setting,
  in which no write has failed and snapshots are files.  Both hypotheses are needed: an
  unwritten file restores an empty page, and in the memory mode the snapshot of an empty
  page is not one.

It has a lemma per action of `History`.  `InitStarts`, `RootStarts`, `CloseCloses` and
`SavedSaves` are short; `CallbackGoes` needs `CurrentShown`, as an undo to a viewport
node without a snapshot below leaves the page as it is; `RecordRecords` is the heart: the
entries after a trimming savestate are those before, shifted by the number of nodes taken
away (`SnapshotShifts`, `ContentShifts`), and those that lost their snapshot are an
initial part (`LostEntries`), so that `History` may forget them at once.

### PageFile

`PageFile_proofs.tla` proves every safety property of PageFile that holds, for any
set of files and contents, any length of the undo history, any time, and any number
of clock ticks to a second: `TypeCorrect`, `ForeignChangesAlwaysNoticed`,
`LoadedAlwaysKept`, `UnchangedMeansSavedUntilSaved`, `BackupAlwaysUpToDate`,
`AutosaveAlwaysOffered`, `BarAlwaysTruthful`.

The inductive invariant `IndInv` says of the state as a whole: its shape (types, and
which page is open and current at which place of an open or save, `Where`); that no
modification time a page or the bar knows lies in the future (`KnownPast`); that a
bar with no event on its way knows the time of its file (`BarOK`).  And of each file
(`FileOK`):

* `StoredOf`: files that exist have a content and a time that is past;
* `SeenOf`: a change by another program that is not known has a later time than
  the one the page knows, which is what makes `file_changed_since` see it; the
  exception is one that came between the write and the stat of a save
  (`unseen[f] = "stat"`), whose time the page takes over.  Within a save no other
  unknown change is left at the stat, and none that was there when the save asked;
* `LoadedOf`: what was loaded is in the file, in the backup, or, after the rename,
  only in the backup;
* `UndoOf`: until the first save, entries of the undo list that count as unchanged
  hold what was read;
* `BackupOf` and `OrphanOf`: the autosave is what the page shows, or is due; an
  orphan one is older than the file or was asked about.

A step is about one file.  That it keeps the invariant of the others is proved once
(`FrameKeeps`: with nothing of a file changed and the clock not turned back, its
`FileOK` stays) and used for all.  There is one lemma per action, and `NextInv` puts
them together.  Comparison in whole seconds needs `SecondMonotone`, the one place
where arithmetic beyond order comes in.

### XornStorage

`XornStorage_proofs.tla` proves, for any finite sets of revisions and of memory for
object states, any number of object ids, any types among those of the model, any data,
and any sequence of calls:

* `TypeCorrect`: `Spec => []TypeOK`.
* `RefcountAlwaysExact`: `Spec => []RefcountExact`.
* `TreeAlwaysConsistent`: `Spec => []TreeConsistent`.
* `RevisionsAlwaysIndependent`: `Spec => RevisionsIndependent`.
* `FailedCallsChangeNothing`: `Spec => FailedCallChangesNothing`.
* `RelocateAlwaysPlaces`: `Spec => []RelocatePlaces`.

The sets are assumed finite because the reference counts are numbers; the other
assumption is that the invalid value is not one of the data.

The inductive invariant `Inv` says the first three of all revisions at once, and that no
revision has an object whose id has not been handed out (`GoodRevision`).  No part is
inductive alone.  Copying a tree gives the copies the states of the originals, which is
only right if what is attached exists (the tree) and has an allocated state (the
counts).  Deleting an object deletes its attached objects one level deep, which empties
the entries that point to it only because nothing is attached to a text (the kinds, read
from the heap).  And copies get new entries, rather than entries some revision has
already, only because ids grow.

Counting is done once.  `ExactStep`: if the table of one revision loses the entries `out`
and gains the entries `in`, and the heap first gets the references of `in` (new states,
or old ones counted up) and then drops those of `out`, then the counts are exact again,
and no state that is still there has changed.  All operations are instances: `in` is empty
for deleting and freeing, `out` is empty for copying and adding, and both have the same
objects for changing data and setting an attribute.  An operation that fails after it
took references drops the same ones (`TakenBack`).

The tree is done for one revision at a time: `AttachedLinked`, `RelocatedLinked`,
`RemovedLinked` and `CopiedLinked` say what the operations leave of it, and
`AppendFailuresRead` and `UndoneReads` that what is left after a failure reads as before
(`ReadsAs`: only entries with empty lists may be new).  `StepRight` is what every call
does: it keeps `Inv`, changes no state in place, changes no other revision and no
finalized one, and reads as before if it fails.  There is a lemma per call, and the two
action properties follow from `StepRight`, since the contents of a revision are what its
maps and the states they point to say (`ContentsKept`).

`RelocatedMoves` says at which place an object is taken from its list and at which it is
put in, `RelocatedPlaced` what that means for the lists: the object is in front of its
successor, or last, and only there, and the lists without it are what they were.  The
erasing must hit the old entry and not the new one, which is beside it or has moved it;
in one list, `MovedPlaced` has it for each of the two orders.

`Lists_proofs.tla` has what inserting, erasing, filtering and concatenating do to
lists without doubles.  `Filtered` and `Visited` are recursive functions, so that such
functions exist has to be shown (`KeptExists`, `VisitsExist`); what they return follows by
induction over a set of numbers (`UpTo`), which, unlike the library's theorem, has no
operator as a parameter.

### Netlist

The assumptions are that a design is what its parts say, lists of pages and objects
with their attributes (`DesignsAssumption`, `IsObject`), and that the depth is a number
(`DepthAssumption`).  Coordinates are integers and angles multiples of 90 degrees, as
the file reader has them (plainread.py:666).  Pages, objects and designs are otherwise
arbitrary.

`Netlist_proofs.tla` proves:

* `NetListsComplete`: as long as nets may still be merged, each local net that
  points to a Net is in the list of that Net, and the other way round.
* `JoinedForGoodAlways`: `Spec => JoinedForGood`: no step ever separates two local
  nets that share a Net.

`Net.merge_into` redirects only the local nets that the list of the vanishing Net
has.  Were one missing, it would go on pointing to a Net that is no longer in
`netlist.nets`, and its pins would be lost; so the completeness of the lists is the
invariant (`Agrees`, with lemmas on a new, an extended, a merged and an unchanged
Net), and that merging never separates follows from it.

Its second part follows the run from the drawings to the result:

* `TypeCorrect`: `Spec => []TypeOK`.
* `DictAlwaysExact`: `Spec => []DictExact`.
* `NamesAlwaysUnique`: `Spec => []NamesUnique`.
* `NamingNeverCrashes`: none of the assertions and lookups of `net.py` fails while
  local nets are merged by name, numbered and collected, in any design at all, with
  errors or without.
* `CrashesAlwaysReported`: `Spec => []CrashOnlyAfterError`.
* `ConnectionsAlwaysExact`: `Spec => []ConnectionsExact`.

It begins with what the operators of the model compute.  Grouping leaves no net
instance out (`GroupedCovers`, `NetsCover`), so every pin is in some local net
(`PageNetsCover`); the list of components has each component on the sheets once
(`CollectedListed`), though it is made by a recursion over the sheets, whose function has to be
shown to exist (`CollectingListed`, by induction over the depth at which a sheet can
be); pins and names come as lists without doubles (`PinsOfListed`, `WantedListed`); and
among `Cardinality(DOMAIN net_dict) + 1` numbers there is one whose name is free
(`FirstFreeUnused`).

`RunInv` has three parts.  `NetlistInv` is the invariant of the module before;
`ShapeInv` says what the lists hold; `NamesInv` ties `net_dict`, the names each Net lists
and `netlist.nets` together, in one way while names are merged (`NamesAgree`) and in
another while nets are numbered (`NumbersAgree`).  `DictExact` alone is not inductive:
`merge_into` finds every name it looks up only because the names of a Net are different
from those of all others, and removes the Net from `netlist.nets` only because it is
there once.  Afterwards names stay as they are and the list only loses elements
(`LaterRun`), hence `NamesUnique`.

`ResultInv` is about runs in which no error has been reported: `ResultParts` says, phase
by phase, where components, pins and nets are.  The netlister keeps the same facts three
times, in the components of a sheet (`on_sheet`), the pins that have a net (`on_net`)
and the `component_pins` of each Net, and removes from all three as it resolves ports;
every removal is an exception if the element is gone already.  That none is rests on
`VisitInv` and `BegunInv`: a port still on its sheet belongs to a composite component yet
to come, or to one whose label has not been met (`Handled`), since one composite
component is above each sheet and its labels are different; a pin still to come is still
on its net; and a port joined has exactly one pin (`PortsFit`), which needs what reading the
page reported (`NothingWrong`).  At the end, the pins of a Net are those of the components
that are left, whether they have been merged before or after (`PinsExact`), and a Net
with two package pins is not dropped (`DropResult`).

`CrashOnlyAfterError` names two kinds of drawings that end in an exception with no
report.  The second was found by this proof: TLC had no design with a bus pin on an I/O
symbol until the lemma about the pins of a port failed (section 6).

`NetlistJoined_proofs.tla` proves what a netlister is for:

* `JoinedAlwaysExactly`: `Spec => []JoinedExactly`.
* `AlwaysDrawnTogether`: `Spec => []DrawnTogether`.

`JoinedExactly` compares the nets of the result with the groups that `Grouped` makes of
the local nets and their links (`LinkedNets`).  `GroupedIsGrouping` says what `Grouped`
computes: the smallest groups that keep the two elements of each pair together.  A set of
local nets *respects* the links if it has both ends of each link or neither; the groups
respect them, and every set that respects them has all of a group or nothing.  So it is
enough to show two things of the local nets of one Net (`OnNet`):

* no connection is lost: `OnNet(n)` respects the links.  `JoinInv` says of each link that
  its two ends are in one Net already, or that the step that will join them is still to
  come: for a common name, it is in `todo` (`NamingInv`); for a pin and a port below it,
  the composite component is in `visit.composites`, or is the one begun and the pin is in
  `visit.pins`, or the port is in `visit.ports` and the Net of the pin is `visit.dest`
  (`Pending`).  When the phase ends, nothing is to come.
* no shorts: `OnNet(n)` is *inseparable* (`Inseparable`): a set that respects the links
  has all of it or nothing.  This is kept by every merge, as the two Nets merged are
  each inseparable and a link leads from one to the other (`LinkedInseparable`).  While
  names are looked at, the names that lead to a Net count as well (`NamedFor`): the next
  local net with such a name joins the Net through `net_dict`, not through a local net.

That every port for a pin is found (`PortsComplete`) depends on the order of the
components.  Old-style ports are looked up among the components that were still on the
sheets when the composite component was begun (`visit.candidates`), and components leave
their sheets as they are resolved.  Nothing is missing, because composite components come
in the order of the sheets, those above first (`OrderInv`, from `InOrder`, which is proved
of the recursion that lists the components).  A component that has the label but cannot
serve as a port is passed over, but then an error is reported.

For `DrawnTogether` two groupings of a page have to be the same: `drawn`, from the
connections the netlister finds by points that are equal and by looking for midpoints, and
`TouchingGroups`, from what covers what.  By `GroupingUnique`, groupings are equal if every
set that respects the pairs of one respects those of the other.  `CoveredConnects` and
`ConnectedCovers` give that, pair by pair, and come down to `MidpointOnLine`:
`s_conn_check_midpoint` finds the points of a line, by the signs of two products in the
definition, without its ends.  Connections are looked for between nets and buses alike
and pairs only between instances of one kind; the two agree since a page with a net and
a bus in one group ends in an exception while it is read (`Uniform`), and never gets as
far as `DrawnTogether`.  The exception the property makes is the one that
`MCNetlistSamePin` shows to be needed.

### Moving

`Moving_proofs.tla` proves, for any set of points that has with two points also those
that take one coordinate from each, any files and routes, any distances and centers, any
bounds, and any sequence of commands:

* `TypeAlwaysOK`: `Spec => []TypeOK`.
* `ListsAlwaysAlive`: `Spec => []ListsAlive`.
* `ConnectionsAlwaysKnown`: `Spec => []ConnectionsKnown`.
* `EscapeAlwaysKeepsPage`: `Spec => EscapeKeepsPage`.

Each assumes `"lock" \notin DuringMove`.  Turning what is placed and switching
rubber-banding in the middle of a move are covered.  Lock is not, since with it the
theorems are false: it empties the selection and merges nets while the place list and the
stretch list stay (section 6).  Points are pairs of integers (`PointsAssumption`);
they are closed as they are because merging two nets takes coordinates from both.

The inductive invariant is `Inv`.  Its first part, `PageOK`, is about the page.
`Sane(d, C, S)` says that in drawing `d` entries in the connection lists are
mutual (`Mutual`), that every contact is in them but for contacts with objects of `C`
(`Complete`), and that every entry is a contact but for entries of objects of `S`
(`Sound`).  The functions of `s_conn.c` and those that call them move objects through
these two sets: disconnecting an object takes it out of `S` and puts it into `C`
(`s_conn_remove_object_connections` visits only those that the object's own list names,
which is enough because entries are mutual); moving its ends then disturbs nothing;
updating it takes it out of `C`; and turning it in the middle of a move, without either,
puts it into both.  Between two commands both sets are `turned`.  `ConnectionsKnown` is
not inductive by itself: that a turned object does not spoil the lists of the others when
it is disconnected, merged or deleted needs `Mutual` of turned objects too.

The second part, `ListsOK`, says what the lists are, in each mode: in a move the place
list is the selection and the stretch list names nets that are on the page and not
selected, each once; otherwise both are empty.  That is why `Escape` never deletes
objects of the page, and why the nets that vanish between two pins at the end of a move
(`o_delete` within the loop over the stretch list) are neither met again nor selected.
The third, `ModesOK`, is the rest of the types.

Loops over lists are folds in the model.  Since TLAPS cannot do induction with a formula
as a parameter, a loop is seen as a sequence of values, each made from the one before and
one element (`IsWalk`); `WalkExists` shows that every fold is the end of one, for all the
loops at once, and the lemma about a loop is an induction over its numbers.
Consolidation merges as long as something can be merged; its lemma (`Consolidated`) says
only what every merge keeps.  There is a lemma per command (`EscapeStep`, `MoveEndStep`,
and so on), and `InvStep` puts them together.

### Hierarchy

`Hierarchy_proofs.tla` proves, for any files, designs and drawings, with the option
enforce-hierarchy or without, for any number of pages and any sequence of commands:

* `TypeAlwaysOK`: `Spec => []TypeOK`.
* `AlwaysOnePagePerFile`: `Spec => []OnePagePerFile`.
* `AlwaysComesBack`: `Spec => []ComesBackUnlessRelinked`.
* `NeverACircle`: `Spec => []NoCircleUnlessRelinked`.

Each assumes `Texts \subseteq {TRUE}`: no text ends the numbering halfway.  With such
texts a page that the window does not show stays the current one (section 6), and once
that one is closed there may be no current page at all.  Of the files, `Lowercase` and
`Unreadable` are arbitrary.  The guard `Endless` is not used, `Closable` only so that the
freed page is not made current.

The inductive invariant is `Inv`: the pages are `Good`, the window shows one (`Alive`),
and files of symbols have no components (`DiskOK`).  `Good` is the four properties with
what they need to be kept:

* Undo restores links, so each entry of an undo list must hold what the link of a page may
  be (`Nodes`, `IsPage`).  Pages for symbols, which have no components, never become
  parents (`Ups`), in undo entries neither; therefore going down into a symbol, which
  looks for no circle (x_hierarchy.c:187), closes none (`NoSubpages`).  Nobody goes down to
  a page without a name, whose link is free; therefore `Open` may close the untitled page
  that it replaces.
* `CirclesKept` is about links: if all links but that of one page are the old ones or are
  gone, and that page has been relinked, or its new parent is in a set that is closed
  upwards and does not have the page, then every circle has a relinked page still.  All
  pages of a circle have each other above them (`CircleTurns`), so one without the page was
  there before, and one with it has been relinked.
* What the search up finds is such a set (`ChainIs`): that is why looking for the page
  among the parents of its parent-to-be is enough, in s_hierarchy.c:88 and
  x_hierarchy.c:54.  Going down to a page created for a missing source does not look, but
  no link can lead to a page that is new (`NoSubpages`).
* A page that is reverted gets a new pid, and links to the old one lead nowhere, since pids
  are not used again; if another page has the file, that one takes over the links and
  counts as relinked (`Relinked`).

The functions that add, find, delete and link pages have a lemma each (`NewPageIs`,
`OpenPageIs`, `PageRemoved`, `LinkedIs`) that says what they keep for any page, and
`PageChanged` is the common part: all is well if one page is added, removed or changed and
that one `Fits`.  Loops, over the sources of a component, over a stack or an input list,
are sequences of values, as for Moving (`IsWalk`), and `Traversing`, `Searching`,
`Collecting` and `Sourcing` are their invariants.  That the loops end is not needed: what
is shown of them holds after any number of rounds.

### Only model-checked

Everything that the passing runs check of Undo, PageFile, XornStorage and Netlist is
proved, except liveness.  Of Moving, `ConsolidationKeeps` and `RubberKeepsPins` are only
model-checked: they compare the groups of objects that are joined before and after, which
takes geometry (what two nets in one line cover together) that the proofs above do not
need.  Of Hierarchy, `ListsPagesBelow` is: that a traversal ends, and that it has then
listed everything below, is an induction over the way it takes through the pages, and the
number of rounds it needs is a property of the instance (`MaxVisits`).
Liveness (`BarShown`) is out of TLAPS's reach altogether and stays with TLC.


## 5. What is not modelled

* *Undo:* the viewport coordinates, the page's filename and the hierarchy fields
  that a node also carries; unlinking all files at exit (`o_undo_cleanup`).
* *PageFile:* Save As (`Hierarchy` has it, without backups), "save all" and closing
  a window (loops over single pages), rc files, symbolic links, permissions and
  full disks beyond "this step fails".  A write is atomic: `o_save` replaces
  the file through `g_file_set_contents`.
* *Hierarchy:* what a name refers to when the libraries change, embedded symbols, back
  annotation patches, the numbers that autonumbering gives out, several windows, and
  the program after the two states left out by `Closable` and `Endless`.
* *Moving and Wiring:* buses and bus rippers, components with several pins or with
  attributes, grips, copy, paste and placing of components, magnetic nets.
* *XornStorage:* object data, exceptions other than `bad_alloc`, reference counts
  of the Python objects that components and pictures point to.
* *Netlist:* slot definitions, parameters and the mangling of names; the
  incremental update of the connection map, which the netlister does not use; the
  recursion limit of Python (`blueprint.py:34`); pages that are their own source,
  which all fail while loading (`netlist.py:142`).
* *Other components:* `PROJECT.json` lists each with the reason.  Most are one pass
  over data from start to end (file format, symbol check, spreadsheet, netlist
  backends, utilities) or widgets: they keep no state between steps that an
  interleaving could disturb, and what could be wrong in them is the text they
  read and write.


## 6. What was seen on the way

Besides the four findings, writing the models showed places where the code does
something a reader might not expect.  No run is kept for these; each is in the model
as the code has it, and where a property has an exception, this is the reason.

* With several pages the undo levels of one page can be exceeded without limit,
  because the counter that triggers trimming is shared (`LevelsBoundedAlone` is for
  one page); and trimming can leave viewport nodes with no snapshot below.
* In memory mode the snapshot of an empty page is a node without data (the
  copy of no objects is NULL, o_undo.c:129), so `s_undo_levels` does not count it
  and undo takes it for a viewport node.  Trimming removes such nodes in the place
  of snapshots, and the list grows beyond the limit.  `LevelsBoundedAlone` therefore
  speaks of files; the attempt to prove it for both types showed this.
* `f_save` looks at the file's time after `o_save` has written it (f_basic.c:447-458),
  not at the file it has written.  If another program writes the file in between, the
  page takes that version's time for its own: `file_changed_since` is false, the bar
  is hidden, and the next save overwrites that version unasked.  Create a page, save
  it, have the other program write before the stat: seven states, found by TLC if
  `ForeignChangesNoticed` is stated without its exception for `unseen[f] = "stat"`.  Nor
  does a save ask again once it has begun (x_highlevel.c:391): what another program
  writes between the question and `o_save` is overwritten.  No comment claims
  otherwise, so the property names both windows instead of a run refuting it.
* The result of `o_save` is ignored by a savestate (o_undo.c:126): a node whose file
  could not be written is pushed all the same, and undo to it shows an empty page.
  `SnapshotShown` and `UndoFilesKept` exempt such nodes.
* An autosave backup whose file is gone is never offered: `f_has_active_autosave`
  allows for it (f_basic.c:124-126), but `f_open_flags` looks for the file first
  (f_basic.c:208).  Reverting a page whose file was deleted loses the page and its
  autosave (x_window.c:1175), and so does an open that fails (x_lowlevel.c:189).
* `xorn_relocate_object` lets a `bad_alloc` escape through its C interface
  (manipulate.cc:370); `xorn_get_modified_objects` is documented to report "different
  type or data" (object.cc:299) but compares pointers (object.cc:330).
* Undo and redo can close a circle of parents: p opened from a page below it, undone
  to the entry without that link, the other way gone down, and redone.  The searches in
  s_hierarchy.c:88 and x_hierarchy.c:54 then never end.  Reverting one of two pages that
  have the same file (after Save As over the other one's file) deletes the one and returns the
  other, which gets the links of the first and may become its own parent; what is
  in it is not read from disk again, although x_lowlevel.c:306-307 says so.
* Undo to the first entry of a page loses the way up: `x_lowlevel_open_page` saves that
  entry (x_lowlevel.c:205) before `load_source` sets `up` (x_hierarchy.c:107), and undo
  restores the `up` of the entry (o_undo.c:439).  The user guide promises the way back
  (docs/wiki/geda-gschem_ug-hierarchy.html:36); hence `relinked` in
  `ComesBackUnlessRelinked`.
* Reverting a page gives it a new pid, which the pages below are not told: Up no longer
  finds it (x_lowlevel.c:378-380 copies the links of the reverted page only).
* The traversal for autonumbering makes pages current that the window does not show
  (s_hierarchy.c:98), and the early returns for texts that cannot be numbered
  (x_autonumber.c:674, 727) leave it at that, against the warning in x_window.c:1163.
  The run leaves such texts out (`Texts`); with them `TypeOK` fails.
* That traversal gives pages a new parent and leaves their `page_control`
  (s_hierarchy.c:99-102), so that Next leads to a page with another parent; looks up the
  whole value of the first source= attribute only (s_hierarchy.c:239-256), while going
  down splits all of them at the commas; and ignores that a file could not be read
  (s_hierarchy.c:109), which leaves an empty page with its name.
* Going down from two pages with one missing source makes two pages of one name, since
  only pages below the current one are looked at (x_hierarchy.c:77-88).
* Save As to a name that differs by case only writes the new file and keeps the old
  name (x_lowlevel.c:266).
* Closing a page that is its own parent makes the freed page current
  (x_lowlevel.c:405-458 looks the parent up before the page is deleted).
* Pages that a traversal or a search loads have no first undo entry, so their first
  change can't be undone.
* Nets of length zero inserted for rubber-banding stay if the move is given up, though
  a comment says undo removes them (o_move.c:588-590).
* A net between two moved components is put on the stretch list once, so only one of
  its ends follows (s_stretch.c:33-52), against what the user guide says
  (docs/wiki/geda-gschem_ug-moving_copying.html:40); `RubberKeepsPins` excludes it
  (`NetsBetween`).
* Lock in the middle of a move empties the selection (actions.c:1496).  The end of the
  move then keeps both lists (o_move.c:162-168), Escape frees objects that are on the
  page (i_basic.c:641-643), and later moves are refused (o_move.c:43).  With "lock" in
  `DuringMove`, `ListsAlive` and `EscapeKeepsPage` fail.
* A net that ends in the middle of a bus fails the assertion at blueprint.py:425.  An
  I/O symbol with one pin that is a bus pin passes the test for its number of pins
  (pp_hierarchy.py:42 counts `component.pins`), but has no component pin, so that joining
  it raises an IndexError (pp_hierarchy.py:133 takes `port.cpins[0]`).  Neither is
  reported as an error of the drawing; they are the exceptions in `CrashOnlyAfterError`.
* Whether the end of a net is the middle of another is asked of the net that is to be
  extended only.  For nets that lie on each other this can lose a connection;
  `ConsolidationKeeps` excludes them (`Overlapping`).
* system-gschemrc.scm:139-142 says that nets are not consolidated on copying and
  moving; every savestate consolidates.


## 7. What is left to do

1. *XornStorage:* an abstract store in which every revision is a value and copying is
   assignment, which sharing implements.
2. *Moving:* proofs of `ConsolidationKeeps` and `RubberKeepsPins`; copying and pasting (the same place list with its other meaning), grips,
   and components with several pins; composed with `Undo`, whose `action` now stands
   for all of it.
3. *PageFile:* closing a window with several changed pages; composed with `Hierarchy`,
   so that backups follow a page whose name changes.
4. *Wiring:* buses and rippers.
5. *Netlist:* which pins the local nets of a page list, from `DrawnTogether`, so that
   `JoinedExactly` can speak of the drawing directly.
6. *Hierarchy:* a proof of `ListsPagesBelow`, with a bound on the rounds of a traversal
   from the number of files and components.
