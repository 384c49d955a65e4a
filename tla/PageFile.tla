------------------------------ MODULE PageFile ------------------------------
(***************************************************************************)
(* A schematic file and the page that shows it: opening, saving, reverting  *)
(* and closing (gschem/src/x_highlevel.c, x_lowlevel.c on top of            *)
(* libgeda/src/f_basic.c, s_page.c), the backup f~ made by the first save,  *)
(* the autosave backups (s_page.c, o_misc.c), and the bar that tells that   *)
(* the file has changed on disk (gschem_change_notification.c, x_fam.c).    *)
(*                                                                         *)
(* Other programs write and delete the file at any time, so opening and     *)
(* saving are split where they make separate system calls, and the editor   *)
(* may crash before each of them.                                          *)
(*                                                                         *)
(* A modification time is a Nat; 0 stands for a missing file and for the    *)
(* flags exists_on_disk, has_known_mtime, has_current_mtime being FALSE.    *)
(*                                                                         *)
(* The operators AutosaveOlder, BarOfPath, NotNoticed, BackedUpAlways,      *)
(* Untouched, RootForgotten, NeedsBackupAlways and DismissedNow are faulty  *)
(* variants of the operators after them, which some property below tells    *)
(* apart; nothing uses them.                                               *)
(***************************************************************************)
EXTENDS Integers, Sequences

CONSTANTS
  Files,       \* the schematic files
  Untitled,    \* a page whose file is not in Files, say an untitled one
  Contents,    \* what a file can contain
  NONE,        \* the content of a missing file
  TicksPerSec, \* modification times that share a second
  MaxClock,    \* bound: the clock, hence the writes to files
  MaxHistory   \* bound: the entries in the undo list of a page

ASSUME NamesAssumption == Untitled \notin Files /\ NONE \notin Contents
ASSUME ClockAssumption == TicksPerSec \in Nat \ {0} /\ MaxClock \in Nat
ASSUME HistoryAssumption == MaxHistory \in Nat \ {0}

VARIABLES
  now,          \* the clock; every write takes a later time
  disk,         \* [Files -> Stored], the files
  backup,       \* [Files -> Contents \cup {NONE}], the files f~
  autosave,     \* [Files -> Stored], the files #f#
  page,         \* [Files -> Page \cup {Closed}]
  page_current, \* the page shown in the window
  bar,          \* the file change notification bar
  revertable,   \* the menu item "revert" is sensitive
  event,        \* a FAM event for bar.path has not been delivered yet
  pc,           \* where the editor is in opening or saving a file
  synced,       \* what the page loaded from, or saved to, its file last
  rewound,      \* undo or redo was used since the last edit or save
  unseen,       \* where another program's write of the file has found the
                \* editor, if the user has not been told of that version
  loaded,       \* what the file held when the page was opened
  orphan        \* a crash left the autosave backup, and nobody has asked yet

ghosts == <<synced, rewound, unseen, loaded, orphan>>
files == <<now, disk, backup, autosave>>
window == <<page_current, revertable, bar, event>>
vars == <<files, page, window, pc, ghosts>>

Stored == [content : Contents \cup {NONE}, mtime : Nat]
Missing == [content |-> NONE, mtime |-> 0]
Exists(s) == s.mtime # 0

Entry == [content : Contents, CHANGED : BOOLEAN]
Page == [content            : Contents,
         CHANGED            : BOOLEAN,
         last_modified      : Nat,
         saved_since_first_loaded : BOOLEAN,
         ops                : BOOLEAN,   \* ops_since_last_backup # 0
         do_autosave_backup : BOOLEAN,
         undo               : Seq(Entry),
         at                 : Nat]       \* undo_current
Closed == [at |-> 0]

(* The steps of opening and saving a file, named after the system call that
   comes next; known is the time s_page_new found, closing says that the page
   is closed once it is saved.                                              *)
Idle == [step |-> "idle"]
Steps == {Idle}
           \cup [step : {"read"}, file : Files, known : Nat]
           \cup [step : {"rename", "write", "stat"}, file : Files, closing : BOOLEAN]

Saving(f) == pc.step \in {"rename", "write", "stat"} /\ pc.file = f

(* Nothing for the user to be told of; or, of the version another program has
   written, if it came outside of a save ("idle") or before which step of one. *)
Arrivals == {"seen", "idle", "rename", "write", "stat"}

Unseen(f) == unseen[f] # "seen"

TypeOK ==
  /\ now \in Nat
  /\ disk \in [Files -> Stored]
  /\ backup \in [Files -> Contents \cup {NONE}]
  /\ autosave \in [Files -> Stored]
  /\ \A f \in Files : \/ page[f] \in Page /\ page[f].at \in DOMAIN page[f].undo
                      \/ page[f] = Closed
  /\ page_current \in Files \cup {Untitled}
  /\ bar \in [path : Files \cup {Untitled}, known : Nat, current : Nat, revert : BOOLEAN]
  /\ <<revertable, event>> \in BOOLEAN \X BOOLEAN
  /\ pc \in Steps
  /\ synced \in [Files -> Contents \cup {NONE}]
  /\ loaded \in [Files -> Contents \cup {NONE}]
  /\ unseen \in [Files -> Arrivals]
  /\ <<rewound, orphan>> \in [Files -> BOOLEAN] \X [Files -> BOOLEAN]

Open == {f \in Files : page[f] # Closed}

-----------------------------------------------------------------------------
(* Queries *)

(* A file that was missing when the page was made (last_modified 0) has
   changed once it exists; a missing one has not.                           *)
file_changed_since(f) == disk[f].mtime > page[f].last_modified

Second(t) == t \div TicksPerSec

AutosaveOlder(f) ==
  /\ Exists(autosave[f])
  /\ Exists(disk[f]) => Second(disk[f].mtime) > Second(autosave[f].mtime)

f_has_active_autosave(f) ==
  /\ Exists(autosave[f])
  /\ Exists(disk[f]) => Second(disk[f].mtime) < Second(autosave[f].mtime)

Visible(b) == b.current > b.known

-----------------------------------------------------------------------------
(* The bar *)

NoBar == [path |-> Untitled, known |-> 0, current |-> 0, revert |-> FALSE]

BarOfPath(f, p) ==
  [path    |-> f,
   known   |-> IF bar.path = f THEN bar.known ELSE p.last_modified,
   current |-> IF bar.path = f THEN bar.current ELSE disk[f].mtime,
   revert  |-> p.CHANGED]

(* x_window_update_file_change_notification for page p of file f: the file is
   only looked at when the path changes (set_property).                     *)
BarFor(f, p) ==
  [path    |-> f,
   known   |-> p.last_modified,
   current |-> IF bar.path = f THEN bar.current ELSE disk[f].mtime,
   revert  |-> p.CHANGED]

ShowBar(f, p) ==
  /\ bar' = BarFor(f, p)
  /\ event' = (event /\ bar.path = f)

(* x_window_set_current_page *)
SetCurrent(q) ==
  /\ page_current' = q
  /\ revertable' = (q # Untitled /\ Exists(disk[q]))
  /\ IF q = Untitled THEN bar' = NoBar /\ event' = FALSE
                  ELSE ShowBar(q, page'[q])

(* What happens to f raises an event if f is monitored. *)
Touched(f) == event' = (event \/ bar.path = f)

NotNoticed(b) == b

(* update_current_mtime, update_visibility *)
Noticed(b) == [b EXCEPT !.current = IF b.path = Untitled THEN 0 ELSE disk[b.path].mtime]

FamEvent ==
  /\ pc = Idle
  /\ event
  /\ event' = FALSE
  /\ bar' = Noticed(bar)
  /\ UNCHANGED <<files, page, page_current, revertable, pc, ghosts>>

-----------------------------------------------------------------------------
(* Autosave backups *)

(* s_page_autosave, called by a timer *)
Timer ==
  /\ pc = Idle
  /\ page' = [f \in Files |-> IF f \in Open /\ page[f].ops
                              THEN [page[f] EXCEPT !.do_autosave_backup = TRUE]
                              ELSE page[f]]
  /\ UNCHANGED <<files, window, pc, ghosts>>

BackedUpAlways(p, ok) ==
  [p EXCEPT !.ops = FALSE, !.do_autosave_backup = FALSE]

(* The flags of a page whose backup o_autosave_backups has tried to write. *)
BackedUp(p, ok) ==
  IF ok THEN [p EXCEPT !.ops = FALSE, !.do_autosave_backup = FALSE] ELSE p

Due(pages) == {f \in Open : pages[f].do_autosave_backup /\ pages[f].ops}

AskedFor(f) == f_has_active_autosave(f)

JustAsked(f) == pc.step = "read" /\ pc.file = f /\ AskedFor(f)

(* o_autosave_backups, at the head of o_undo_savestate, when the pages are
   pages: it writes the backups that are due, but for some that it can't.   *)
AutosaveBackups(pages, written) ==
  /\ now' = IF written = {} THEN now ELSE now + 1
  /\ now' <= MaxClock
  /\ autosave' = [f \in Files |-> IF f \in written
                                  THEN [content |-> pages[f].content, mtime |-> now']
                                  ELSE autosave[f]]
  /\ orphan' = [f \in Files |-> orphan[f] /\ f \notin written /\ ~JustAsked(f)]

AfterBackups(pages, written) ==
  [f \in Files |-> IF f \in Due(pages) THEN BackedUp(pages[f], f \in written)
                                       ELSE pages[f]]

WriteBackups(pages) ==
  \E written \in SUBSET Due(pages) :
    /\ AutosaveBackups(pages, written)
    /\ page' = AfterBackups(pages, written)

-----------------------------------------------------------------------------
(* Editing *)

Untouched(p, c) == [content |-> c, CHANGED |-> p.CHANGED]

Recorded(p, c) == [content |-> c, CHANGED |-> TRUE]

(* A command that modifies the current page: the page is marked as changed and
   the state is saved (handle_undo).                                        *)
Edit(f) ==
  LET p == page[f]
  IN /\ pc = Idle
     /\ page_current = f
     /\ p.at < MaxHistory
     /\ \E c \in Contents \ {p.content} :
          LET q == [p EXCEPT !.content = c, !.CHANGED = TRUE,
                             !.undo = Append(SubSeq(p.undo, 1, p.at), Recorded(p, c)),
                             !.at = p.at + 1]
              pages == [page EXCEPT ![f] = q]
          IN \E written \in SUBSET Due(pages) :
               /\ AutosaveBackups(pages, written)
               /\ page' = [AfterBackups(pages, written) EXCEPT ![f].ops = TRUE]
     /\ ShowBar(f, page'[f])
     /\ rewound' = [rewound EXCEPT ![f] = FALSE]
     /\ UNCHANGED <<disk, backup, page_current, revertable, pc, synced, unseen, loaded>>

(* o_undo_savestate on another page, or for a change of the viewport *)
SaveStateElsewhere ==
  /\ pc = Idle
  /\ WriteBackups(page)
  /\ UNCHANGED <<disk, backup, window, pc, synced, rewound, unseen, loaded>>

(* o_undo_callback; module Undo has the details *)
UndoRedo(f) ==
  LET p == page[f]
  IN /\ pc = Idle
     /\ page_current = f
     /\ \E i \in {p.at - 1, p.at + 1} \cap DOMAIN p.undo :
          page' = [page EXCEPT ![f] =
                     [p EXCEPT !.content = p.undo[i].content,
                               !.CHANGED = p.undo[i].CHANGED,
                               !.at = i]]
     /\ ShowBar(f, page'[f])
     /\ rewound' = [rewound EXCEPT ![f] = TRUE]
     /\ UNCHANGED <<files, page_current, revertable, pc, synced, unseen, loaded, orphan>>

SwitchPage(q) ==
  /\ pc = Idle
  /\ q \in (Open \cup {Untitled}) \ {page_current}
  /\ page' = page
  /\ SetCurrent(q)
  /\ UNCHANGED <<files, pc, ghosts>>

-----------------------------------------------------------------------------
(* Opening *)

RootForgotten(c, chg, known) ==
  [content |-> c, CHANGED |-> chg, last_modified |-> known,
   saved_since_first_loaded |-> FALSE, ops |-> TRUE, do_autosave_backup |-> FALSE,
   undo |-> <<[content |-> c, CHANGED |-> chg]>>, at |-> 0]

(* s_page_new, f_open (CHANGED is set if the autosave backup was loaded) and
   the savestate that makes the root of the undo list.                      *)
NewPage(c, chg, known) ==
  [content |-> c, CHANGED |-> chg, last_modified |-> known,
   saved_since_first_loaded |-> FALSE, ops |-> TRUE, do_autosave_backup |-> FALSE,
   undo |-> <<[content |-> c, CHANGED |-> chg]>>, at |-> 1]

(* x_lowlevel_open_page: s_page_new looks at the file ... *)
OpenFile(f) ==
  /\ pc = Idle
  /\ f \notin Open
  /\ Exists(disk[f])
  /\ pc' = [step |-> "read", file |-> f, known |-> disk[f].mtime]
  /\ UNCHANGED <<files, page, window, ghosts>>

(* ... and f_open_flags reads it.  If the backup is newer, the user is asked
   which one to load.                                                       *)
ReadFile(f) ==
  /\ pc.step = "read"
  /\ pc.file = f
  /\ Exists(disk[f])
  /\ \E take_backup \in IF AskedFor(f) THEN BOOLEAN ELSE {FALSE} :
       WriteBackups([page EXCEPT ![f] =
                   NewPage(IF take_backup THEN autosave[f].content ELSE disk[f].content,
                           take_backup, pc.known)])
  /\ SetCurrent(f)
  /\ pc' = Idle
  /\ synced' = [synced EXCEPT ![f] = disk[f].content]
  /\ loaded' = [loaded EXCEPT ![f] = disk[f].content]
  /\ rewound' = [rewound EXCEPT ![f] = FALSE]
  /\ unseen' = [unseen EXCEPT ![f] = "seen"]
  /\ UNCHANGED <<disk, backup>>

(* The file has gone or can't be read: s_page_delete, with the autosave. *)
ReadFails(f) ==
  /\ pc.step = "read"
  /\ pc.file = f
  /\ autosave' = [autosave EXCEPT ![f] = Missing]
  /\ orphan' = [orphan EXCEPT ![f] = FALSE]
  /\ page' = page
  /\ pc' = Idle
  /\ IF page_current \in Open \cup {Untitled} THEN UNCHANGED window
     ELSE \E q \in Open \cup {Untitled} : SetCurrent(q)
  /\ UNCHANGED <<now, disk, backup, synced, rewound, unseen, loaded>>

(* x_lowlevel_new_page for a file that doesn't exist yet, confirmed by the
   user (open_or_create_page)                                               *)
CreatePage(f) ==
  /\ pc = Idle
  /\ f \notin Open
  /\ ~Exists(disk[f])
  /\ \E c \in Contents :
       /\ WriteBackups([page EXCEPT ![f] = NewPage(c, FALSE, 0)])
       /\ synced' = [synced EXCEPT ![f] = c]
  /\ SetCurrent(f)
  /\ rewound' = [rewound EXCEPT ![f] = FALSE]
  /\ unseen' = [unseen EXCEPT ![f] = "seen"]
  /\ UNCHANGED <<disk, backup, pc, loaded>>

-----------------------------------------------------------------------------
(* Saving *)

StepTo(step) == pc' = [pc EXCEPT !.step = step]

(* x_highlevel_save_page: if the file has changed, the user has been told and
   saves anyway.                                                            *)
SaveFile(f, closing) ==
  /\ pc = Idle
  /\ f \in Open
  /\ closing => page[f].CHANGED
  /\ pc' = [step |-> "rename", file |-> f, closing |-> closing]
  /\ unseen' = [unseen EXCEPT ![f] = IF file_changed_since(f) THEN "seen" ELSE @]
  /\ UNCHANGED <<files, page, window, synced, rewound, loaded, orphan>>

NeedsBackupAlways(f) == Exists(disk[f])

NeedsBackup(f) == ~page[f].saved_since_first_loaded /\ Exists(disk[f])

(* f_save: the first save renames the file to f~ ... *)
RenameFile(f) ==
  /\ pc.step = "rename"
  /\ pc.file = f
  /\ StepTo("write")
  /\ \/ /\ NeedsBackup(f)
        /\ backup' = [backup EXCEPT ![f] = disk[f].content]
        /\ disk' = [disk EXCEPT ![f] = Missing]
        /\ Touched(f)
        /\ UNCHANGED loaded
     \/ /\ NeedsBackup(f)   \* "Can't save backup file": the save goes on
        /\ loaded' = [loaded EXCEPT ![f] = NONE]
        /\ UNCHANGED <<backup, disk, event>>
     \/ /\ ~NeedsBackup(f)
        /\ UNCHANGED <<backup, disk, event, loaded>>
  /\ UNCHANGED <<now, autosave, page, page_current, revertable, bar, synced, rewound, unseen, orphan>>

(* ... o_save replaces the file ... *)
WriteFile(f) ==
  /\ pc.step = "write"
  /\ pc.file = f
  /\ now < MaxClock
  /\ now' = now + 1
  /\ disk' = [disk EXCEPT ![f] = [content |-> page[f].content, mtime |-> now']]
  /\ Touched(f)
  /\ unseen' = [unseen EXCEPT ![f] = "seen"]
  /\ StepTo("stat")
  /\ UNCHANGED <<backup, autosave, page, page_current, revertable, bar, synced, rewound, loaded, orphan>>

SaveFails ==
  /\ pc.step \in {"rename", "write"}
  /\ pc' = Idle
  /\ UNCHANGED <<files, page, window, ghosts>>

(* The page after f_save and x_lowlevel_save_page, which found the time t. *)
Saved(p, t) ==
  [p EXCEPT !.last_modified = t, !.saved_since_first_loaded = TRUE,
            !.CHANGED = FALSE, !.ops = FALSE, !.do_autosave_backup = FALSE]

(* s_page_delete unlinks the autosave backup; another page becomes current. *)
DeletePage(f) ==
  /\ autosave' = [autosave EXCEPT ![f] = Missing]
  /\ orphan' = [orphan EXCEPT ![f] = FALSE]
  /\ page' = [page EXCEPT ![f] = Closed]
  /\ IF page_current # f THEN UNCHANGED window
     ELSE \E q \in (Open \ {f}) \cup {Untitled} : SetCurrent(q)

(* ... and looks at what it has written; x_lowlevel_save_page updates the
   page, and x_dialog_close_changed_page closes it.                         *)
StatFile(f) ==
  /\ pc.step = "stat"
  /\ pc.file = f
  /\ pc' = Idle
  /\ synced' = [synced EXCEPT ![f] = page[f].content]
  /\ rewound' = [rewound EXCEPT ![f] = FALSE]
  /\ IF pc.closing
     THEN DeletePage(f)
     ELSE /\ page' = [page EXCEPT ![f] = Saved(page[f], disk[f].mtime)]
          /\ IF page_current = f THEN ShowBar(f, page'[f]) /\ revertable' = TRUE
                                  ELSE UNCHANGED <<bar, event, revertable>>
          /\ UNCHANGED <<autosave, orphan, page_current>>
  /\ UNCHANGED <<now, disk, backup, unseen, loaded>>

-----------------------------------------------------------------------------
(* Closing and reverting *)

(* A changed page is closed if the user discards the changes (here) or has
   them saved first (SaveFile).                                             *)
ClosePage(f) ==
  /\ pc = Idle
  /\ f \in Open
  /\ DeletePage(f)
  /\ UNCHANGED <<now, disk, backup, pc, synced, rewound, unseen, loaded>>

(* x_lowlevel_revert_page deletes the page, its autosave and its undo list
   and opens the file, whether it exists or not.  The user asks for it by the
   menu, in the bar or by opening a file that has changed.                  *)
RevertPage(f) ==
  /\ pc = Idle
  /\ f \in Open
  /\ \/ page_current = f /\ (revertable \/ Visible(bar))
     \/ file_changed_since(f)
  /\ autosave' = [autosave EXCEPT ![f] = Missing]
  /\ orphan' = [orphan EXCEPT ![f] = FALSE]
  /\ page' = [page EXCEPT ![f] = Closed]
  /\ pc' = [step |-> "read", file |-> f, known |-> disk[f].mtime]
  /\ UNCHANGED <<now, disk, backup, window, synced, rewound, unseen, loaded>>

DismissedNow(f) == disk[f].mtime

Dismissed(f) == bar.current

(* x_window_file_change_response: the version that the bar has told of, which
   need not be the one on disk, is known now.                               *)
DismissBar(f) ==
  /\ pc = Idle
  /\ page_current = f
  /\ Visible(bar)
  /\ page' = [page EXCEPT ![f].last_modified = Dismissed(f)]
  /\ ShowBar(f, page'[f])
  /\ unseen' = [unseen EXCEPT ![f] = IF disk[f].mtime = bar.current THEN "seen" ELSE @]
  /\ UNCHANGED <<files, page_current, revertable, pc, synced, rewound, loaded, orphan>>

-----------------------------------------------------------------------------
(* The environment *)

(* Another program writes or deletes the file. *)
WriteOutside(f) ==
  /\ now < MaxClock
  /\ now' = now + 1
  /\ \E c \in Contents : disk' = [disk EXCEPT ![f] = [content |-> c, mtime |-> now']]
  /\ Touched(f)
  /\ unseen' = [unseen EXCEPT ![f] = IF Saving(f) THEN pc.step ELSE "idle"]
  /\ loaded' = [loaded EXCEPT ![f] = NONE]
  /\ UNCHANGED <<backup, autosave, page, page_current, revertable, bar, pc, synced, rewound, orphan>>

DeleteOutside(f) ==
  /\ Exists(disk[f])
  /\ disk' = [disk EXCEPT ![f] = Missing]
  /\ Touched(f)
  /\ unseen' = [unseen EXCEPT ![f] = "seen"]
  /\ loaded' = [loaded EXCEPT ![f] = NONE]
  /\ UNCHANGED <<now, backup, autosave, page, page_current, revertable, bar, pc, synced, rewound, orphan>>

(* The editor dies and is started again without a file. *)
Crash ==
  /\ page' = [f \in Files |-> Closed]
  /\ page_current' = Untitled
  /\ revertable' = FALSE
  /\ bar' = NoBar
  /\ event' = FALSE
  /\ pc' = Idle
  /\ orphan' = [f \in Files |-> orphan[f] \/ (f \in Open /\ Exists(autosave[f]))]
  /\ UNCHANGED <<files, synced, rewound, unseen, loaded>>

-----------------------------------------------------------------------------
Init ==
  /\ now \in 1 .. TicksPerSec
  /\ \E c \in Contents : disk \in [Files -> {Missing, [content |-> c, mtime |-> now]}]
  /\ backup = [f \in Files |-> NONE]
  /\ autosave = [f \in Files |-> Missing]
  /\ page = [f \in Files |-> Closed]
  /\ page_current = Untitled
  /\ revertable = FALSE
  /\ bar = NoBar
  /\ event = FALSE
  /\ pc = Idle
  /\ synced = [f \in Files |-> NONE]
  /\ loaded = [f \in Files |-> NONE]
  /\ rewound = [f \in Files |-> FALSE]
  /\ unseen = [f \in Files |-> "seen"]
  /\ orphan = [f \in Files |-> FALSE]

(* The steps the editor takes on its own once it has begun. *)
Continue(f) ==
  \/ ReadFile(f)
  \/ ReadFails(f)
  \/ RenameFile(f)
  \/ WriteFile(f)
  \/ StatFile(f)

Next ==
  \/ \E f \in Files :
       \/ Edit(f)
       \/ UndoRedo(f)
       \/ OpenFile(f)
       \/ CreatePage(f)
       \/ \E closing \in BOOLEAN : SaveFile(f, closing)
       \/ Continue(f)
       \/ ClosePage(f)
       \/ RevertPage(f)
       \/ DismissBar(f)
       \/ WriteOutside(f)
       \/ DeleteOutside(f)
  \/ \E q \in Files \cup {Untitled} : SwitchPage(q)
  \/ SaveStateElsewhere
  \/ SaveFails
  \/ Timer
  \/ FamEvent
  \/ Crash

Spec == Init /\ [][Next]_vars

(* The main loop dispatches a pending FAM event whenever it is back in
   control, and opening and saving come to an end.                          *)
Fairness ==
  /\ SF_vars(FamEvent)
  /\ WF_vars(SaveFails \/ \E f \in Files : Continue(f))

FairSpec == Spec /\ Fairness

-----------------------------------------------------------------------------
(* Properties *)

(* A version of the file which another program has written while its page was
   open, and which the user has neither loaded nor been told of, makes
   file_changed_since true, so that the next save asks before overwriting it.
   The code has no defence in two windows, which are exempt here.  f_save looks
   at the file after o_save has written it (f_basic.c:447-458) and takes a
   version that has come in between ("stat") for its own, and the save after it
   overwrites that one unasked.  And a save asks only when it begins: it
   overwrites a version that comes before its o_save ("rename", "write").  But
   that is all: a save under way finds no version that came outside of a save.  *)
ForeignChangesNoticed ==
  \A f \in Open : Unseen(f) /\ Exists(disk[f]) =>
    /\ file_changed_since(f) \/ unseen[f] = "stat"
    /\ Saving(f) => unseen[f] # "idle"

(* What the file held when it was opened remains in the file or in f~ however
   often the page is saved, and through failing saves and crashes, unless
   another program changes the file or the backup can't be made.            *)
LoadedKept ==
  \A f \in Files : loaded[f] # NONE => loaded[f] \in {disk[f].content, backup[f]}

(* "If the page has been changed, makes it the current page of toplevel and
   asks the user for confirmation" (x_highlevel.c:512), but otherwise not: a
   page that doesn't count as changed shows what is in its file.            *)
UnchangedMeansSaved ==
  pc = Idle => \A f \in Open : ~page[f].CHANGED => page[f].content = synced[f]

(* So it is until the page is saved: from then on the undo list holds CHANGED
   flags from before the save.                                              *)
UnchangedMeansSavedAtFirst ==
  pc = Idle => \A f \in Open : ~page[f].CHANGED /\ ~page[f].saved_since_first_loaded
                                 => page[f].content = synced[f]

(* A page without operations since the last backup, which no timer will have
   backed up, is in its file or in its autosave backup (unless undo brought
   back something else, which the user had once and left).                  *)
BackupUpToDate ==
  pc = Idle => \A f \in Open : ~page[f].ops /\ ~rewound[f]
                                 => page[f].content \in {synced[f], autosave[f].content}

(* A page is never open beside an autosave backup that a crash has left and
   that is newer than its file, unless the user has been asked about it.    *)
AutosaveOffered ==
  pc = Idle => \A f \in Open : orphan[f] /\ Exists(disk[f]) => ~f_has_active_autosave(f)

(* Once the FAM events have been delivered, the bar is shown exactly if saving
   the current page would ask, and it says if changes would be dropped.     *)
BarTruthful ==
  pc = Idle /\ page_current # Untitled /\ ~event =>
    /\ bar.path = page_current
    /\ Visible(bar) <=> file_changed_since(page_current)
    /\ bar.revert <=> page[page_current].CHANGED

(* A change of the current page's file is brought to the user's attention
   sooner or later, unless it goes away or the user leaves the page.        *)
BarShown ==
  \A f \in Files :
    (f \in Open /\ page_current = f /\ file_changed_since(f))
      ~> (Visible(bar) \/ page_current # f \/ f \notin Open \/ ~file_changed_since(f))
=============================================================================
