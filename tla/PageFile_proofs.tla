--------------------------- MODULE PageFile_proofs ---------------------------
(***************************************************************************)
(* Proofs about module PageFile, for any number of files, any history and   *)
(* any interleaving with other programs.                                    *)
(*                                                                         *)
(* None of the properties is inductive.  The invariant IndInv adds to them  *)
(*   Shape      types, and where the window and a running operation are;    *)
(*   StoredOf   that no time is in the future, and that a file that exists  *)
(*              has a content;                                              *)
(*   SeenOf, LoadedOf, UndoOf, BackupOf, OrphanOf, one for each property    *)
(*              about a file, with what holds in the midst of a save;       *)
(*   BarOK      what the bar knows of the current page, and that it is      *)
(*              stale only while an event is on its way.                    *)
(* There is one lemma per action.  A step is about one file at most: what   *)
(* it leaves of the others is Frame, and FrameKeeps is proved once.         *)
(***************************************************************************)
EXTENDS PageFile, SequenceTheorems, TLAPS

(* A page of a file *)

PageOK(p) == p = Closed \/ (p \in Page /\ p.at \in DOMAIN p.undo)

FilesTyped == /\ now \in Nat
              /\ disk \in [Files -> Stored]
              /\ backup \in [Files -> Contents \cup {NONE}]
              /\ autosave \in [Files -> Stored]

PagesTyped == /\ page \in [Files -> Page \cup {Closed}]
              /\ \A f \in Files : PageOK(page[f])

WindowTyped ==
  /\ page_current \in Files \cup {Untitled}
  /\ bar \in [path : Files \cup {Untitled}, known : Nat, current : Nat, revert : BOOLEAN]
  /\ revertable \in BOOLEAN
  /\ event \in BOOLEAN

GhostsTyped == /\ synced \in [Files -> Contents \cup {NONE}]
               /\ loaded \in [Files -> Contents \cup {NONE}]
               /\ rewound \in [Files -> BOOLEAN]
               /\ unseen \in [Files -> Arrivals]
               /\ orphan \in [Files -> BOOLEAN]

Typed == FilesTyped /\ PagesTyped /\ WindowTyped /\ pc \in Steps /\ GhostsTyped

(* A page of the right type is open if it has a place in its undo list. *)
LEMMA OpenPage ==
  ASSUME NEW p, PageOK(p)
  PROVE  /\ p # Closed <=> p.at # 0
         /\ p # Closed => p \in Page /\ p.at \in 1 .. Len(p.undo)
<1>1. CASE p = Closed
  BY <1>1 DEF Closed
<1>2. CASE p \in Page /\ p.at \in DOMAIN p.undo
  <2>1. p.undo \in Seq(Entry) /\ p.at \in Nat
    BY <1>2 DEF Page
  <2>2. DOMAIN p.undo = 1 .. Len(p.undo)
    BY <2>1
  <2>3. p.at # 0
    BY <1>2, <2>2
  <2> QED BY <1>2, <2>2, <2>3 DEF Closed
<1> QED BY <1>1, <1>2 DEF PageOK

(* The pages after the autosave backups: only the two flags that ask for a
   backup may differ, and only on pages that have been backed up.           *)
LEMMA BackupsKeep ==
  ASSUME NEW pages \in [Files -> Page \cup {Closed}],
         \A g \in Files : PageOK(pages[g]),
         \A g \in Open : pages[g] # Closed,
         NEW written \in SUBSET Due(pages), NEW g \in Files
  PROVE  LET p == pages[g]
             q == AfterBackups(pages, written)[g]
         IN /\ AfterBackups(pages, written) \in [Files -> Page \cup {Closed}]
            /\ PageOK(q)
            /\ q = Closed <=> p = Closed
            /\ g \notin written => q = p
            /\ /\ q.content = p.content /\ q.CHANGED = p.CHANGED
               /\ q.last_modified = p.last_modified
               /\ q.saved_since_first_loaded = p.saved_since_first_loaded
               /\ q.undo = p.undo /\ q.at = p.at
<1> DEFINE B(h) == [pages[h] EXCEPT !.ops = FALSE, !.do_autosave_backup = FALSE]
<1>1. ASSUME NEW h \in Open
      PROVE  /\ B(h) \in Page /\ PageOK(B(h)) /\ B(h) # Closed
             /\ B(h).content = pages[h].content /\ B(h).CHANGED = pages[h].CHANGED
             /\ B(h).last_modified = pages[h].last_modified
             /\ B(h).saved_since_first_loaded = pages[h].saved_since_first_loaded
             /\ B(h).undo = pages[h].undo /\ B(h).at = pages[h].at
  <2>1. pages[h] \in Page /\ pages[h].at \in DOMAIN pages[h].undo
    BY <1>1 DEF Open, PageOK
  <2>2. /\ B(h) \in Page
        /\ B(h).content = pages[h].content /\ B(h).CHANGED = pages[h].CHANGED
        /\ B(h).last_modified = pages[h].last_modified
        /\ B(h).saved_since_first_loaded = pages[h].saved_since_first_loaded
        /\ B(h).undo = pages[h].undo /\ B(h).at = pages[h].at
    BY <2>1 DEF Page
  <2>3. PageOK(B(h))
    BY <2>1, <2>2 DEF PageOK
  <2>4. B(h) # Closed
    BY <2>1, <2>2, <2>3, OpenPage DEF PageOK
  <2> QED BY <2>2, <2>3, <2>4
<1> HIDE DEF B
<1>2. Due(pages) \subseteq Open /\ Open \subseteq Files
  BY DEF Due, Open
<1>3. ASSUME NEW h \in Files
      PROVE  AfterBackups(pages, written)[h] = IF h \in written THEN B(h) ELSE pages[h]
  BY <1>2 DEF AfterBackups, BackedUp, B
<1>4. AfterBackups(pages, written) \in [Files -> Page \cup {Closed}]
  <2>1. AfterBackups(pages, written) = [h \in Files |-> IF h \in written THEN B(h) ELSE pages[h]]
    BY <1>2 DEF AfterBackups, BackedUp, B
  <2> QED BY <1>1, <1>2, <2>1
<1> QED BY <1>1, <1>2, <1>3, <1>4

(* One page changes. *)
LEMMA PageChanges ==
  ASSUME PagesTyped, NEW f \in Files, NEW q, PageOK(q), page' = [page EXCEPT ![f] = q]
  PROVE  PagesTyped'
BY DEF PagesTyped, PageOK

(* The bar of a page, in the window or on changing to the page *)
LEMMA BarTyped ==
  ASSUME Typed, NEW f \in Files, NEW p \in Page, ShowBar(f, p)
  PROVE  /\ bar' \in [path : Files \cup {Untitled}, known : Nat, current : Nat, revert : BOOLEAN]
         /\ event' \in BOOLEAN
<1>1. disk[f].mtime \in Nat
  BY DEF Typed, FilesTyped, Stored
<1>2. bar.current \in Nat
  BY DEF Typed, WindowTyped
<1>3. p.last_modified \in Nat /\ p.CHANGED \in BOOLEAN
  BY DEF Page
<1>4. (IF bar.path = f THEN bar.current ELSE disk[f].mtime) \in Nat
  BY <1>1, <1>2
<1>5. bar' \in [path : Files \cup {Untitled}, known : Nat, current : Nat, revert : BOOLEAN]
  BY <1>3, <1>4 DEF ShowBar, BarFor
<1>6. event' \in BOOLEAN
  BY Zenon DEF Typed, WindowTyped, ShowBar
<1> QED BY <1>5, <1>6

(* x_window_set_current_page gives a window of the right type if it is given
   an open page, or none.                                                   *)
LEMMA CurrentTyped ==
  ASSUME Typed, PagesTyped', NEW q \in Files \cup {Untitled}, SetCurrent(q),
         q # Untitled => page'[q] # Closed
  PROVE  WindowTyped'
<1>0. page_current' \in Files \cup {Untitled} /\ revertable' \in BOOLEAN
  BY Zenon DEF SetCurrent
<1>1. CASE q = Untitled
  <2>1. bar' = NoBar /\ event' = FALSE
    BY <1>1 DEF SetCurrent
  <2> QED BY <1>0, <2>1 DEF WindowTyped, NoBar
<1>2. CASE q # Untitled
  <2>1. page'[q] \in Page
    BY <1>2 DEF PagesTyped, PageOK
  <2>2. /\ bar' \in [path : Files \cup {Untitled}, known : Nat, current : Nat, revert : BOOLEAN]
        /\ event' \in BOOLEAN
    BY <1>2, <2>1, BarTyped DEF SetCurrent
  <2> QED BY <1>0, <2>2 DEF WindowTyped
<1> QED BY <1>1, <1>2

-----------------------------------------------------------------------------
(* The bar belongs to the current page, which is open unless it is being
   reverted; a page being saved is open, one being read is not.             *)
Where ==
  /\ bar.path = page_current
  /\ \/ page_current \in Open \cup {Untitled}
     \/ pc.step = "read" /\ pc.file = page_current
  /\ pc.step \in {"rename", "write", "stat"} => pc.file \in Open
  /\ pc.step = "read" => pc.file \notin Open

Shape == Typed /\ Where

(* What is known of pc in each step of opening and saving *)
LEMMA StepTyped ==
  ASSUME pc \in Steps
  PROVE  /\ pc.step \in {"idle", "read", "rename", "write", "stat"}
         /\ pc.step = "idle" <=> pc = Idle
         /\ pc.step = "read" => pc.file \in Files /\ pc.known \in Nat
         /\ pc.step \in {"rename", "write", "stat"} => pc.file \in Files /\ pc.closing \in BOOLEAN
BY DEF Steps, Idle

(* A freshly started editor has the right shape. *)
LEMMA InitShape == Init => Shape
<1> SUFFICES ASSUME Init PROVE Shape
  OBVIOUS
<1>1. FilesTyped
  BY ClockAssumption DEF Init, FilesTyped, Stored, Missing
<1>2. PagesTyped
  BY DEF Init, PagesTyped, PageOK
<1>3. WindowTyped
  BY DEF Init, WindowTyped, NoBar
<1>4. pc \in Steps /\ GhostsTyped
  BY DEF Init, Steps, GhostsTyped, Arrivals
<1>5. Where
  BY DEF Init, Where, NoBar, Idle, Open
<1> QED BY <1>1, <1>2, <1>3, <1>4, <1>5 DEF Shape, Typed

(* Looking at the file again changes one field of the bar. *)
LEMMA FamEventShape == Shape /\ FamEvent => Shape'
<1> SUFFICES ASSUME Shape, FamEvent PROVE Shape'
  OBVIOUS
<1>1. FilesTyped' /\ PagesTyped' /\ pc' \in Steps /\ GhostsTyped'
  BY DEF Shape, Typed, FamEvent, files, ghosts, FilesTyped, PagesTyped, GhostsTyped
<1>2. WindowTyped' /\ bar'.path = bar.path
  <2>1. (IF bar.path = Untitled THEN 0 ELSE disk[bar.path].mtime) \in Nat
    BY DEF Shape, Typed, WindowTyped, FilesTyped, Stored
  <2>2. bar' = [bar EXCEPT !.current = IF bar.path = Untitled THEN 0 ELSE disk[bar.path].mtime]
    BY DEF FamEvent, Noticed
  <2> QED BY <2>1, <2>2 DEF Shape, Typed, FamEvent, WindowTyped
<1>3. Where'
  BY <1>2 DEF Shape, Where, FamEvent, Open
<1> QED BY <1>1, <1>2, <1>3 DEF Shape, Typed

(* The autosave timer only marks pages. *)
LEMMA TimerShape == Shape /\ Timer => Shape'
<1> SUFFICES ASSUME Shape, Timer PROVE Shape'
  OBVIOUS
<1>1. ASSUME NEW g \in Files
      PROVE  /\ PageOK(page'[g]) /\ page'[g] \in Page \cup {Closed}
             /\ page'[g] = Closed <=> page[g] = Closed
  <2>1. PageOK(page[g])
    BY DEF Shape, Typed, PagesTyped
  <2>2. CASE g \in Open /\ page[g].ops
    <3>1. page[g] \in Page /\ page[g].at \in DOMAIN page[g].undo
      BY <2>1, <2>2 DEF PageOK, Open
    <3>2. page'[g] = [page[g] EXCEPT !.do_autosave_backup = TRUE]
      BY <2>2 DEF Timer
    <3>3. page'[g] \in Page /\ page'[g].at = page[g].at /\ page'[g].undo = page[g].undo
      BY <3>1, <3>2 DEF Page
    <3> QED BY <3>1, <3>3, OpenPage, <2>1, <2>2 DEF PageOK, Open
  <2>3. CASE ~(g \in Open /\ page[g].ops)
    BY <2>1, <2>3 DEF Timer, PageOK
  <2> QED BY <2>2, <2>3
<1>2. PagesTyped'
  <2>1. page' \in [Files -> Page \cup {Closed}]
    BY <1>1 DEF Timer
  <2> QED BY <1>1, <2>1 DEF PagesTyped
<1>3. FilesTyped' /\ WindowTyped' /\ pc' \in Steps /\ GhostsTyped'
  BY DEF Shape, Typed, Timer, files, ghosts, window, FilesTyped, WindowTyped, GhostsTyped
<1>4. Where'
  BY <1>1 DEF Shape, Where, Timer, window, Open
<1> QED BY <1>2, <1>3, <1>4 DEF Shape, Typed

(* The page of an edit, before its backup. *)
Edited(p, c) == [p EXCEPT !.content = c, !.CHANGED = TRUE,
                          !.undo = Append(SubSeq(p.undo, 1, p.at), Recorded(p, c)),
                          !.at = p.at + 1]

(* An edit leaves the undo list as it was up to undo_current, with the new
   entry after it.                                                          *)
LEMMA EditedPage ==
  ASSUME NEW p \in Page, p.at \in DOMAIN p.undo, NEW c \in Contents
  PROVE  LET q == Edited(p, c)
         IN /\ q \in Page /\ PageOK(q) /\ q # Closed
            /\ q.content = c /\ q.CHANGED = TRUE
            /\ q.last_modified = p.last_modified
            /\ q.saved_since_first_loaded = p.saved_since_first_loaded
            /\ q.at = p.at + 1 /\ DOMAIN q.undo = 1 .. p.at + 1
            /\ q.undo[p.at + 1] = Recorded(p, c)
            /\ \A i \in 1 .. p.at : q.undo[i] = p.undo[i]
<1> DEFINE s == SubSeq(p.undo, 1, p.at)
           u == Append(s, Recorded(p, c))
<1>1. /\ p.undo \in Seq(Entry) /\ p.at \in Nat /\ p.at \in 1 .. Len(p.undo)
      /\ Recorded(p, c) \in Entry
  BY DEF Page, Recorded, Entry
<1>2. /\ s \in Seq(Entry) /\ Len(s) = p.at
      /\ \A i \in 1 .. p.at : s[i] = p.undo[i]
  BY <1>1, SubSeqProperties
<1> HIDE DEF s
<1>3. /\ u \in Seq(Entry) /\ Len(u) = p.at + 1
      /\ \A i \in 1 .. p.at : u[i] = s[i]
      /\ u[p.at + 1] = Recorded(p, c)
  BY <1>1, <1>2, AppendProperties
<1>4. DOMAIN u = 1 .. p.at + 1
  BY <1>3, LenProperties
<1> HIDE DEF u
<1> DEFINE q == [p EXCEPT !.content = c, !.CHANGED = TRUE, !.undo = u, !.at = p.at + 1]
<1>5. /\ q \in Page /\ q.content = c /\ q.CHANGED = TRUE /\ q.undo = u /\ q.at = p.at + 1
      /\ q.last_modified = p.last_modified
      /\ q.saved_since_first_loaded = p.saved_since_first_loaded
  <2> DEFINE n  == p.at + 1
             r1 == [p EXCEPT !.content = c]
             r2 == [r1 EXCEPT !.CHANGED = TRUE]
             r3 == [r2 EXCEPT !.undo = u]
             r4 == [r3 EXCEPT !.at = n]
  <2>1. n \in Nat /\ u \in Seq(Entry)
    BY <1>1, <1>3
  <2> HIDE DEF n
  <2>2. /\ r1 \in Page /\ r1.content = c /\ r1.CHANGED = p.CHANGED
        /\ r1.last_modified = p.last_modified
        /\ r1.saved_since_first_loaded = p.saved_since_first_loaded
    BY DEF Page
  <2> HIDE DEF r1
  <2>3. /\ r2 \in Page /\ r2.content = c /\ r2.CHANGED = TRUE
        /\ r2.last_modified = p.last_modified
        /\ r2.saved_since_first_loaded = p.saved_since_first_loaded
    BY <2>2 DEF Page
  <2> HIDE DEF r2
  <2>4. /\ r3 \in Page /\ r3.content = c /\ r3.CHANGED = TRUE /\ r3.undo = u
        /\ r3.last_modified = p.last_modified
        /\ r3.saved_since_first_loaded = p.saved_since_first_loaded
    BY <2>1, <2>3 DEF Page
  <2> HIDE DEF r3
  <2>5. /\ r4 \in Page /\ r4.content = c /\ r4.CHANGED = TRUE /\ r4.undo = u /\ r4.at = n
        /\ r4.last_modified = p.last_modified
        /\ r4.saved_since_first_loaded = p.saved_since_first_loaded
    BY <2>1, <2>4 DEF Page
  <2>6. q = r4
    BY DEF n, r3, r2, r1
  <2> HIDE DEF r4, q
  <2> QED BY <2>5, <2>6 DEF n
<1>6. q = Edited(p, c)
  BY DEF Edited, q, u, s
<1> HIDE DEF q
<1>7. PageOK(q) /\ q # Closed
  BY <1>1, <1>4, <1>5, OpenPage DEF PageOK
<1> QED BY <1>2, <1>3, <1>4, <1>5, <1>6, <1>7

(* A page with operations that are in no backup yet. *)
LEMMA OpsSet ==
  ASSUME NEW p \in Page, PageOK(p), p # Closed
  PROVE  LET q == [p EXCEPT !.ops = TRUE]
         IN /\ q \in Page /\ PageOK(q) /\ q # Closed /\ q.ops = TRUE
            /\ q.content = p.content /\ q.CHANGED = p.CHANGED
            /\ q.last_modified = p.last_modified
            /\ q.saved_since_first_loaded = p.saved_since_first_loaded
            /\ q.undo = p.undo /\ q.at = p.at
<1> DEFINE q == [p EXCEPT !.ops = TRUE]
<1>1. /\ q \in Page /\ q.ops = TRUE
      /\ q.content = p.content /\ q.CHANGED = p.CHANGED
      /\ q.last_modified = p.last_modified
      /\ q.saved_since_first_loaded = p.saved_since_first_loaded
      /\ q.undo = p.undo /\ q.at = p.at
  BY DEF Page
<1>2. p.at \in DOMAIN p.undo
  BY DEF PageOK
<1> HIDE DEF q
<1>3. PageOK(q)
  BY <1>1, <1>2 DEF PageOK
<1>4. q # Closed
  BY <1>1, <1>3, OpenPage
<1> QED BY <1>1, <1>3, <1>4 DEF q

(* What autosave backups do to the files. *)
LEMMA BackupsTyped ==
  ASSUME Shape, NEW pages \in [Files -> Page \cup {Closed}],
         \A g \in Files : PageOK(pages[g]),
         \A g \in Open : pages[g] # Closed,
         NEW written \in SUBSET Due(pages), AutosaveBackups(pages, written)
  PROVE  /\ now' \in Nat /\ autosave' \in [Files -> Stored]
         /\ orphan' \in [Files -> BOOLEAN]
<1>1. now' \in Nat
  BY DEF Shape, Typed, FilesTyped, AutosaveBackups
<1>2. ASSUME NEW g \in written PROVE [content |-> pages[g].content, mtime |-> now'] \in Stored
  <2>1. pages[g] \in Page
    BY DEF Due, Open, PageOK
  <2> QED BY <1>1, <2>1 DEF Page, Stored
<1>3. autosave' \in [Files -> Stored]
  BY <1>2 DEF Shape, Typed, FilesTyped, AutosaveBackups
<1>4. orphan' \in [Files -> BOOLEAN]
  BY Zenon DEF AutosaveBackups
<1> QED BY <1>1, <1>3, <1>4

(* A step that saves the state of the pages: what is left to show of it *)
LEMMA EditStep ==
  ASSUME Shape, NEW f \in Files, Edit(f)
  PROVE  \E c \in Contents : \E written \in SUBSET Open :
           LET p == page[f]
               pages == [page EXCEPT ![f] = Edited(p, c)]
           IN /\ f \in Open /\ p \in Page /\ p.at \in DOMAIN p.undo
              /\ written \subseteq Due(pages)
              /\ AutosaveBackups(pages, written)
              /\ page' = [AfterBackups(pages, written) EXCEPT ![f].ops = TRUE]
              /\ pages \in [Files -> Page \cup {Closed}]
              /\ \A g \in Files : PageOK(pages[g])
              /\ \A g \in Open : pages[g] # Closed
<1> DEFINE pages(c) == [page EXCEPT ![f] = Edited(page[f], c)]
<1>1. PICK c \in Contents : \E written \in SUBSET Due(pages(c)) :
        /\ AutosaveBackups(pages(c), written)
        /\ page' = [AfterBackups(pages(c), written) EXCEPT ![f].ops = TRUE]
  BY DEF Edit, Edited
<1>2. f \in Open
  BY NamesAssumption DEF Shape, Where, Edit, Idle
<1>3. page[f] \in Page /\ page[f].at \in DOMAIN page[f].undo
  BY <1>2 DEF Shape, Typed, PagesTyped, Open, PageOK
<1>4. Edited(page[f], c) \in Page /\ PageOK(Edited(page[f], c)) /\ Edited(page[f], c) # Closed
  BY <1>3, EditedPage
<1>5. /\ pages(c) \in [Files -> Page \cup {Closed}]
      /\ \A g \in Files : PageOK(pages(c)[g])
      /\ \A g \in Open : pages(c)[g] # Closed
  BY <1>4 DEF Shape, Typed, PagesTyped, Open
<1>6. Due(pages(c)) \subseteq Open
  BY DEF Due
<1> QED BY <1>1, <1>2, <1>3, <1>5, <1>6

(* What a page keeps through an autosave backup *)
Same(p, q) == /\ q.content = p.content /\ q.CHANGED = p.CHANGED
              /\ q.last_modified = p.last_modified
              /\ q.saved_since_first_loaded = p.saved_since_first_loaded
              /\ q.undo = p.undo /\ q.at = p.at

(* The autosave backups of the pages, but for the pages themselves *)
Backed(pages, written) ==
  /\ written \subseteq Due(pages)
  /\ now' \in Nat /\ now' >= now
  /\ autosave' \in [Files -> Stored]
  /\ orphan' \in [Files -> BOOLEAN]
  /\ \A g \in written : autosave'[g] = [content |-> pages[g].content, mtime |-> now'] /\ ~orphan'[g]
  /\ \A g \in Files \ written : /\ autosave'[g] = autosave[g]
                                /\ orphan'[g] => orphan[g] /\ ~JustAsked(g)

(* o_autosave_backups does that, whichever files can be written. *)
LEMMA BackupsBacked ==
  ASSUME Shape, NEW pages \in [Files -> Page \cup {Closed}],
         \A g \in Files : PageOK(pages[g]),
         \A g \in Open : pages[g] # Closed,
         NEW written \in SUBSET Due(pages), AutosaveBackups(pages, written)
  PROVE  Backed(pages, written)
<1>1. now \in Nat
  BY DEF Shape, Typed, FilesTyped
<1>2. written \subseteq Files
  BY DEF Due, Open
<1>3. now' >= now
  BY <1>1 DEF AutosaveBackups
<1>4. \A g \in written : autosave'[g] = [content |-> pages[g].content, mtime |-> now'] /\ ~orphan'[g]
  BY <1>2, Zenon DEF AutosaveBackups
<1>5. \A g \in Files \ written : /\ autosave'[g] = autosave[g]
                                 /\ orphan'[g] => orphan[g] /\ ~JustAsked(g)
  BY Zenon DEF AutosaveBackups
<1> QED BY <1>3, <1>4, <1>5, BackupsTyped DEF Backed

(* WriteBackups as a whole *)
LEMMA SavestatePages ==
  ASSUME Shape, NEW pages \in [Files -> Page \cup {Closed}],
         \A g \in Files : PageOK(pages[g]),
         \A g \in Open : pages[g] # Closed,
         WriteBackups(pages)
  PROVE  \E written \in SUBSET Open :
           /\ Backed(pages, written)
           /\ PagesTyped'
           /\ \A g \in Files : /\ page'[g] = Closed <=> pages[g] = Closed
                               /\ g \notin written => page'[g] = pages[g]
                               /\ Same(pages[g], page'[g])
<1>1. PICK written \in SUBSET Due(pages) :
        AutosaveBackups(pages, written) /\ page' = AfterBackups(pages, written)
  BY DEF WriteBackups
<1>2. Backed(pages, written)
  BY <1>1, BackupsBacked
<1>3. written \subseteq Open
  BY DEF Due
<1>4. ASSUME NEW g \in Files
      PROVE  /\ page' \in [Files -> Page \cup {Closed}]
             /\ PageOK(page'[g])
             /\ page'[g] = Closed <=> pages[g] = Closed
             /\ g \notin written => page'[g] = pages[g]
             /\ Same(pages[g], page'[g])
  BY <1>1, BackupsKeep DEF Same
<1>5. PagesTyped'
  <2>1. CASE Files = {}
    BY <1>1, <2>1 DEF PagesTyped, AfterBackups
  <2>2. CASE Files # {}
    BY <1>4, <2>2 DEF PagesTyped
  <2> QED BY <2>1, <2>2
<1> QED BY <1>2, <1>3, <1>4, <1>5

(* The pages after an edit *)
LEMMA EditPages ==
  ASSUME Shape, NEW f \in Files, Edit(f)
  PROVE  \E c \in Contents : \E written \in SUBSET Open :
           LET p == page[f]
               q == page'[f]
           IN /\ f \in Open /\ p \in Page /\ p.at \in DOMAIN p.undo
              /\ PagesTyped' /\ Open' = Open
              /\ Backed([page EXCEPT ![f] = Edited(p, c)], written)
              /\ \A g \in Files \ {f} : /\ g \notin written => page'[g] = page[g]
                                        /\ Same(page[g], page'[g])
              /\ q.content = c /\ q.CHANGED = TRUE /\ q.ops = TRUE
              /\ q.last_modified = p.last_modified
              /\ q.saved_since_first_loaded = p.saved_since_first_loaded
              /\ DOMAIN q.undo = 1 .. p.at + 1
              /\ q.undo[p.at + 1] = Recorded(p, c)
              /\ \A i \in 1 .. p.at : q.undo[i] = p.undo[i]
<1>1. PICK c \in Contents, written \in SUBSET Open :
         LET p == page[f]
             pages == [page EXCEPT ![f] = Edited(p, c)]
         IN /\ f \in Open /\ p \in Page /\ p.at \in DOMAIN p.undo
            /\ written \subseteq Due(pages)
            /\ AutosaveBackups(pages, written)
            /\ page' = [AfterBackups(pages, written) EXCEPT ![f].ops = TRUE]
            /\ pages \in [Files -> Page \cup {Closed}]
            /\ \A g \in Files : PageOK(pages[g])
            /\ \A g \in Open : pages[g] # Closed
  BY EditStep
<1> DEFINE p == page[f]
           e == Edited(p, c)
           pages == [page EXCEPT ![f] = e]
           after == AfterBackups(pages, written)
<1>a. f \in Open /\ p \in Page /\ p.at \in DOMAIN p.undo
  BY <1>1
<1>b. /\ written \in SUBSET Due(pages)
      /\ AutosaveBackups(pages, written)
      /\ pages \in [Files -> Page \cup {Closed}]
      /\ \A g \in Files : PageOK(pages[g])
      /\ \A g \in Open : pages[g] # Closed
  BY <1>1
<1>c. page' = [after EXCEPT ![f].ops = TRUE]
  BY <1>1
<1>2. Backed(pages, written)
  BY <1>b, BackupsBacked
<1>3. page \in [Files -> Page \cup {Closed}]
  BY DEF Shape, Typed, PagesTyped
<1>4. ASSUME NEW g \in Files
      PROVE  /\ after \in [Files -> Page \cup {Closed}]
             /\ PageOK(after[g])
             /\ after[g] = Closed <=> pages[g] = Closed
             /\ g \notin written => after[g] = pages[g]
             /\ Same(pages[g], after[g])
  <2> HIDE DEF pages
  <2> QED BY <1>b, BackupsKeep DEF Same
<1>5. /\ e \in Page /\ PageOK(e) /\ e # Closed
      /\ e.content = c /\ e.CHANGED = TRUE
      /\ e.last_modified = p.last_modified
      /\ e.saved_since_first_loaded = p.saved_since_first_loaded
      /\ DOMAIN e.undo = 1 .. p.at + 1
      /\ e.undo[p.at + 1] = Recorded(p, c)
      /\ \A i \in 1 .. p.at : e.undo[i] = p.undo[i]
  <2>1. p \in Page /\ p.at \in DOMAIN p.undo
    BY <1>a
  <2> HIDE DEF p, pages, after
  <2>2. /\ e \in Page /\ PageOK(e) /\ e # Closed
        /\ e.content = c /\ e.CHANGED = TRUE
        /\ e.last_modified = p.last_modified
        /\ e.saved_since_first_loaded = p.saved_since_first_loaded
    BY <2>1, EditedPage
  <2>3. DOMAIN e.undo = 1 .. p.at + 1 /\ e.undo[p.at + 1] = Recorded(p, c)
    BY <2>1, EditedPage
  <2>4. \A i \in 1 .. p.at : e.undo[i] = p.undo[i]
    BY <2>1, EditedPage
  <2> QED BY <2>2, <2>3, <2>4
<1>6. pages[f] = e /\ \A g \in Files \ {f} : pages[g] = page[g]
  BY <1>3
<1> DEFINE q == [after[f] EXCEPT !.ops = TRUE]
<1>7. page' = [after EXCEPT ![f] = q]
  BY <1>c
<1> HIDE DEF after, e, pages
<1>8. /\ after[f] \in Page /\ PageOK(after[f]) /\ after[f] # Closed /\ Same(e, after[f])
      /\ after \in [Files -> Page \cup {Closed}]
  BY <1>4, <1>5, <1>6 DEF PageOK
<1>9. /\ q \in Page /\ PageOK(q) /\ q # Closed /\ q.ops = TRUE /\ Same(e, q)
  BY <1>8, OpsSet DEF Same
<1> HIDE DEF q
<1>10. page'[f] = q /\ \A g \in Files \ {f} : page'[g] = after[g]
  BY <1>7, <1>8
<1>11. PagesTyped'
  BY <1>4, <1>7, <1>8, <1>9, <1>10 DEF PagesTyped
<1>12. Open' = Open
  BY <1>a, <1>4, <1>6, <1>9, <1>10 DEF Open
<1>13. \A g \in Files \ {f} : /\ g \notin written => page'[g] = page[g]
                              /\ Same(page[g], page'[g])
  BY <1>4, <1>6, <1>10
<1>14. /\ q.content = c /\ q.CHANGED = TRUE
       /\ q.last_modified = p.last_modified
       /\ q.saved_since_first_loaded = p.saved_since_first_loaded
       /\ q.undo = e.undo
  BY <1>5, <1>9 DEF Same
<1> QED BY <1>a, <1>2, <1>5, <1>9, <1>10, <1>11, <1>12, <1>13, <1>14 DEF pages, e

-----------------------------------------------------------------------------
(* The inductive invariant.  At(step, f) says where the editor is. *)

At(step, f) == pc.step = step /\ pc.file = f

Real(s) == Exists(s) => s.content \in Contents

StoredOf(f) == /\ disk[f].mtime <= now
               /\ autosave[f].mtime <= now
               /\ Real(disk[f]) /\ Real(autosave[f])
               /\ f \in Open => page[f].last_modified <= now

SeenOf(f) == /\ f \in Open /\ Unseen(f) /\ Exists(disk[f]) =>
                  /\ file_changed_since(f) \/ unseen[f] = "stat"
                  /\ Saving(f) => unseen[f] # "idle"
             /\ At("stat", f) /\ Unseen(f) => unseen[f] = "stat"

LoadedOf(f) ==
  /\ ~Exists(disk[f]) => disk[f].content = NONE
  /\ loaded[f] # NONE =>
       /\ loaded[f] \in {disk[f].content, backup[f]}
       /\ f \in Open /\ (page[f].saved_since_first_loaded \/ At("write", f) \/ At("stat", f))
            => loaded[f] = backup[f]
       /\ f \in Open /\ ~page[f].saved_since_first_loaded /\ Exists(disk[f]) /\ ~At("stat", f)
            => loaded[f] = disk[f].content

UndoOf(f) ==
  f \in Open /\ ~page[f].saved_since_first_loaded =>
    /\ ~page[f].CHANGED => page[f].content = synced[f]
    /\ \A i \in DOMAIN page[f].undo :
         ~page[f].undo[i].CHANGED => page[f].undo[i].content = synced[f]

BackupOf(f) == f \in Open /\ ~page[f].ops /\ ~rewound[f]
                 => page[f].content \in {synced[f], autosave[f].content}

OrphanOf(f) == f \in Open /\ orphan[f] /\ Exists(disk[f]) => ~f_has_active_autosave(f)

FileOK(f) == StoredOf(f) /\ SeenOf(f) /\ LoadedOf(f) /\ UndoOf(f) /\ BackupOf(f) /\ OrphanOf(f)

BarPast == bar.current <= now

BarFresh == page_current \in Files =>
              /\ Exists(disk[page_current]) => bar.current <= disk[page_current].mtime
              /\ ~event => bar.current = disk[page_current].mtime

BarOfPage == page_current \in Open => /\ bar.known = page[page_current].last_modified
                                      /\ bar.revert = page[page_current].CHANGED

BarOK == BarPast /\ BarFresh /\ BarOfPage

KnownPast == pc.step = "read" => pc.known <= now

IndInv == Shape /\ KnownPast /\ BarOK /\ \A f \in Files : FileOK(f)

(* The types of what belongs to a file *)
LEMMA FileTypes ==
  ASSUME Typed, NEW g \in Files
  PROVE  /\ now \in Nat
         /\ disk[g].mtime \in Nat /\ disk[g].content \in Contents \cup {NONE}
         /\ autosave[g].mtime \in Nat
         /\ PageOK(page[g])
         /\ g \in Open <=> page[g] # Closed
         /\ g \in Open => /\ page[g] \in Page /\ page[g].at \in DOMAIN page[g].undo
                          /\ page[g].last_modified \in Nat
<1>1. /\ now \in Nat
      /\ disk[g].mtime \in Nat /\ disk[g].content \in Contents \cup {NONE}
      /\ autosave[g].mtime \in Nat
  BY DEF Typed, FilesTyped, Stored
<1>2. PageOK(page[g]) /\ (g \in Open <=> page[g] # Closed)
  BY DEF Typed, PagesTyped, Open
<1>3. g \in Open => page[g] \in Page /\ page[g].at \in DOMAIN page[g].undo
  BY <1>2 DEF PageOK
<1>4. g \in Open => page[g].last_modified \in Nat
  BY <1>3 DEF Page
<1> QED BY <1>1, <1>2, <1>3, <1>4

(* A file that a step is not about: its page is closed, or stays what it was
   but for an autosave backup.                                              *)
Frame(g) ==
  /\ disk'[g] = disk[g] /\ backup'[g] = backup[g] /\ loaded'[g] = loaded[g]
  /\ unseen'[g] \in {"seen", unseen[g]}
  /\ At("stat", g)' => At("stat", g)
  /\ autosave'[g].mtime \in Nat /\ autosave'[g].mtime <= now'
  /\ Real(autosave'[g])
  /\ page'[g] # Closed =>
       /\ g \in Open
       /\ Same(page[g], page'[g])
       /\ synced'[g] = synced[g] /\ rewound'[g] = rewound[g]
       /\ At("stat", g) => At("stat", g)'
       /\ At("write", g)' => At("write", g)
       /\ Saving(g)' /\ Exists(disk[g]) => Saving(g) \/ unseen'[g] # "idle"
       /\ \/ /\ autosave'[g] = autosave[g] /\ page'[g].ops = page[g].ops
             /\ orphan'[g] => orphan[g]
          \/ autosave'[g].content = page[g].content /\ ~orphan'[g]

(* Such a file keeps what the invariant says of it. *)
LEMMA FrameKeeps ==
  ASSUME Typed, NEW g \in Files, FileOK(g), now' \in Nat, now' >= now, Frame(g)
  PROVE  FileOK(g)'
<1>1. /\ now \in Nat
      /\ disk[g].mtime \in Nat
      /\ g \in Open => page[g].last_modified \in Nat
  BY FileTypes
<1>2. Open' = {h \in Files : page'[h] # Closed}
  BY DEF Open
<1>3. g \in Open' => g \in Open /\ Same(page[g], page'[g])
  BY <1>2 DEF Frame
<1>4. StoredOf(g)'
  BY <1>1, <1>3 DEF StoredOf, FileOK, Frame, Same, Real, Exists
<1>5. SeenOf(g)'
  <2>1. At("stat", g)' /\ Unseen(g)' => unseen'[g] = "stat"
    BY DEF SeenOf, FileOK, Frame, Unseen
  <2>2. ASSUME g \in Open', Unseen(g)', Exists(disk'[g])
        PROVE  /\ file_changed_since(g)' \/ unseen'[g] = "stat"
               /\ Saving(g)' => unseen'[g] # "idle"
    <3>1. /\ g \in Open /\ Same(page[g], page'[g]) /\ disk'[g] = disk[g]
          /\ unseen'[g] = unseen[g]
          /\ Saving(g)' => Saving(g) \/ unseen'[g] # "idle"
      BY <1>2, <1>3, <2>2 DEF Frame, Unseen
    <3>2. /\ file_changed_since(g) \/ unseen[g] = "stat"
          /\ Saving(g) => unseen[g] # "idle"
      BY <2>2, <3>1 DEF SeenOf, FileOK, Unseen
    <3> QED BY <3>1, <3>2 DEF Same, file_changed_since
  <2> QED BY <2>1, <2>2 DEF SeenOf
<1>6. LoadedOf(g)'
  BY <1>2, <1>3 DEF LoadedOf, FileOK, Frame, Same, Exists, At
<1>7. UndoOf(g)'
  BY <1>2, <1>3 DEF UndoOf, FileOK, Frame, Same
<1>8. BackupOf(g)'
  BY <1>2, <1>3 DEF BackupOf, FileOK, Frame, Same
<1>9. OrphanOf(g)'
  BY <1>2, <1>3 DEF OrphanOf, FileOK, Frame, f_has_active_autosave, Exists
<1> QED BY <1>4, <1>5, <1>6, <1>7, <1>8, <1>9 DEF FileOK

(* The bar when the window doesn't change to another page: what it says of
   the current page stays true, or an event is on its way.                  *)
LEMMA BarFrame ==
  ASSUME Typed, BarOK, now' \in Nat, now' >= now,
         page_current' = page_current, bar' = bar,
         page_current \in Files =>
           /\ \/ disk'[page_current] = disk[page_current] /\ event' = event
              \/ event' = TRUE /\ \/ ~Exists(disk'[page_current])
                                  \/ disk'[page_current].mtime = now',
         page_current \in Open' => /\ page_current \in Open
                                   /\ Same(page[page_current], page'[page_current])
  PROVE  BarOK'
<1>1. now \in Nat /\ bar.current \in Nat
  BY DEF Typed, FilesTyped, WindowTyped
<1>2. BarPast'
  BY <1>1 DEF BarOK, BarPast
<1>3. BarFresh'
  <2>1. CASE disk'[page_current] = disk[page_current] /\ event' = event
    BY <2>1 DEF BarOK, BarFresh, Exists
  <2>2. CASE event' = TRUE /\ ~Exists(disk'[page_current])
    BY <2>2 DEF BarFresh, Exists
  <2>3. CASE event' = TRUE /\ disk'[page_current].mtime = now'
    BY <1>2, <2>3 DEF BarFresh, BarPast, Exists
  <2>4. CASE page_current \notin Files
    BY <2>4 DEF BarFresh
  <2> QED BY <2>1, <2>2, <2>3, <2>4
<1>4. BarOfPage'
  BY DEF BarOK, BarOfPage, Same
<1> QED BY <1>2, <1>3, <1>4 DEF BarOK

(* The bar of a page that is current, or becomes current *)
LEMMA BarOfCurrent ==
  ASSUME Typed, BarOK, bar.path = page_current, NEW f \in Files, PageOK(page'[f]), page'[f] # Closed,
         ShowBar(f, page'[f]), page_current' = f, disk' = disk, now' \in Nat, now' >= now,
         disk[f].mtime <= now
  PROVE  BarOK' /\ bar'.path = f
<1>1. now \in Nat /\ bar.current \in Nat /\ disk[f].mtime \in Nat
  BY DEF Typed, FilesTyped, WindowTyped, Stored
<1>2. /\ bar'.path = f /\ bar'.known = page'[f].last_modified
      /\ bar'.revert = page'[f].CHANGED
      /\ bar'.current = IF bar.path = f THEN bar.current ELSE disk[f].mtime
      /\ event' = (event /\ bar.path = f)
  BY DEF ShowBar, BarFor
<1>3. BarPast'
  BY <1>1, <1>2 DEF BarOK, BarPast
<1>4. BarFresh'
  <2>1. CASE bar.path = f
    BY <1>2, <2>1 DEF BarOK, BarFresh, Exists
  <2>2. CASE bar.path # f
    BY <1>1, <1>2, <2>2 DEF BarFresh, Exists
  <2> QED BY <2>1, <2>2
<1>5. BarOfPage'
  BY <1>2 DEF BarOfPage
<1> QED BY <1>2, <1>3, <1>4, <1>5 DEF BarOK

(* The bar after x_window_set_current_page *)
LEMMA BarOfWindow ==
  ASSUME Typed, BarOK, bar.path = page_current, NEW q \in Files \cup {Untitled}, SetCurrent(q),
         PagesTyped', q # Untitled => page'[q] # Closed, disk' = disk, now' \in Nat, now' >= now,
         \A f \in Files : disk[f].mtime <= now
  PROVE  BarOK' /\ bar'.path = q /\ page_current' = q /\ WindowTyped'
<1>1. WindowTyped'
  BY CurrentTyped
<1>2. CASE q = Untitled
  <2>1. page_current' = Untitled /\ bar' = NoBar /\ Untitled \notin Files
    BY <1>2, NamesAssumption DEF SetCurrent
  <2>2. Untitled \notin Open'
    BY <2>1 DEF Open
  <2>3. BarOK'
    <3>1. bar'.current = 0
      BY <2>1 DEF NoBar
    <3>2. BarPast'
      BY <3>1 DEF BarPast
    <3>3. BarFresh' /\ BarOfPage'
      BY <2>1, <2>2 DEF BarFresh, BarOfPage
    <3> QED BY <3>2, <3>3 DEF BarOK
  <2> QED BY <1>1, <1>2, <2>1, <2>3 DEF NoBar
<1>3. CASE q # Untitled
  <2>1. PageOK(page'[q])
    BY <1>3 DEF PagesTyped
  <2>2. ShowBar(q, page'[q]) /\ page_current' = q
    BY <1>3 DEF SetCurrent
  <2> QED BY <1>1, <1>3, <2>1, <2>2, BarOfCurrent
<1> QED BY <1>2, <1>3

(* A step that changes the file f, or no file *)
LEMMA OthersKept ==
  ASSUME IndInv, NEW f \in Files, Shape', KnownPast', BarOK', now' >= now,
         \A g \in Files \ {f} : Frame(g), FileOK(f)'
  PROVE  IndInv'
<1>1. Typed /\ now' \in Nat
  BY DEF IndInv, Shape, Typed, FilesTyped
<1>2. ASSUME NEW g \in Files \ {f} PROVE FileOK(g)'
  <2>1. FileOK(g)
    BY DEF IndInv
  <2> QED BY <1>1, <2>1, FrameKeeps
<1> QED BY <1>2 DEF IndInv

(* ... and one that changes no file *)
LEMMA AllKept ==
  ASSUME IndInv, Shape', KnownPast', BarOK', now' >= now, \A g \in Files : Frame(g)
  PROVE  IndInv'
<1>1. Typed /\ now' \in Nat
  BY DEF IndInv, Shape, Typed, FilesTyped
<1>2. ASSUME NEW g \in Files PROVE FileOK(g)'
  <2>1. FileOK(g)
    BY DEF IndInv
  <2> QED BY <1>1, <2>1, FrameKeeps
<1> QED BY <1>2 DEF IndInv

(* A page that stays what it is, or is closed *)
LEMMA StaysFrame ==
  ASSUME IndInv, NEW g \in Files, now' >= now, now' \in Nat,
         disk'[g] = disk[g], backup'[g] = backup[g], loaded'[g] = loaded[g],
         unseen'[g] \in {"seen", unseen[g]},
         At("stat", g)' => At("stat", g),
         autosave'[g] = Missing \/ autosave'[g] = autosave[g],
         page'[g] # Closed =>
           /\ page'[g] = page[g]
           /\ synced'[g] = synced[g] /\ rewound'[g] = rewound[g]
           /\ autosave'[g] = autosave[g] /\ (orphan'[g] => orphan[g])
           /\ At("stat", g) => At("stat", g)'
           /\ At("write", g)' => At("write", g)
           /\ Saving(g)' /\ Exists(disk[g]) => Saving(g) \/ unseen'[g] # "idle"
  PROVE  Frame(g)
<1>1. /\ now \in Nat /\ autosave[g].mtime \in Nat /\ autosave[g].mtime <= now
      /\ g \in Open <=> page[g] # Closed
      /\ Real(autosave[g])
  BY FileTypes DEF IndInv, Shape, FileOK, StoredOf
<1>2. autosave'[g].mtime \in Nat /\ autosave'[g].mtime <= now' /\ Real(autosave'[g])
  <2>1. CASE autosave'[g] = Missing
    BY <2>1 DEF Missing, Real, Exists
  <2>2. CASE autosave'[g] = autosave[g]
    BY <1>1, <2>2
  <2> QED BY <2>1, <2>2
<1> QED BY <1>1, <1>2 DEF Frame, Same

(* The invariant holds before any page is open. *)
LEMMA InitInv == Init => IndInv
<1> SUFFICES ASSUME Init PROVE IndInv
  OBVIOUS
<1>1. Shape
  BY InitShape
<1>2. KnownPast
  BY DEF Init, KnownPast, Idle
<1>3. now \in Nat /\ page_current \notin Files /\ Open = {} /\ bar.current = 0
  BY ClockAssumption, NamesAssumption DEF Init, Open, NoBar
<1>4. BarOK
  BY <1>3 DEF Init, BarOK, BarPast, BarFresh, BarOfPage
<1>5. ASSUME NEW f \in Files PROVE FileOK(f)
  <2>1. f \notin Open
    BY <1>3
  <2>2. disk[f] = Missing \/ disk[f].mtime = now
    BY DEF Init
  <2>3. StoredOf(f)
    <3>1. Real(disk[f])
      BY DEF Init, Real, Exists, Missing
    <3> QED BY <1>3, <2>1, <2>2, <3>1 DEF Init, StoredOf, Missing, Real, Exists
  <2>4. SeenOf(f) /\ UndoOf(f) /\ BackupOf(f) /\ OrphanOf(f)
    BY <2>1 DEF Init, SeenOf, Unseen, UndoOf, BackupOf, OrphanOf
  <2>5. LoadedOf(f)
    <3>1. ~Exists(disk[f]) => disk[f].content = NONE
      BY <1>3, <2>2, ClockAssumption DEF Init, Exists, Missing
    <3>2. loaded[f] = NONE
      BY DEF Init
    <3> QED BY <3>1, <3>2 DEF LoadedOf
  <2> QED BY <2>3, <2>4, <2>5 DEF FileOK
<1> QED BY <1>1, <1>2, <1>4, <1>5 DEF IndInv

(* Delivering an event makes the bar agree with the disk again. *)
LEMMA FamEventInv == IndInv /\ FamEvent => IndInv'
<1> SUFFICES ASSUME IndInv, FamEvent PROVE IndInv'
  OBVIOUS
<1>1. Shape'
  BY FamEventShape DEF IndInv
<1>2. /\ pc' = pc /\ page' = page /\ now' = now /\ disk' = disk /\ backup' = backup
      /\ autosave' = autosave /\ page_current' = page_current /\ loaded' = loaded
      /\ unseen' = unseen /\ synced' = synced /\ rewound' = rewound /\ orphan' = orphan
  BY DEF FamEvent, files, ghosts
<1>3. now \in Nat /\ bar.path = page_current
  BY DEF IndInv, Shape, Where, Typed, FilesTyped
<1>4. bar' = [bar EXCEPT !.current = IF bar.path = Untitled THEN 0 ELSE disk[bar.path].mtime]
  BY DEF FamEvent, Noticed
<1>5. /\ bar'.current = IF page_current = Untitled THEN 0 ELSE disk[page_current].mtime
      /\ bar'.known = bar.known /\ bar'.revert = bar.revert
  BY <1>3, <1>4 DEF IndInv, Shape, Typed, WindowTyped
<1>6. page_current \in Files \cup {Untitled}
  BY DEF IndInv, Shape, Typed, WindowTyped
<1>7. BarOK'
  <2>1. CASE page_current = Untitled
    BY <1>2, <1>3, <1>5, <2>1, NamesAssumption
    DEF BarOK, BarPast, BarFresh, BarOfPage, Open
  <2>2. CASE page_current \in Files
    <3>1. disk[page_current].mtime \in Nat /\ disk[page_current].mtime <= now
      BY <2>2, FileTypes DEF IndInv, Shape, FileOK, StoredOf
    <3>2. bar'.current = disk[page_current].mtime
      BY <1>5, <2>2, NamesAssumption
    <3>3. BarPast' /\ BarFresh'
      BY <1>2, <1>3, <3>1, <3>2 DEF BarPast, BarFresh
    <3>4. BarOfPage'
      BY <1>2, <1>5 DEF IndInv, BarOK, BarOfPage, Open
    <3> QED BY <3>3, <3>4 DEF BarOK
  <2> QED BY <1>6, <2>1, <2>2
<1>8. KnownPast'
  BY <1>2 DEF IndInv, KnownPast
<1>9. \A g \in Files : Frame(g)
  BY <1>2, <1>3, StaysFrame DEF At, Saving
<1> QED BY <1>1, <1>2, <1>3, <1>7, <1>8, <1>9, AllKept

(* The autosave timer touches no field the invariant is about. *)
LEMMA TimerInv == IndInv /\ Timer => IndInv'
<1> SUFFICES ASSUME IndInv, Timer PROVE IndInv'
  OBVIOUS
<1>1. Shape'
  BY TimerShape DEF IndInv
<1>2. /\ pc' = pc /\ now' = now /\ disk' = disk /\ backup' = backup /\ event' = event
      /\ autosave' = autosave /\ page_current' = page_current /\ loaded' = loaded /\ bar' = bar
      /\ unseen' = unseen /\ synced' = synced /\ rewound' = rewound /\ orphan' = orphan
  BY DEF Timer, files, ghosts, window
<1>3. now \in Nat /\ Typed
  BY DEF IndInv, Shape, Typed, FilesTyped
<1>4. ASSUME NEW g \in Files
      PROVE  /\ g \in Open' <=> g \in Open
             /\ g \in Open => Same(page[g], page'[g]) /\ page'[g].ops = page[g].ops
  <2>1. CASE g \in Open /\ page[g].ops
    <3>1. page[g] \in Page /\ PageOK(page[g])
      BY <1>3, <2>1, FileTypes
    <3>2. page'[g] = [page[g] EXCEPT !.do_autosave_backup = TRUE]
      BY <2>1 DEF Timer
    <3>3. Same(page[g], page'[g]) /\ page'[g].ops = page[g].ops
      BY <3>1, <3>2 DEF Page, Same
    <3>4. page'[g] # Closed
      <4>1. PageOK(page'[g])
        BY <1>1 DEF Shape, Typed, PagesTyped
      <4>2. page'[g].at # 0
        BY <2>1, <3>1, <3>3, OpenPage DEF Same, Open
      <4> QED BY <4>1, <4>2, OpenPage
    <3> QED BY <2>1, <3>3, <3>4 DEF Open
  <2>2. CASE ~(g \in Open /\ page[g].ops)
    BY <2>2 DEF Timer, Open, Same
  <2> QED BY <2>1, <2>2
<1>5. BarOK'
  <2>1. page_current \in Open' => page_current \in Files
    BY DEF Open
  <2> QED BY <1>2, <1>3, <1>4, <2>1, BarFrame DEF IndInv
<1>6. KnownPast'
  BY <1>2 DEF IndInv, KnownPast
<1>7. ASSUME NEW g \in Files PROVE Frame(g)
  <2>1. autosave[g].mtime \in Nat /\ autosave[g].mtime <= now /\ Real(autosave[g])
    BY <1>3, FileTypes DEF IndInv, FileOK, StoredOf
  <2>2. page'[g] # Closed <=> g \in Open
    BY <1>4 DEF Open
  <2> QED BY <1>2, <1>4, <2>1, <2>2 DEF Frame, At, Saving
<1> QED BY <1>1, <1>2, <1>3, <1>5, <1>6, <1>7, AllKept

(* What of the shape is left to show for a step that only moves the editor *)
LEMMA SameFiles ==
  ASSUME Shape, files' = files, page' = page, ghosts' = ghosts
  PROVE  /\ FilesTyped' /\ PagesTyped' /\ GhostsTyped' /\ Open' = Open
         /\ now' = now /\ now \in Nat /\ disk' = disk
BY DEF Shape, Typed, files, ghosts, FilesTyped, PagesTyped, GhostsTyped, Open

(* A save that fails leaves the backup it may have made: nothing else is
   known of loaded but that it is there.                                    *)
LEMMA SaveFailsInv == IndInv /\ SaveFails => IndInv'
<1> SUFFICES ASSUME IndInv, SaveFails PROVE IndInv'
  OBVIOUS
<1>1. pc' = Idle /\ files' = files /\ page' = page /\ window' = window /\ ghosts' = ghosts
  BY DEF SaveFails
<1>2. /\ FilesTyped' /\ PagesTyped' /\ GhostsTyped' /\ Open' = Open
      /\ now' = now /\ now \in Nat /\ disk' = disk
  BY <1>1, SameFiles DEF IndInv
<1>3. pc'.step = "idle" /\ pc' \in Steps /\ pc.step \in {"rename", "write"}
  BY <1>1 DEF Steps, Idle, SaveFails
<1>4. WindowTyped' /\ page_current' = page_current /\ bar' = bar /\ event' = event
  BY <1>1 DEF IndInv, Shape, Typed, WindowTyped, window
<1>5. Where'
  BY <1>2, <1>3, <1>4 DEF IndInv, Shape, Where
<1>6. BarOK'
  BY <1>1, <1>2, <1>4, BarFrame DEF IndInv, Shape, Same
<1>7. KnownPast'
  BY <1>3 DEF KnownPast
<1>8. ASSUME NEW g \in Files PROVE Frame(g)
  <2>1. ~At("stat", g) /\ ~At("stat", g)' /\ ~At("write", g)' /\ ~Saving(g)'
    BY <1>3 DEF At, Saving
  <2> QED BY <1>1, <1>2, <2>1, StaysFrame DEF files, ghosts
<1>9. Shape'
  BY <1>2, <1>3, <1>4, <1>5 DEF Shape, Typed
<1> QED BY <1>2, <1>6, <1>7, <1>8, <1>9, AllKept

(* Between the two steps of opening there is no page yet; the time it will
   get has passed.                                                          *)
LEMMA OpenFileInv == ASSUME IndInv, NEW f \in Files, OpenFile(f) PROVE IndInv'
<1>1. /\ pc' = [step |-> "read", file |-> f, known |-> disk[f].mtime]
      /\ files' = files /\ page' = page /\ window' = window /\ ghosts' = ghosts
      /\ pc = Idle /\ f \notin Open
  BY DEF OpenFile
<1>2. /\ FilesTyped' /\ PagesTyped' /\ GhostsTyped' /\ Open' = Open
      /\ now' = now /\ now \in Nat /\ disk' = disk
  BY <1>1, SameFiles DEF IndInv
<1>3. disk[f].mtime \in Nat /\ disk[f].mtime <= now
  BY FileTypes DEF IndInv, Shape, FileOK, StoredOf
<1>4. pc'.step = "read" /\ pc'.file = f /\ pc'.known = disk[f].mtime /\ pc.step = "idle"
  BY <1>1 DEF Idle
<1>5. pc' \in Steps
  BY <1>1, <1>3 DEF Steps
<1>6. WindowTyped' /\ page_current' = page_current /\ bar' = bar /\ event' = event
  BY <1>1 DEF IndInv, Shape, Typed, WindowTyped, window
<1>7. Where'
  BY <1>1, <1>2, <1>4, <1>6 DEF IndInv, Shape, Where
<1>8. BarOK'
  BY <1>1, <1>2, <1>6, BarFrame DEF IndInv, Shape, Same
<1>9. KnownPast'
  BY <1>2, <1>3, <1>4 DEF KnownPast
<1>10. ASSUME NEW g \in Files PROVE Frame(g)
  <2>1. ~At("stat", g) /\ ~At("stat", g)' /\ ~At("write", g)' /\ ~Saving(g)'
    BY <1>4 DEF At, Saving
  <2> QED BY <1>1, <1>2, <2>1, StaysFrame DEF files, ghosts
<1>11. Shape'
  BY <1>2, <1>5, <1>6, <1>7 DEF Shape, Typed
<1> QED BY <1>2, <1>8, <1>9, <1>10, <1>11, AllKept

(* Beginning a save only marks a foreign change as seen if the user was told. *)
LEMMA SaveFileInv ==
  ASSUME IndInv, NEW f \in Files, NEW closing \in BOOLEAN, SaveFile(f, closing)
  PROVE  IndInv'
<1>1. /\ pc' = [step |-> "rename", file |-> f, closing |-> closing]
      /\ files' = files /\ page' = page /\ window' = window
      /\ synced' = synced /\ rewound' = rewound /\ loaded' = loaded /\ orphan' = orphan
      /\ pc = Idle /\ f \in Open
  BY DEF SaveFile
<1>2. unseen' = [unseen EXCEPT ![f] = IF file_changed_since(f) THEN "seen" ELSE unseen[f]]
  BY DEF SaveFile
<1>3. /\ FilesTyped' /\ PagesTyped' /\ Open' = Open
      /\ now' = now /\ now \in Nat /\ disk' = disk /\ autosave' = autosave /\ backup' = backup
  BY <1>1 DEF IndInv, Shape, Typed, files, FilesTyped, PagesTyped, Open
<1>4. unseen \in [Files -> Arrivals]
  BY DEF IndInv, Shape, Typed, GhostsTyped
<1>5. /\ unseen' \in [Files -> Arrivals]
      /\ unseen'[f] = IF file_changed_since(f) THEN "seen" ELSE unseen[f]
      /\ \A g \in Files \ {f} : unseen'[g] = unseen[g]
  BY <1>2, <1>4 DEF Arrivals
<1>6. GhostsTyped'
  BY <1>1, <1>5 DEF IndInv, Shape, Typed, GhostsTyped
<1>7. pc'.step = "rename" /\ pc'.file = f /\ pc.step = "idle" /\ pc' \in Steps
  BY <1>1 DEF Steps, Idle
<1>8. WindowTyped' /\ page_current' = page_current /\ bar' = bar /\ event' = event
  BY <1>1 DEF IndInv, Shape, Typed, WindowTyped, window
<1>9. Where'
  BY <1>1, <1>3, <1>7, <1>8 DEF IndInv, Shape, Where
<1>10. BarOK'
  BY <1>1, <1>3, <1>8, BarFrame DEF IndInv, Shape, Same
<1>11. KnownPast'
  BY <1>7 DEF KnownPast
<1>12. ASSUME NEW g \in Files PROVE Frame(g)
  <2>1. ~At("stat", g) /\ ~At("stat", g)' /\ ~At("write", g)'
    BY <1>7 DEF At
  <2>2. unseen'[g] \in {"seen", unseen[g]}
    BY <1>5
  <2>3. Saving(g)' /\ Exists(disk[g]) => unseen'[g] # "idle"
    <3>1. CASE g = f
      <4>1. SeenOf(f)
        BY DEF IndInv, FileOK
      <4> QED BY <1>1, <1>5, <3>1, <4>1 DEF SeenOf, Unseen
    <3>2. CASE g # f
      BY <1>7, <3>2 DEF Saving
    <3> QED BY <3>1, <3>2
  <2> QED BY <1>1, <1>3, <2>1, <2>2, <2>3, StaysFrame
<1>13. Shape'
  BY <1>3, <1>6, <1>7, <1>8, <1>9 DEF Shape, Typed
<1> QED BY <1>3, <1>10, <1>11, <1>12, <1>13, AllKept

(* The bar of another page is made anew. *)
LEMMA SwitchPageInv ==
  ASSUME IndInv, NEW q \in Files \cup {Untitled}, SwitchPage(q)
  PROVE  IndInv'
<1>1. /\ pc' = pc /\ pc = Idle /\ files' = files /\ page' = page /\ ghosts' = ghosts
      /\ q \in Open \cup {Untitled} /\ SetCurrent(q)
  BY DEF SwitchPage
<1>2. /\ FilesTyped' /\ PagesTyped' /\ GhostsTyped' /\ Open' = Open
      /\ now' = now /\ now \in Nat /\ disk' = disk
  BY <1>1, SameFiles DEF IndInv
<1>3. BarOK' /\ bar'.path = q /\ page_current' = q /\ WindowTyped'
  <2>1. q # Untitled => page'[q] # Closed
    BY <1>1 DEF Open
  <2>2. \A f \in Files : disk[f].mtime <= now
    BY DEF IndInv, FileOK, StoredOf
  <2> QED BY <1>1, <1>2, <2>1, <2>2, BarOfWindow DEF IndInv, Shape, Where
<1>4. pc.step = "idle" /\ pc \in Steps
  BY <1>1 DEF Steps, Idle
<1>5. Shape'
  <2>1. Where'
    BY <1>1, <1>2, <1>3, <1>4 DEF Where
  <2> QED BY <1>1, <1>2, <1>3, <1>4, <2>1 DEF Shape, Typed
<1>6. KnownPast'
  BY <1>1, <1>4 DEF KnownPast
<1>7. \A g \in Files : Frame(g)
  BY <1>1, <1>2, StaysFrame DEF files, ghosts, At, Saving
<1> QED BY <1>2, <1>3, <1>5, <1>6, <1>7, AllKept

(* After a crash no page is open, and all that is left is on disk. *)
LEMMA CrashInv == IndInv /\ Crash => IndInv'
<1> SUFFICES ASSUME IndInv, Crash PROVE IndInv'
  OBVIOUS
<1>1. /\ page' = [f \in Files |-> Closed] /\ page_current' = Untitled
      /\ revertable' = FALSE /\ bar' = NoBar /\ event' = FALSE /\ pc' = Idle
      /\ files' = files /\ synced' = synced /\ rewound' = rewound
      /\ unseen' = unseen /\ loaded' = loaded
  BY DEF Crash
<1>2. /\ FilesTyped' /\ now' = now /\ now \in Nat /\ disk' = disk
      /\ autosave' = autosave /\ backup' = backup
  BY <1>1 DEF IndInv, Shape, Typed, files, FilesTyped
<1>3. PagesTyped' /\ Open' = {}
  BY <1>1 DEF PagesTyped, PageOK, Open
<1>4. WindowTyped' /\ bar'.path = Untitled /\ bar'.current = 0
  BY <1>1 DEF WindowTyped, NoBar
<1>5. pc' \in Steps /\ pc'.step = "idle"
  BY <1>1 DEF Steps, Idle
<1>6. GhostsTyped'
  <2>1. orphan' \in [Files -> BOOLEAN]
    BY Zenon DEF Crash
  <2> QED BY <1>1, <2>1 DEF IndInv, Shape, Typed, GhostsTyped
<1>7. Where'
  BY <1>1, <1>4, <1>5 DEF Where
<1>8. BarOK'
  BY <1>1, <1>2, <1>3, <1>4, NamesAssumption DEF BarOK, BarPast, BarFresh, BarOfPage
<1>9. KnownPast'
  BY <1>5 DEF KnownPast
<1>10. ASSUME NEW g \in Files PROVE Frame(g)
  <2>1. page'[g] = Closed /\ ~At("stat", g)'
    BY <1>1, <1>5 DEF At
  <2> QED BY <1>1, <1>2, <2>1, StaysFrame
<1>11. Shape'
  BY <1>2, <1>3, <1>4, <1>5, <1>6, <1>7 DEF Shape, Typed
<1> QED BY <1>2, <1>8, <1>9, <1>10, <1>11, AllKept

(* Types after a page has been closed with its autosave backup *)
LEMMA ClosedTyped ==
  ASSUME Shape, NEW f \in Files,
         page' = [page EXCEPT ![f] = Closed],
         autosave' = [autosave EXCEPT ![f] = Missing],
         orphan' = [orphan EXCEPT ![f] = FALSE]
  PROVE  /\ PagesTyped' /\ Open' = Open \ {f}
         /\ page'[f] = Closed /\ \A g \in Files \ {f} : page'[g] = page[g]
         /\ autosave' \in [Files -> Stored]
         /\ autosave'[f] = Missing /\ \A g \in Files \ {f} : autosave'[g] = autosave[g]
         /\ orphan' \in [Files -> BOOLEAN] /\ \A g \in Files : orphan'[g] => orphan[g]
<1>1. page \in [Files -> Page \cup {Closed}] /\ autosave \in [Files -> Stored]
  BY DEF Shape, Typed, PagesTyped, FilesTyped
<1>2. /\ page'[f] = Closed
      /\ \A g \in Files \ {f} : page'[g] = page[g]
  BY <1>1
<1>3. PagesTyped'
  BY PageChanges DEF Shape, Typed, PageOK
<1>4. Open' = Open \ {f}
  BY <1>2 DEF Open
<1>5. Missing \in Stored
  BY DEF Missing, Stored
<1>6. /\ autosave' \in [Files -> Stored]
      /\ autosave'[f] = Missing /\ \A g \in Files \ {f} : autosave'[g] = autosave[g]
  BY <1>1, <1>5
<1>7. orphan \in [Files -> BOOLEAN]
  BY DEF Shape, Typed, GhostsTyped
<1>8. orphan' \in [Files -> BOOLEAN] /\ \A g \in Files : orphan'[g] => orphan[g]
  BY <1>7, Zenon
<1> QED BY <1>2, <1>3, <1>4, <1>6, <1>8

(* s_page_delete: what is said of open pages does not concern f any longer. *)
LEMMA DeletePageInv ==
  ASSUME IndInv, NEW f \in Files, f \in Open, DeletePage(f),
         pc' = Idle, pc = Idle \/ At("stat", f),
         now' = now, disk' = disk, backup' = backup, unseen' = unseen, loaded' = loaded,
         synced' \in [Files -> Contents \cup {NONE}], rewound' \in [Files -> BOOLEAN],
         \A g \in Files \ {f} : synced'[g] = synced[g] /\ rewound'[g] = rewound[g]
  PROVE  IndInv'
<1>1. /\ page' = [page EXCEPT ![f] = Closed]
      /\ autosave' = [autosave EXCEPT ![f] = Missing]
      /\ orphan' = [orphan EXCEPT ![f] = FALSE]
  BY DEF DeletePage
<1>2. /\ PagesTyped' /\ Open' = Open \ {f}
      /\ page'[f] = Closed /\ \A g \in Files \ {f} : page'[g] = page[g]
      /\ autosave' \in [Files -> Stored]
      /\ autosave'[f] = Missing /\ \A g \in Files \ {f} : autosave'[g] = autosave[g]
      /\ orphan' \in [Files -> BOOLEAN] /\ \A g \in Files : orphan'[g] => orphan[g]
  BY <1>1, ClosedTyped DEF IndInv
<1>3. FilesTyped' /\ now \in Nat
  BY <1>2 DEF IndInv, Shape, Typed, FilesTyped
<1>4. GhostsTyped'
  BY <1>2 DEF IndInv, Shape, Typed, GhostsTyped
<1>5. pc' \in Steps /\ pc'.step = "idle" /\ pc.step \in {"idle", "stat"}
  BY DEF Steps, Idle, At
<1>6. WindowTyped' /\ BarOK' /\ bar'.path = page_current' /\ page_current' \in Open' \cup {Untitled}
  <2>1. bar.path = page_current
    BY DEF IndInv, Shape, Where
  <2>2. CASE page_current # f
    <3>1. page_current' = page_current /\ bar' = bar /\ event' = event /\ revertable' = revertable
      BY <2>2 DEF DeletePage, window
    <3>2. page_current' \in Open' \cup {Untitled}
      BY <1>2, <1>5, <2>2, <3>1 DEF IndInv, Shape, Where
    <3>3. WindowTyped'
      BY <3>1 DEF IndInv, Shape, Typed, WindowTyped
    <3>4. page_current \in Open' => page_current \in Open /\ Same(page[page_current], page'[page_current])
      BY <1>2 DEF Same, Open
    <3>5. BarOK'
      BY <1>3, <3>1, <3>4, BarFrame DEF IndInv, Shape
    <3> QED BY <2>1, <3>1, <3>2, <3>3, <3>5
  <2>3. CASE page_current = f
    <3>1. PICK q \in (Open \ {f}) \cup {Untitled} : SetCurrent(q)
      BY <2>3 DEF DeletePage
    <3>2. q \in Files \cup {Untitled} /\ (q # Untitled => page'[q] # Closed)
      BY <1>2, <3>1 DEF Open
    <3>3. \A g \in Files : disk[g].mtime <= now
      BY DEF IndInv, FileOK, StoredOf
    <3>4. BarOK' /\ bar'.path = q /\ page_current' = q /\ WindowTyped'
      BY <1>2, <1>3, <2>1, <3>1, <3>2, <3>3, BarOfWindow DEF IndInv, Shape
    <3> QED BY <1>2, <3>1, <3>4
  <2> QED BY <2>2, <2>3
<1>7. Where'
  BY <1>5, <1>6 DEF Where
<1>8. KnownPast'
  BY <1>5 DEF KnownPast
<1>9. ASSUME NEW g \in Files PROVE Frame(g)
  <2>1. ~At("stat", g)' /\ ~At("write", g)' /\ (g # f => ~At("stat", g))
        /\ ~Saving(g)'
    BY <1>5 DEF At, Saving, Idle
  <2> QED BY <1>2, <1>3, <2>1, StaysFrame
<1>10. Shape'
  BY <1>2, <1>3, <1>4, <1>5, <1>6, <1>7 DEF Shape, Typed
<1> QED BY <1>3, <1>6, <1>8, <1>9, <1>10, AllKept

(* A page is closed by itself ... *)
LEMMA ClosePageInv == ASSUME IndInv, NEW f \in Files, ClosePage(f) PROVE IndInv'
<1>1. /\ pc = Idle /\ pc' = Idle /\ f \in Open /\ DeletePage(f)
      /\ now' = now /\ disk' = disk /\ backup' = backup /\ unseen' = unseen /\ loaded' = loaded
      /\ synced' = synced /\ rewound' = rewound
  BY DEF ClosePage
<1>2. synced \in [Files -> Contents \cup {NONE}] /\ rewound \in [Files -> BOOLEAN]
  BY DEF IndInv, Shape, Typed, GhostsTyped
<1> QED BY <1>1, <1>2, DeletePageInv

(* ... or to be read again: the window keeps its bar for the page that comes
   next.                                                                    *)
LEMMA RevertPageInv == ASSUME IndInv, NEW f \in Files, RevertPage(f) PROVE IndInv'
<1>1. /\ page' = [page EXCEPT ![f] = Closed]
      /\ autosave' = [autosave EXCEPT ![f] = Missing]
      /\ orphan' = [orphan EXCEPT ![f] = FALSE]
      /\ pc = Idle /\ f \in Open
      /\ pc' = [step |-> "read", file |-> f, known |-> disk[f].mtime]
      /\ now' = now /\ disk' = disk /\ backup' = backup /\ window' = window
      /\ synced' = synced /\ rewound' = rewound /\ unseen' = unseen /\ loaded' = loaded
  BY DEF RevertPage
<1>2. /\ PagesTyped' /\ Open' = Open \ {f}
      /\ page'[f] = Closed /\ \A g \in Files \ {f} : page'[g] = page[g]
      /\ autosave' \in [Files -> Stored]
      /\ autosave'[f] = Missing /\ \A g \in Files \ {f} : autosave'[g] = autosave[g]
      /\ orphan' \in [Files -> BOOLEAN] /\ \A g \in Files : orphan'[g] => orphan[g]
  BY <1>1, ClosedTyped DEF IndInv
<1>3. FilesTyped' /\ now \in Nat
  BY <1>1, <1>2 DEF IndInv, Shape, Typed, FilesTyped
<1>4. GhostsTyped'
  BY <1>1, <1>2 DEF IndInv, Shape, Typed, GhostsTyped
<1>5. disk[f].mtime \in Nat /\ disk[f].mtime <= now
  BY FileTypes DEF IndInv, Shape, FileOK, StoredOf
<1>6. /\ pc' \in Steps /\ pc'.step = "read" /\ pc'.file = f /\ pc'.known = disk[f].mtime
      /\ pc.step = "idle"
  BY <1>1, <1>5 DEF Steps, Idle
<1>7. WindowTyped' /\ page_current' = page_current /\ bar' = bar /\ event' = event
  BY <1>1 DEF IndInv, Shape, Typed, WindowTyped, window
<1>8. Where'
  BY <1>1, <1>2, <1>6, <1>7 DEF IndInv, Shape, Where
<1>9. BarOK'
  <2>1. page_current \in Open' => page_current \in Open /\ Same(page[page_current], page'[page_current])
    BY <1>2 DEF Same, Open
  <2> QED BY <1>1, <1>3, <1>7, <2>1, BarFrame DEF IndInv, Shape
<1>10. KnownPast'
  BY <1>1, <1>5, <1>6 DEF KnownPast
<1>11. ASSUME NEW g \in Files PROVE Frame(g)
  <2>1. ~At("stat", g)' /\ ~At("write", g)' /\ ~At("stat", g) /\ ~Saving(g)'
    BY <1>6 DEF At, Saving
  <2> QED BY <1>1, <1>2, <1>3, <2>1, StaysFrame
<1>12. Shape'
  BY <1>2, <1>3, <1>4, <1>6, <1>7, <1>8 DEF Shape, Typed
<1> QED BY <1>1, <1>3, <1>9, <1>10, <1>11, <1>12, AllKept

(* A failed open leaves no page, and the window shows another one if it
   showed this.                                                             *)
LEMMA ReadFailsInv == ASSUME IndInv, NEW f \in Files, ReadFails(f) PROVE IndInv'
<1>1. /\ autosave' = [autosave EXCEPT ![f] = Missing]
      /\ orphan' = [orphan EXCEPT ![f] = FALSE]
      /\ page' = page /\ pc' = Idle /\ pc.step = "read" /\ pc.file = f
      /\ now' = now /\ disk' = disk /\ backup' = backup
      /\ synced' = synced /\ rewound' = rewound /\ unseen' = unseen /\ loaded' = loaded
  BY DEF ReadFails
<1>2. f \notin Open /\ page[f] = Closed
  BY <1>1 DEF IndInv, Shape, Where, Open
<1>3. page' = [page EXCEPT ![f] = Closed]
  BY <1>1, <1>2 DEF IndInv, Shape, Typed, PagesTyped
<1>4. /\ PagesTyped' /\ Open' = Open
      /\ autosave' \in [Files -> Stored]
      /\ autosave'[f] = Missing /\ \A g \in Files \ {f} : autosave'[g] = autosave[g]
      /\ orphan' \in [Files -> BOOLEAN] /\ \A g \in Files : orphan'[g] => orphan[g]
  <2>1. Open \ {f} = Open
    BY <1>2
  <2> QED BY <1>1, <1>3, <2>1, ClosedTyped DEF IndInv
<1>5. FilesTyped' /\ now \in Nat
  BY <1>1, <1>4 DEF IndInv, Shape, Typed, FilesTyped
<1>6. GhostsTyped'
  BY <1>1, <1>4 DEF IndInv, Shape, Typed, GhostsTyped
<1>7. pc' \in Steps /\ pc'.step = "idle"
  BY <1>1 DEF Steps, Idle
<1>8. WindowTyped' /\ BarOK' /\ bar'.path = page_current' /\ page_current' \in Open' \cup {Untitled}
  <2>1. bar.path = page_current
    BY DEF IndInv, Shape, Where
  <2>2. CASE page_current \in Open \cup {Untitled}
    <3>1. page_current' = page_current /\ bar' = bar /\ event' = event /\ revertable' = revertable
      BY <2>2 DEF ReadFails, window
    <3>2. WindowTyped'
      BY <3>1 DEF IndInv, Shape, Typed, WindowTyped
    <3>3. BarOK'
      BY <1>1, <1>4, <1>5, <3>1, BarFrame DEF IndInv, Shape, Same
    <3> QED BY <1>4, <2>1, <2>2, <3>1, <3>2, <3>3
  <2>3. CASE page_current \notin Open \cup {Untitled}
    <3>1. PICK q \in Open \cup {Untitled} : SetCurrent(q)
      BY <2>3 DEF ReadFails
    <3>2. q \in Files \cup {Untitled} /\ (q # Untitled => page'[q] # Closed)
      BY <1>1, <3>1 DEF Open
    <3>3. \A g \in Files : disk[g].mtime <= now
      BY DEF IndInv, FileOK, StoredOf
    <3>4. BarOK' /\ bar'.path = q /\ page_current' = q /\ WindowTyped'
      BY <1>1, <1>4, <1>5, <2>1, <3>1, <3>2, <3>3, BarOfWindow DEF IndInv, Shape
    <3> QED BY <1>4, <3>1, <3>4
  <2> QED BY <2>2, <2>3
<1>9. Where'
  BY <1>7, <1>8 DEF Where
<1>10. KnownPast'
  BY <1>7 DEF KnownPast
<1>11. ASSUME NEW g \in Files PROVE Frame(g)
  <2>1. ~At("stat", g)' /\ ~At("write", g)' /\ ~At("stat", g) /\ ~Saving(g)'
    BY <1>1, <1>7 DEF At, Saving
  <2> QED BY <1>1, <1>2, <1>4, <1>5, <2>1, StaysFrame
<1>12. Shape'
  BY <1>4, <1>5, <1>6, <1>7, <1>8, <1>9 DEF Shape, Typed
<1> QED BY <1>1, <1>5, <1>8, <1>10, <1>11, <1>12, AllKept

-----------------------------------------------------------------------------
(* A later time is in no earlier second. *)
LEMMA SecondMonotone ==
  ASSUME NEW a \in Nat, NEW b \in Nat, a <= b
  PROVE  ~(Second(b) < Second(a))
BY ClockAssumption DEF Second

(* The file changes: what a step that leaves the pages alone may do to f *)
LEMMA FileChanges ==
  ASSUME IndInv, NEW f \in Files, page' = page, autosave' = autosave, synced' = synced,
         rewound' = rewound, orphan' = orphan, page_current' = page_current, bar' = bar,
         revertable' = revertable, now' \in Nat, now' >= now,
         disk' \in [Files -> Stored], backup' \in [Files -> Contents \cup {NONE}],
         loaded' \in [Files -> Contents \cup {NONE}], unseen' \in [Files -> Arrivals],
         \/ event' = event /\ disk'[f] = disk[f]
         \/ Touched(f) /\ (disk'[f] = Missing \/ disk'[f].mtime = now'),
         \A g \in Files \ {f} :
           /\ disk'[g] = disk[g] /\ backup'[g] = backup[g] /\ loaded'[g] = loaded[g]
           /\ unseen'[g] = unseen[g]
           /\ At("stat", g)' <=> At("stat", g)
           /\ At("write", g)' => At("write", g)
           /\ Saving(g)' => Saving(g)
  PROVE  /\ FilesTyped' /\ PagesTyped' /\ GhostsTyped' /\ WindowTyped' /\ BarOK' /\ Open' = Open
         /\ \A g \in Files \ {f} : Frame(g)
<1>1. now \in Nat /\ event \in BOOLEAN /\ bar.path = page_current
  BY DEF IndInv, Shape, Where, Typed, FilesTyped, WindowTyped
<1>2. FilesTyped' /\ PagesTyped' /\ GhostsTyped' /\ Open' = Open
  BY DEF IndInv, Shape, Typed, FilesTyped, PagesTyped, GhostsTyped, Open
<1>3. event' \in BOOLEAN
  BY <1>1, Zenon DEF Touched
<1>4. WindowTyped'
  BY <1>3 DEF IndInv, Shape, Typed, WindowTyped
<1>5. ASSUME page_current \in Files
      PROVE  \/ disk'[page_current] = disk[page_current] /\ event' = event
             \/ event' = TRUE /\ \/ ~Exists(disk'[page_current])
                                 \/ disk'[page_current].mtime = now'
  <2>1. CASE event' = event /\ disk'[f] = disk[f]
    BY <1>5, <2>1
  <2>2. CASE Touched(f) /\ (disk'[f] = Missing \/ disk'[f].mtime = now')
    <3>1. CASE page_current = f
      <4>1. event' = TRUE
        BY <1>1, <2>2, <3>1, Zenon DEF Touched
      <4>2. ~Exists(disk'[page_current]) \/ disk'[page_current].mtime = now'
        BY <2>2, <3>1 DEF Missing, Exists
      <4> QED BY <4>1, <4>2, Zenon
    <3>2. CASE page_current # f
      <4>1. event' = event
        BY <1>1, <2>2, <3>2, Zenon DEF Touched
      <4> QED BY <1>5, <3>2, <4>1
    <3> QED BY <3>1, <3>2
  <2> QED BY <2>1, <2>2
<1>6. BarOK'
  BY <1>2, <1>5, BarFrame DEF IndInv, Shape, Same
<1>7. ASSUME NEW g \in Files \ {f} PROVE Frame(g)
  BY StaysFrame
<1> QED BY <1>2, <1>4, <1>6, <1>7

(* A foreign write takes a time no page has seen; where it has found a save
   of the file is remembered.                                               *)
LEMMA WriteOutsideInv == ASSUME IndInv, NEW f \in Files, WriteOutside(f) PROVE IndInv'
<1>1. /\ now' = now + 1 /\ Touched(f)
      /\ page' = page /\ autosave' = autosave /\ synced' = synced /\ pc' = pc
      /\ rewound' = rewound /\ orphan' = orphan /\ page_current' = page_current
      /\ bar' = bar /\ revertable' = revertable /\ backup' = backup
      /\ loaded' = [loaded EXCEPT ![f] = NONE]
      /\ unseen' = [unseen EXCEPT ![f] = IF Saving(f) THEN pc.step ELSE "idle"]
  BY DEF WriteOutside
<1>2. PICK c \in Contents : disk' = [disk EXCEPT ![f] = [content |-> c, mtime |-> now']]
  BY DEF WriteOutside
<1>3. /\ now \in Nat /\ disk \in [Files -> Stored]
      /\ backup \in [Files -> Contents \cup {NONE}]
      /\ loaded \in [Files -> Contents \cup {NONE}]
  BY DEF IndInv, Shape, Typed, FilesTyped, GhostsTyped
<1>4. unseen \in [Files -> Arrivals]
  BY DEF IndInv, Shape, Typed, GhostsTyped
<1>5. [content |-> c, mtime |-> now'] \in Stored
  BY <1>1, <1>3 DEF Stored
<1>6. /\ disk' \in [Files -> Stored]
      /\ disk'[f].mtime = now' /\ disk'[f].content = c
      /\ \A g \in Files \ {f} : disk'[g] = disk[g]
  BY <1>2, <1>3, <1>5
<1>7. /\ loaded' \in [Files -> Contents \cup {NONE}] /\ loaded'[f] = NONE
      /\ \A g \in Files \ {f} : loaded'[g] = loaded[g]
  BY <1>1, <1>3
<1>8. /\ unseen' \in [Files -> Arrivals]
      /\ unseen'[f] = IF Saving(f) THEN pc.step ELSE "idle"
      /\ \A g \in Files \ {f} : unseen'[g] = unseen[g]
  <2>1. (IF Saving(f) THEN pc.step ELSE "idle") \in Arrivals
    BY DEF Saving, Arrivals
  <2> QED BY <1>1, <1>4, <2>1
<1>9. /\ FilesTyped' /\ PagesTyped' /\ GhostsTyped' /\ WindowTyped' /\ BarOK' /\ Open' = Open
      /\ \A g \in Files \ {f} : Frame(g)
  <2>1. \A g \in Files : /\ At("stat", g)' <=> At("stat", g)
                         /\ At("write", g)' => At("write", g)
                         /\ Saving(g)' => Saving(g)
    BY <1>1 DEF At, Saving
  <2>2. now' \in Nat /\ now' >= now /\ backup' \in [Files -> Contents \cup {NONE}]
    BY <1>1, <1>3
  <2> QED BY <1>1, <1>6, <1>7, <1>8, <2>1, <2>2, FileChanges
<1>10. Where' /\ KnownPast' /\ pc' \in Steps
  <2>1. Where'
    BY <1>1, <1>9 DEF IndInv, Shape, Where
  <2>2. pc.step = "read" => pc.known \in Nat
    BY StepTyped DEF IndInv, Shape, Typed
  <2>3. KnownPast'
    BY <1>1, <1>3, <2>2 DEF IndInv, KnownPast
  <2> QED BY <1>1, <2>1, <2>3 DEF IndInv, Shape, Typed
<1>11. FileOK(f)'
  <2>1. /\ f \in Open => page[f].last_modified \in Nat /\ page[f].last_modified <= now
        /\ autosave[f].mtime \in Nat /\ autosave[f].mtime <= now /\ Real(autosave[f])
    BY FileTypes DEF IndInv, Shape, FileOK, StoredOf
  <2>2. disk'[f].mtime = now + 1 /\ now + 1 # 0 /\ disk'[f].content \in Contents
    BY <1>1, <1>3, <1>6
  <2>3. StoredOf(f)'
    BY <1>1, <1>3, <1>9, <2>1, <2>2 DEF StoredOf, Real, Exists
  <2>4. SeenOf(f)'
    <3>1. f \in Open' => file_changed_since(f)'
      BY <1>1, <1>3, <1>9, <2>1, <2>2 DEF file_changed_since
    <3>2. /\ Saving(f)' => unseen'[f] # "idle"
          /\ At("stat", f)' => unseen'[f] = "stat"
      BY <1>1, <1>8 DEF Saving, At
    <3> QED BY <3>1, <3>2 DEF SeenOf
  <2>5. LoadedOf(f)'
    BY <1>7, <2>2 DEF LoadedOf, Exists
  <2>6. UndoOf(f)' /\ BackupOf(f)'
    BY <1>1, <1>9 DEF IndInv, FileOK, UndoOf, BackupOf
  <2>7. OrphanOf(f)'
    <3>1. ~(Second(now + 1) < Second(autosave[f].mtime))
      BY <1>3, <2>1, SecondMonotone
    <3> QED BY <1>1, <2>2, <3>1 DEF OrphanOf, f_has_active_autosave, Exists, Second
  <2> QED BY <2>3, <2>4, <2>5, <2>6, <2>7 DEF FileOK
<1>12. Shape'
  BY <1>9, <1>10 DEF Shape, Typed
<1> QED BY <1>1, <1>3, <1>9, <1>10, <1>11, <1>12, OthersKept

(* A file that is gone has no time and no content. *)
LEMMA DeleteOutsideInv == ASSUME IndInv, NEW f \in Files, DeleteOutside(f) PROVE IndInv'
<1>1. /\ now' = now /\ Touched(f) /\ disk' = [disk EXCEPT ![f] = Missing]
      /\ page' = page /\ autosave' = autosave /\ synced' = synced /\ pc' = pc
      /\ rewound' = rewound /\ orphan' = orphan /\ page_current' = page_current
      /\ bar' = bar /\ revertable' = revertable /\ backup' = backup
      /\ loaded' = [loaded EXCEPT ![f] = NONE]
      /\ unseen' = [unseen EXCEPT ![f] = "seen"]
  BY DEF DeleteOutside
<1>2. /\ now \in Nat /\ disk \in [Files -> Stored]
      /\ backup \in [Files -> Contents \cup {NONE}]
      /\ loaded \in [Files -> Contents \cup {NONE}]
  BY DEF IndInv, Shape, Typed, FilesTyped, GhostsTyped
<1>3. unseen \in [Files -> Arrivals]
  BY DEF IndInv, Shape, Typed, GhostsTyped
<1>4. Missing \in Stored
  BY DEF Missing, Stored
<1>5. /\ disk' \in [Files -> Stored] /\ disk'[f] = Missing
      /\ \A g \in Files \ {f} : disk'[g] = disk[g]
  BY <1>1, <1>2, <1>4
<1>6. /\ loaded' \in [Files -> Contents \cup {NONE}] /\ loaded'[f] = NONE
      /\ \A g \in Files \ {f} : loaded'[g] = loaded[g]
  BY <1>1, <1>2
<1>7. /\ unseen' \in [Files -> Arrivals] /\ ~Unseen(f)'
      /\ \A g \in Files \ {f} : unseen'[g] = unseen[g]
  BY <1>1, <1>3 DEF Arrivals, Unseen
<1>8. /\ FilesTyped' /\ PagesTyped' /\ GhostsTyped' /\ WindowTyped' /\ BarOK' /\ Open' = Open
      /\ \A g \in Files \ {f} : Frame(g)
  <2>1. \A g \in Files : /\ At("stat", g)' <=> At("stat", g)
                         /\ At("write", g)' => At("write", g)
                         /\ Saving(g)' => Saving(g)
    BY <1>1 DEF At, Saving
  <2>2. now' \in Nat /\ now' >= now /\ backup' \in [Files -> Contents \cup {NONE}]
    BY <1>1, <1>2
  <2> QED BY <1>1, <1>5, <1>6, <1>7, <2>1, <2>2, FileChanges
<1>9. Where' /\ KnownPast' /\ pc' \in Steps
  <2>1. Where'
    BY <1>1, <1>8 DEF IndInv, Shape, Where
  <2> QED BY <1>1, <2>1 DEF IndInv, Shape, Typed, KnownPast
<1>10. FileOK(f)'
  <2>1. disk'[f].mtime = 0 /\ disk'[f].content = NONE
    BY <1>5 DEF Missing
  <2>2. StoredOf(f)'
    BY <1>1, <1>2, <1>8, <2>1 DEF IndInv, FileOK, StoredOf, Real, Exists
  <2>3. SeenOf(f)'
    BY <1>7 DEF SeenOf
  <2>4. LoadedOf(f)' /\ OrphanOf(f)'
    BY <1>6, <2>1 DEF LoadedOf, OrphanOf, Exists
  <2>5. UndoOf(f)' /\ BackupOf(f)'
    BY <1>1, <1>8 DEF IndInv, FileOK, UndoOf, BackupOf
  <2> QED BY <2>2, <2>3, <2>4, <2>5 DEF FileOK
<1>11. Shape'
  BY <1>8, <1>9 DEF Shape, Typed
<1> QED BY <1>1, <1>2, <1>8, <1>9, <1>10, <1>11, OthersKept

(* o_save replaces the file: what was loaded must be in f~ by now. *)
LEMMA WriteFileInv == ASSUME IndInv, NEW f \in Files, WriteFile(f) PROVE IndInv'
<1>1. /\ now' = now + 1 /\ Touched(f)
      /\ disk' = [disk EXCEPT ![f] = [content |-> page[f].content, mtime |-> now']]
      /\ page' = page /\ autosave' = autosave /\ synced' = synced
      /\ rewound' = rewound /\ orphan' = orphan /\ page_current' = page_current
      /\ bar' = bar /\ revertable' = revertable /\ backup' = backup /\ loaded' = loaded
      /\ unseen' = [unseen EXCEPT ![f] = "seen"]
      /\ pc.step = "write" /\ pc.file = f /\ pc' = [pc EXCEPT !.step = "stat"]
  BY DEF WriteFile, StepTo
<1>2. /\ now \in Nat /\ disk \in [Files -> Stored]
      /\ backup \in [Files -> Contents \cup {NONE}]
      /\ loaded \in [Files -> Contents \cup {NONE}]
  BY DEF IndInv, Shape, Typed, FilesTyped, GhostsTyped
<1>3. unseen \in [Files -> Arrivals]
  BY DEF IndInv, Shape, Typed, GhostsTyped
<1>4. f \in Open /\ page[f].content \in Contents
  <2>1. f \in Open
    BY <1>1 DEF IndInv, Shape, Where
  <2> QED BY <2>1, FileTypes DEF IndInv, Shape, Page
<1>5. [content |-> page[f].content, mtime |-> now'] \in Stored
  <2>1. page[f] \in Page
    BY <1>4, FileTypes DEF IndInv, Shape
  <2> QED BY <1>1, <1>2, <2>1 DEF Stored, Page
<1>6. /\ disk' \in [Files -> Stored] /\ disk'[f].mtime = now'
      /\ disk'[f].content = page[f].content
      /\ \A g \in Files \ {f} : disk'[g] = disk[g]
  BY <1>1, <1>2, <1>5
<1>7. /\ unseen' \in [Files -> Arrivals] /\ ~Unseen(f)'
      /\ \A g \in Files \ {f} : unseen'[g] = unseen[g]
  BY <1>1, <1>3 DEF Arrivals, Unseen
<1>8. pc' \in Steps /\ pc'.step = "stat" /\ pc'.file = f
  BY <1>1 DEF IndInv, Shape, Typed, Steps, Idle
<1>9. /\ FilesTyped' /\ PagesTyped' /\ GhostsTyped' /\ WindowTyped' /\ BarOK' /\ Open' = Open
      /\ \A g \in Files \ {f} : Frame(g)
  <2>1. \A g \in Files \ {f} : /\ At("stat", g)' <=> At("stat", g)
                               /\ At("write", g)' => At("write", g)
                               /\ Saving(g)' => Saving(g)
    BY <1>1, <1>8 DEF At, Saving
  <2>2. now' \in Nat /\ now' >= now /\ backup' \in [Files -> Contents \cup {NONE}]
        /\ loaded' \in [Files -> Contents \cup {NONE}]
    BY <1>1, <1>2
  <2> QED BY <1>1, <1>6, <1>7, <2>1, <2>2, FileChanges
<1>10. Where' /\ KnownPast'
  BY <1>1, <1>4, <1>8, <1>9 DEF IndInv, Shape, Where, KnownPast
<1>11. FileOK(f)'
  <2>1. /\ page[f].last_modified \in Nat /\ page[f].last_modified <= now
        /\ autosave[f].mtime \in Nat /\ autosave[f].mtime <= now /\ Real(autosave[f])
    BY <1>4, FileTypes DEF IndInv, Shape, FileOK, StoredOf
  <2>2. disk'[f].mtime = now + 1 /\ now + 1 # 0
    BY <1>1, <1>2, <1>6
  <2>3. StoredOf(f)'
    BY <1>1, <1>2, <1>4, <1>6, <2>1, <2>2 DEF StoredOf, Real, Exists
  <2>4. SeenOf(f)'
    BY <1>7 DEF SeenOf
  <2>5. LoadedOf(f)'
    BY <1>1, <1>4, <1>8, <2>2 DEF IndInv, FileOK, LoadedOf, Exists, At
  <2>6. UndoOf(f)' /\ BackupOf(f)'
    BY <1>1, <1>9 DEF IndInv, FileOK, UndoOf, BackupOf
  <2>7. OrphanOf(f)'
    <3>1. ~(Second(now + 1) < Second(autosave[f].mtime))
      BY <1>2, <2>1, SecondMonotone
    <3> QED BY <1>1, <2>2, <3>1 DEF OrphanOf, f_has_active_autosave, Exists, Second
  <2> QED BY <2>3, <2>4, <2>5, <2>6, <2>7 DEF FileOK
<1>12. Shape'
  BY <1>8, <1>9, <1>10 DEF Shape, Typed
<1> QED BY <1>1, <1>2, <1>9, <1>10, <1>11, <1>12, OthersKept

(* After the rename what was loaded is in f~, whether the rename was done,
   failed, or was not due.                                                  *)
LEMMA RenameFileInv == ASSUME IndInv, NEW f \in Files, RenameFile(f) PROVE IndInv'
<1>1. /\ now' = now
      /\ page' = page /\ autosave' = autosave /\ synced' = synced
      /\ rewound' = rewound /\ orphan' = orphan /\ page_current' = page_current
      /\ bar' = bar /\ revertable' = revertable /\ unseen' = unseen
      /\ pc.step = "rename" /\ pc.file = f /\ pc' = [pc EXCEPT !.step = "write"]
  BY DEF RenameFile, StepTo
<1>2. /\ now \in Nat /\ disk \in [Files -> Stored]
      /\ backup \in [Files -> Contents \cup {NONE}]
      /\ loaded \in [Files -> Contents \cup {NONE}]
      /\ disk[f].mtime \in Nat /\ disk[f].content \in Contents \cup {NONE}
  BY FileTypes DEF IndInv, Shape, Typed, FilesTyped, GhostsTyped
<1>3. unseen \in [Files -> Arrivals]
  BY DEF IndInv, Shape, Typed, GhostsTyped
<1>4. f \in Open
  BY <1>1 DEF IndInv, Shape, Where
<1>5. pc' \in Steps /\ pc'.step = "write" /\ pc'.file = f
  BY <1>1 DEF IndInv, Shape, Typed, Steps, Idle
<1>6. Missing \in Stored /\ Missing.mtime = 0 /\ Missing.content = NONE
  BY DEF Missing, Stored
<1> DEFINE done    == /\ NeedsBackup(f) /\ Touched(f) /\ loaded' = loaded
                      /\ backup' = [backup EXCEPT ![f] = disk[f].content]
                      /\ disk' = [disk EXCEPT ![f] = Missing]
           failed  == /\ NeedsBackup(f) /\ loaded' = [loaded EXCEPT ![f] = NONE]
                      /\ backup' = backup /\ disk' = disk /\ event' = event
           skipped == /\ ~NeedsBackup(f) /\ loaded' = loaded
                      /\ backup' = backup /\ disk' = disk /\ event' = event
<1>7. done \/ failed \/ skipped
  BY DEF RenameFile
<1>8. \A g \in Files \ {f} : /\ At("stat", g)' <=> At("stat", g)
                             /\ At("write", g)' => At("write", g)
                             /\ Saving(g)' => Saving(g)
  BY <1>1, <1>5 DEF At, Saving
<1>9. /\ FilesTyped' /\ PagesTyped' /\ GhostsTyped' /\ WindowTyped' /\ BarOK' /\ Open' = Open
      /\ \A g \in Files \ {f} : Frame(g)
  <2>1. CASE done
    <3>1. /\ backup' \in [Files -> Contents \cup {NONE}]
          /\ \A g \in Files \ {f} : backup'[g] = backup[g]
      BY <1>2, <2>1
    <3>2. /\ disk' \in [Files -> Stored] /\ disk'[f] = Missing
          /\ \A g \in Files \ {f} : disk'[g] = disk[g]
      BY <1>2, <1>6, <2>1
    <3> QED BY <1>1, <1>2, <1>3, <1>8, <2>1, <3>1, <3>2, FileChanges
  <2>2. CASE failed
    <3>1. /\ loaded' \in [Files -> Contents \cup {NONE}]
          /\ \A g \in Files \ {f} : loaded'[g] = loaded[g]
      BY <1>2, <2>2
    <3> QED BY <1>1, <1>2, <1>3, <1>8, <2>2, <3>1, FileChanges
  <2>3. CASE skipped
    BY <1>1, <1>2, <1>3, <1>8, <2>3, FileChanges
  <2> QED BY <1>7, <2>1, <2>2, <2>3
<1>10. Where' /\ KnownPast'
  BY <1>1, <1>4, <1>5, <1>9 DEF IndInv, Shape, Where, KnownPast
<1>11. FileOK(f)'
  <2>1. /\ page[f].last_modified \in Nat /\ page[f].last_modified <= now
        /\ autosave[f].mtime \in Nat /\ autosave[f].mtime <= now /\ Real(autosave[f])
        /\ disk[f].mtime <= now
    BY <1>4, FileTypes DEF IndInv, Shape, FileOK, StoredOf
  <2>2. /\ ~At("stat", f)' /\ ~At("stat", f) /\ ~At("write", f)
        /\ Saving(f)
    BY <1>1, <1>5 DEF At, Saving
  <2>3. UndoOf(f)' /\ BackupOf(f)'
    BY <1>1, <1>9 DEF IndInv, FileOK, UndoOf, BackupOf
  <2>4. CASE done
    <3>1. disk'[f].mtime = 0 /\ disk'[f].content = NONE /\ backup'[f] = disk[f].content
      BY <1>2, <1>6, <2>4
    <3>2. StoredOf(f)' /\ SeenOf(f)' /\ OrphanOf(f)'
      BY <1>1, <1>2, <2>1, <2>2, <3>1 DEF StoredOf, SeenOf, OrphanOf, Real, Exists
    <3>3. LoadedOf(f)'
      BY <1>4, <2>2, <2>4, <3>1 DEF IndInv, FileOK, LoadedOf, Exists, NeedsBackup
    <3> QED BY <2>3, <3>2, <3>3 DEF FileOK
  <2>5. CASE failed
    <3>1. loaded'[f] = NONE /\ disk' = disk
      BY <1>2, <2>5
    <3>2. StoredOf(f)' /\ SeenOf(f)' /\ OrphanOf(f)'
      BY <1>1, <1>9, <2>2, <3>1
      DEF IndInv, FileOK, StoredOf, SeenOf, Unseen, OrphanOf, f_has_active_autosave, file_changed_since
    <3>3. LoadedOf(f)'
      BY <3>1 DEF IndInv, FileOK, LoadedOf
    <3> QED BY <2>3, <3>2, <3>3 DEF FileOK
  <2>6. CASE skipped
    <3>1. StoredOf(f)' /\ SeenOf(f)' /\ OrphanOf(f)'
      BY <1>1, <1>9, <2>2, <2>6
      DEF IndInv, FileOK, StoredOf, SeenOf, Unseen, OrphanOf, f_has_active_autosave, file_changed_since
    <3>2. LoadedOf(f)'
      BY <1>1, <1>9, <2>2, <2>6 DEF IndInv, FileOK, LoadedOf, NeedsBackup, Exists
    <3> QED BY <2>3, <3>1, <3>2 DEF FileOK
  <2> QED BY <1>7, <2>4, <2>5, <2>6
<1>12. Shape'
  BY <1>5, <1>9, <1>10 DEF Shape, Typed
<1> QED BY <1>1, <1>2, <1>9, <1>10, <1>11, <1>12, OthersKept

-----------------------------------------------------------------------------
(* One open page changes, on its own *)
LEMMA OnePage ==
  ASSUME IndInv, NEW f \in Files, f \in Open, NEW q \in Page, q.at \in DOMAIN q.undo,
         page' = [page EXCEPT ![f] = q]
  PROVE  /\ PagesTyped' /\ Open' = Open /\ page'[f] = q /\ PageOK(q) /\ q # Closed
         /\ \A g \in Files \ {f} : page'[g] = page[g]
<1>1. PageOK(q) /\ q # Closed
  <2>1. PageOK(q)
    BY DEF PageOK
  <2>2. q.at # 0
    BY DEF Page
  <2> QED BY <2>1, <2>2, OpenPage
<1>2. page \in [Files -> Page \cup {Closed}]
  BY DEF IndInv, Shape, Typed, PagesTyped
<1>3. page'[f] = q /\ \A g \in Files \ {f} : page'[g] = page[g]
  BY <1>2
<1>4. PagesTyped'
  BY <1>1, PageChanges DEF IndInv, Shape, Typed
<1>5. Open' = Open
  BY <1>1, <1>3 DEF Open
<1> QED BY <1>1, <1>3, <1>4, <1>5

(* ... while it is the current one and the bar is updated, as it always is *)
LEMMA CurrentPage ==
  ASSUME IndInv, NEW f \in Files, f \in Open, page_current = f, page_current' = f,
         PagesTyped', Open' = Open, ShowBar(f, page'[f]),
         revertable' \in BOOLEAN, disk' = disk, now' \in Nat, now' >= now
  PROVE  BarOK' /\ bar'.path = page_current' /\ WindowTyped'
<1>1. PageOK(page'[f]) /\ page'[f] # Closed /\ page'[f] \in Page
  BY DEF PagesTyped, PageOK, Open
<1>2. disk[f].mtime <= now
  BY DEF IndInv, FileOK, StoredOf
<1>3. BarOK' /\ bar'.path = f
  BY <1>1, <1>2, BarOfCurrent DEF IndInv, Shape, Where
<1>4. WindowTyped'
  BY <1>1, BarTyped DEF IndInv, Shape, WindowTyped
<1> QED BY <1>3, <1>4

(* Undo and redo bring back an entry of the list, with its CHANGED flag. *)
LEMMA UndoRedoInv == ASSUME IndInv, NEW f \in Files, UndoRedo(f) PROVE IndInv'
<1>1. /\ pc = Idle /\ pc' = pc /\ page_current = f /\ page_current' = f
      /\ ShowBar(f, page'[f]) /\ rewound' = [rewound EXCEPT ![f] = TRUE]
      /\ files' = files /\ revertable' = revertable /\ synced' = synced
      /\ unseen' = unseen /\ loaded' = loaded /\ orphan' = orphan
  BY DEF UndoRedo
<1>2. f \in Open /\ pc.step = "idle"
  BY <1>1, NamesAssumption DEF IndInv, Shape, Where, Idle
<1> DEFINE p == page[f]
           q(i) == [p EXCEPT !.content = p.undo[i].content,
                             !.CHANGED = p.undo[i].CHANGED, !.at = i]
<1>3. PICK i \in DOMAIN p.undo : page' = [page EXCEPT ![f] = q(i)]
  BY DEF UndoRedo
<1>4. p \in Page /\ p.at \in DOMAIN p.undo
  BY <1>2, FileTypes DEF IndInv, Shape
<1>5. p.undo \in Seq(Entry) /\ i \in Nat /\ p.undo[i] \in Entry
  BY <1>3, <1>4 DEF Page
<1>6. /\ q(i) \in Page /\ q(i).content = p.undo[i].content
      /\ q(i).CHANGED = p.undo[i].CHANGED /\ q(i).at = i /\ q(i).undo = p.undo
      /\ q(i).last_modified = p.last_modified
      /\ q(i).saved_since_first_loaded = p.saved_since_first_loaded
  <2> HIDE DEF p
  <2> DEFINE c == p.undo[i].content
             b == p.undo[i].CHANGED
             r1 == [p EXCEPT !.content = c]
             r2 == [r1 EXCEPT !.CHANGED = b]
             r3 == [r2 EXCEPT !.at = i]
  <2>1. c \in Contents /\ b \in BOOLEAN
    BY <1>5 DEF Entry
  <2>2. q(i) = r3
    OBVIOUS
  <2> HIDE DEF c, b, q
  <2>3. /\ r1 \in Page /\ r1.content = c /\ r1.undo = p.undo
        /\ r1.last_modified = p.last_modified
        /\ r1.saved_since_first_loaded = p.saved_since_first_loaded
    BY <1>4, <2>1 DEF Page
  <2> HIDE DEF r1
  <2>4. /\ r2 \in Page /\ r2.content = c /\ r2.undo = p.undo /\ r2.CHANGED = b
        /\ r2.last_modified = p.last_modified
        /\ r2.saved_since_first_loaded = p.saved_since_first_loaded
    BY <2>1, <2>3 DEF Page
  <2> HIDE DEF r2
  <2>5. /\ r3 \in Page /\ r3.content = c /\ r3.undo = p.undo /\ r3.CHANGED = b /\ r3.at = i
        /\ r3.last_modified = p.last_modified
        /\ r3.saved_since_first_loaded = p.saved_since_first_loaded
    BY <1>5, <2>4 DEF Page
  <2> HIDE DEF r3
  <2> QED BY <2>2, <2>5 DEF c, b
<1> HIDE DEF q
<1>7. /\ PagesTyped' /\ Open' = Open /\ page'[f] = q(i)
      /\ \A g \in Files \ {f} : page'[g] = page[g]
  BY <1>2, <1>3, <1>6, OnePage
<1>8. /\ FilesTyped' /\ now' = now /\ now \in Nat /\ disk' = disk
      /\ autosave' = autosave /\ backup' = backup
  BY <1>1 DEF IndInv, Shape, Typed, files, FilesTyped
<1>9. /\ GhostsTyped' /\ rewound'[f]
      /\ \A g \in Files \ {f} : rewound'[g] = rewound[g]
  <2>1. rewound \in [Files -> BOOLEAN]
    BY DEF IndInv, Shape, Typed, GhostsTyped
  <2>2. rewound' \in [Files -> BOOLEAN] /\ rewound'[f]
    BY <1>1, <2>1, Zenon
  <2>3. \A g \in Files \ {f} : rewound'[g] = rewound[g]
    BY <1>1, <2>1
  <2> QED BY <1>1, <2>2, <2>3 DEF IndInv, Shape, Typed, GhostsTyped
<1>10. BarOK' /\ bar'.path = page_current' /\ WindowTyped'
  <2>1. revertable' \in BOOLEAN
    BY <1>1 DEF IndInv, Shape, Typed, WindowTyped
  <2> QED BY <1>1, <1>2, <1>7, <1>8, <2>1, CurrentPage
<1>11. Shape'
  <2>1. Where'
    BY <1>1, <1>2, <1>7, <1>10 DEF Where
  <2> QED BY <1>1, <1>7, <1>8, <1>9, <1>10, <2>1 DEF IndInv, Shape, Typed
<1>12. KnownPast'
  BY <1>1, <1>2 DEF KnownPast
<1>13. FileOK(f)'
  <2>1. /\ StoredOf(f)' /\ SeenOf(f)' /\ LoadedOf(f)'
    BY <1>1, <1>2, <1>6, <1>7, <1>8
    DEF IndInv, FileOK, StoredOf, SeenOf, Unseen, Saving, LoadedOf, file_changed_since, Exists, At
  <2>2. UndoOf(f)'
    BY <1>1, <1>2, <1>3, <1>6, <1>7 DEF IndInv, FileOK, UndoOf
  <2>3. BackupOf(f)'
    BY <1>9 DEF BackupOf
  <2>4. OrphanOf(f)'
    BY <1>1, <1>7, <1>8 DEF IndInv, FileOK, OrphanOf, f_has_active_autosave
  <2> QED BY <2>1, <2>2, <2>3, <2>4 DEF FileOK
<1>14. ASSUME NEW g \in Files \ {f} PROVE Frame(g)
  <2>1. (At("stat", g)' <=> At("stat", g)) /\ (At("write", g)' <=> At("write", g))
        /\ (Saving(g)' <=> Saving(g))
    BY <1>1 DEF At, Saving
  <2>2. now' \in Nat /\ now' >= now
    BY <1>8
  <2> QED BY <1>1, <1>7, <1>8, <1>9, <2>1, <2>2, StaysFrame
<1> QED BY <1>8, <1>10, <1>11, <1>12, <1>13, <1>14, OthersKept

(* Dismissing the bar accepts the version the bar has told of, which is never
   newer than the one on disk.                                              *)
LEMMA DismissBarInv == ASSUME IndInv, NEW f \in Files, DismissBar(f) PROVE IndInv'
<1>1. /\ pc = Idle /\ pc' = pc /\ page_current = f /\ page_current' = f
      /\ page' = [page EXCEPT ![f].last_modified = bar.current]
      /\ ShowBar(f, page'[f])
      /\ unseen' = [unseen EXCEPT ![f] = IF disk[f].mtime = bar.current THEN "seen"
                                                                        ELSE unseen[f]]
      /\ files' = files /\ revertable' = revertable /\ synced' = synced
      /\ rewound' = rewound /\ loaded' = loaded /\ orphan' = orphan
  BY DEF DismissBar, Dismissed
<1>2. f \in Open /\ pc.step = "idle"
  BY <1>1, NamesAssumption DEF IndInv, Shape, Where, Idle
<1> DEFINE p == page[f]
           q == [p EXCEPT !.last_modified = bar.current]
<1>3. p \in Page /\ p.at \in DOMAIN p.undo
  BY <1>2, FileTypes DEF IndInv, Shape
<1>4. bar.current \in Nat /\ bar.current <= now
  BY DEF IndInv, Shape, Typed, WindowTyped, BarOK, BarPast
<1>5. page' = [page EXCEPT ![f] = q]
  BY <1>1
<1>6. /\ q \in Page /\ q.content = p.content /\ q.ops = p.ops
      /\ q.CHANGED = p.CHANGED /\ q.at = p.at /\ q.undo = p.undo
      /\ q.last_modified = bar.current
      /\ q.saved_since_first_loaded = p.saved_since_first_loaded
  <2> HIDE DEF p
  <2> QED BY <1>3, <1>4 DEF Page
<1> HIDE DEF q
<1>7. /\ PagesTyped' /\ Open' = Open /\ page'[f] = q
      /\ \A g \in Files \ {f} : page'[g] = page[g]
  BY <1>2, <1>3, <1>5, <1>6, OnePage
<1>8. /\ FilesTyped' /\ now' = now /\ now \in Nat /\ disk' = disk
      /\ autosave' = autosave /\ backup' = backup
  BY <1>1 DEF IndInv, Shape, Typed, files, FilesTyped
<1>9. /\ GhostsTyped' /\ (Unseen(f)' => disk[f].mtime # bar.current)
      /\ \A g \in Files \ {f} : unseen'[g] = unseen[g]
  <2>1. unseen \in [Files -> Arrivals]
    BY DEF IndInv, Shape, Typed, GhostsTyped
  <2>2. unseen' \in [Files -> Arrivals] /\ (Unseen(f)' => disk[f].mtime # bar.current)
    BY <1>1, <2>1 DEF Arrivals, Unseen
  <2>3. \A g \in Files \ {f} : unseen'[g] = unseen[g]
    BY <1>1, <2>1
  <2> QED BY <1>1, <2>2, <2>3 DEF IndInv, Shape, Typed, GhostsTyped
<1>10. BarOK' /\ bar'.path = page_current' /\ WindowTyped'
  <2>1. revertable' \in BOOLEAN
    BY <1>1 DEF IndInv, Shape, Typed, WindowTyped
  <2> QED BY <1>1, <1>2, <1>7, <1>8, <2>1, CurrentPage
<1>11. Shape'
  <2>1. Where'
    BY <1>1, <1>2, <1>7, <1>10 DEF Where
  <2> QED BY <1>1, <1>7, <1>8, <1>9, <1>10, <2>1 DEF IndInv, Shape, Typed
<1>12. KnownPast'
  BY <1>1, <1>2 DEF KnownPast
<1>13. FileOK(f)'
  <2>1. StoredOf(f)' /\ LoadedOf(f)'
    BY <1>1, <1>2, <1>4, <1>6, <1>7, <1>8 DEF IndInv, FileOK, StoredOf, LoadedOf, Exists, At
  <2>2. SeenOf(f)'
    <3>1. disk[f].mtime \in Nat /\ (Exists(disk[f]) => bar.current <= disk[f].mtime)
      BY <1>1, FileTypes DEF IndInv, Shape, BarOK, BarFresh
    <3>2. Unseen(f)' /\ Exists(disk'[f]) => file_changed_since(f)'
      BY <1>4, <1>6, <1>7, <1>8, <1>9, <3>1 DEF file_changed_since, Exists
    <3>3. ~At("stat", f)' /\ ~Saving(f)'
      BY <1>1, <1>2 DEF At, Saving
    <3> QED BY <3>2, <3>3 DEF SeenOf, Exists
  <2>3. UndoOf(f)' /\ BackupOf(f)'
    BY <1>1, <1>2, <1>6, <1>7, <1>8 DEF IndInv, FileOK, UndoOf, BackupOf
  <2>4. OrphanOf(f)'
    BY <1>1, <1>7, <1>8 DEF IndInv, FileOK, OrphanOf, f_has_active_autosave
  <2> QED BY <2>1, <2>2, <2>3, <2>4 DEF FileOK
<1>14. ASSUME NEW g \in Files \ {f} PROVE Frame(g)
  <2>1. (At("stat", g)' <=> At("stat", g)) /\ (At("write", g)' <=> At("write", g))
        /\ (Saving(g)' <=> Saving(g))
    BY <1>1 DEF At, Saving
  <2>2. now' \in Nat /\ now' >= now
    BY <1>8
  <2> QED BY <1>1, <1>7, <1>8, <1>9, <2>1, <2>2, StaysFrame
<1> QED BY <1>8, <1>10, <1>11, <1>12, <1>13, <1>14, OthersKept

(* The end of a save: the page becomes unchanged, or is closed. *)
LEMMA StatFileInv == ASSUME IndInv, NEW f \in Files, StatFile(f) PROVE IndInv'
<1>1. /\ pc.step = "stat" /\ pc.file = f /\ pc' = Idle
      /\ now' = now /\ disk' = disk /\ backup' = backup /\ unseen' = unseen /\ loaded' = loaded
      /\ synced' = [synced EXCEPT ![f] = page[f].content]
      /\ rewound' = [rewound EXCEPT ![f] = FALSE]
  BY DEF StatFile
<1>2. f \in Open
  BY <1>1 DEF IndInv, Shape, Where
<1> DEFINE p == page[f]
<1>3. p \in Page /\ p.at \in DOMAIN p.undo /\ p.content \in Contents
  BY <1>2, FileTypes DEF IndInv, Shape, Page
<1>4. /\ synced' \in [Files -> Contents \cup {NONE}] /\ synced'[f] = p.content
      /\ \A g \in Files \ {f} : synced'[g] = synced[g]
  BY <1>1, <1>3 DEF IndInv, Shape, Typed, GhostsTyped
<1>5. /\ rewound' \in [Files -> BOOLEAN]
      /\ \A g \in Files \ {f} : rewound'[g] = rewound[g]
  <2>1. rewound \in [Files -> BOOLEAN]
    BY DEF IndInv, Shape, Typed, GhostsTyped
  <2> QED BY <1>1, <2>1
<1>6. CASE pc.closing
  BY <1>1, <1>2, <1>4, <1>5, <1>6, DeletePageInv DEF StatFile, At
<1>7. CASE ~pc.closing
  <2> DEFINE t == disk[f].mtime
             q == Saved(p, t)
  <2>1. /\ page' = [page EXCEPT ![f] = q]
        /\ autosave' = autosave /\ orphan' = orphan /\ page_current' = page_current
        /\ \/ page_current = f /\ ShowBar(f, page'[f]) /\ revertable' = TRUE
           \/ page_current # f /\ bar' = bar /\ event' = event /\ revertable' = revertable
    BY <1>7 DEF StatFile
  <2>2. t \in Nat /\ t <= now
    BY FileTypes DEF IndInv, Shape, FileOK, StoredOf
  <2>3. /\ q \in Page /\ q.content = p.content /\ q.ops = FALSE
        /\ q.CHANGED = FALSE /\ q.at = p.at /\ q.undo = p.undo
        /\ q.last_modified = t /\ q.saved_since_first_loaded = TRUE
    <3> HIDE DEF p, t
    <3> DEFINE r1 == [p EXCEPT !.last_modified = t]
               r2 == [r1 EXCEPT !.saved_since_first_loaded = TRUE]
               r3 == [r2 EXCEPT !.CHANGED = FALSE]
               r4 == [r3 EXCEPT !.ops = FALSE]
               r5 == [r4 EXCEPT !.do_autosave_backup = FALSE]
    <3>1. q = r5
      BY DEF Saved
    <3> HIDE DEF q
    <3>2. /\ r1 \in Page /\ r1.content = p.content /\ r1.undo = p.undo /\ r1.at = p.at
          /\ r1.last_modified = t
      BY <1>3, <2>2 DEF Page
    <3> HIDE DEF r1
    <3>3. /\ r2 \in Page /\ r2.content = p.content /\ r2.undo = p.undo /\ r2.at = p.at
          /\ r2.last_modified = t /\ r2.saved_since_first_loaded = TRUE
      BY <3>2 DEF Page
    <3> HIDE DEF r2
    <3>4. /\ r3 \in Page /\ r3.content = p.content /\ r3.undo = p.undo /\ r3.at = p.at
          /\ r3.last_modified = t /\ r3.saved_since_first_loaded = TRUE /\ r3.CHANGED = FALSE
      BY <3>3 DEF Page
    <3> HIDE DEF r3
    <3>5. /\ r4 \in Page /\ r4.content = p.content /\ r4.undo = p.undo /\ r4.at = p.at
          /\ r4.last_modified = t /\ r4.saved_since_first_loaded = TRUE /\ r4.CHANGED = FALSE
          /\ r4.ops = FALSE
      BY <3>4 DEF Page
    <3> HIDE DEF r4
    <3>6. /\ r5 \in Page /\ r5.content = p.content /\ r5.undo = p.undo /\ r5.at = p.at
          /\ r5.last_modified = t /\ r5.saved_since_first_loaded = TRUE /\ r5.CHANGED = FALSE
          /\ r5.ops = FALSE
      BY <3>5 DEF Page
    <3> HIDE DEF r5
    <3> QED BY <3>1, <3>6
  <2> HIDE DEF q
  <2>4. /\ PagesTyped' /\ Open' = Open /\ page'[f] = q
        /\ \A g \in Files \ {f} : page'[g] = page[g]
    BY <1>2, <1>3, <2>1, <2>3, OnePage
  <2>5. FilesTyped' /\ now \in Nat
    BY <1>1, <2>1 DEF IndInv, Shape, Typed, FilesTyped
  <2>6. GhostsTyped'
    BY <1>1, <1>4, <1>5, <2>1 DEF IndInv, Shape, Typed, GhostsTyped
  <2>7. BarOK' /\ bar'.path = page_current' /\ WindowTyped'
    <3>1. CASE page_current = f /\ ShowBar(f, page'[f]) /\ revertable' = TRUE
      BY <1>1, <1>2, <2>1, <2>4, <2>5, <3>1, CurrentPage
    <3>2. CASE page_current # f /\ bar' = bar /\ event' = event /\ revertable' = revertable
      <4>1. WindowTyped' /\ bar'.path = page_current'
        BY <2>1, <3>2 DEF IndInv, Shape, Where, Typed, WindowTyped
      <4>2. page_current \in Open' => page_current \in Open /\ Same(page[page_current], page'[page_current])
        BY <2>4, <3>2 DEF Same, Open
      <4>3. BarOK'
        BY <1>1, <2>1, <2>5, <3>2, <4>2, BarFrame DEF IndInv, Shape
      <4> QED BY <4>1, <4>3
    <3> QED BY <2>1, <3>1, <3>2
  <2>8. pc' \in Steps /\ pc'.step = "idle"
    BY <1>1 DEF Steps, Idle
  <2>9. Where' /\ KnownPast'
    BY <1>1, <2>1, <2>4, <2>7, <2>8 DEF IndInv, Shape, Where, KnownPast
  <2>10. FileOK(f)'
    <3>1. /\ disk[f].mtime <= now /\ autosave[f].mtime <= now
          /\ Unseen(f) => unseen[f] = "stat"
          /\ Real(disk[f]) /\ Real(autosave[f])
      BY <1>1 DEF IndInv, FileOK, StoredOf, SeenOf, At
    <3>2. StoredOf(f)' /\ SeenOf(f)'
      <4>1. StoredOf(f)'
        BY <1>1, <2>1, <2>2, <2>3, <2>4, <3>1 DEF StoredOf, Real, Exists
      <4>2. ~Saving(f)'
        BY <2>8 DEF Saving
      <4>3. SeenOf(f)'
        BY <1>1, <3>1, <4>2 DEF SeenOf, Unseen
      <4> QED BY <4>1, <4>3
    <3>3. LoadedOf(f)'
      BY <1>1, <1>2, <2>3, <2>4, <2>8 DEF IndInv, FileOK, LoadedOf, Exists, At
    <3>4. UndoOf(f)' /\ BackupOf(f)'
      BY <1>4, <2>3, <2>4 DEF UndoOf, BackupOf
    <3>5. OrphanOf(f)'
      BY <1>1, <1>2, <2>1 DEF IndInv, FileOK, OrphanOf, f_has_active_autosave
    <3> QED BY <3>2, <3>3, <3>4, <3>5 DEF FileOK
  <2>11. ASSUME NEW g \in Files \ {f} PROVE Frame(g)
    <3>1. ~At("stat", g) /\ ~At("stat", g)' /\ ~At("write", g)' /\ ~Saving(g)'
      BY <1>1, <2>8 DEF At, Saving
    <3>2. now' \in Nat /\ now' >= now
      BY <1>1, <2>5
    <3> QED BY <1>1, <1>4, <1>5, <2>1, <2>4, <3>1, <3>2, StaysFrame
  <2>12. Shape'
    BY <2>4, <2>5, <2>6, <2>7, <2>8, <2>9 DEF Shape, Typed
  <2> QED BY <1>1, <2>5, <2>7, <2>9, <2>10, <2>11, <2>12, OthersKept
<1> QED BY <1>6, <1>7

-----------------------------------------------------------------------------
(* The same for a single file *)
LEMMA BackedFile ==
  ASSUME NEW pages, NEW written, Backed(pages, written), NEW g \in Files
  PROVE  /\ now' \in Nat /\ now' >= now
         /\ g \in written => /\ autosave'[g] = [content |-> pages[g].content, mtime |-> now']
                             /\ ~orphan'[g]
         /\ g \notin written => /\ autosave'[g] = autosave[g]
                                /\ orphan'[g] => orphan[g] /\ ~JustAsked(g)
<1>1. now' \in Nat /\ now' >= now
  BY DEF Backed
<1>2. g \in written => autosave'[g] = [content |-> pages[g].content, mtime |-> now'] /\ ~orphan'[g]
  BY Zenon DEF Backed
<1>3. g \notin written => autosave'[g] = autosave[g] /\ (orphan'[g] => orphan[g] /\ ~JustAsked(g))
  <2>1. g \notin written => g \in Files \ written
    OBVIOUS
  <2>2. \A h \in Files \ written : /\ autosave'[h] = autosave[h]
                                   /\ orphan'[h] => orphan[h] /\ ~JustAsked(h)
    BY DEF Backed
  <2> QED BY <2>1, <2>2, Zenon
<1> QED BY <1>1, <1>2, <1>3, Zenon

(* A page that another page's savestate may have backed up *)
LEMMA BackedFrame ==
  ASSUME IndInv, NEW pages, NEW written, Backed(pages, written), NEW g \in Files,
         pages[g] = page[g],
         page'[g] = Closed <=> page[g] = Closed,
         g \notin written => page'[g] = page[g],
         Same(page[g], page'[g]),
         disk'[g] = disk[g], backup'[g] = backup[g], loaded'[g] = loaded[g],
         unseen'[g] = unseen[g], synced'[g] = synced[g], rewound'[g] = rewound[g],
         At("stat", g)' <=> At("stat", g),
         At("write", g)' => At("write", g),
         Saving(g)' => Saving(g)
  PROVE  Frame(g)
<1>1. /\ now \in Nat /\ autosave[g].mtime \in Nat /\ autosave[g].mtime <= now
      /\ g \in Open <=> page[g] # Closed
      /\ g \in Open => page[g].content \in Contents
      /\ Real(autosave[g])
  BY FileTypes DEF IndInv, Shape, FileOK, StoredOf, Page
<1>2. /\ now' \in Nat /\ now' >= now
      /\ g \in written => autosave'[g] = [content |-> page[g].content, mtime |-> now'] /\ ~orphan'[g]
      /\ g \notin written => autosave'[g] = autosave[g] /\ (orphan'[g] => orphan[g])
  <2>1. now' \in Nat /\ now' >= now
    BY BackedFile, Zenon
  <2>2. g \in written => autosave'[g] = [content |-> pages[g].content, mtime |-> now'] /\ ~orphan'[g]
    BY BackedFile, Zenon
  <2>3. g \notin written => autosave'[g] = autosave[g] /\ (orphan'[g] => orphan[g])
    BY BackedFile, Zenon
  <2> QED BY <2>1, <2>2, <2>3, Zenon
<1>3. autosave'[g].mtime \in Nat /\ autosave'[g].mtime <= now' /\ Real(autosave'[g])
  <2>1. CASE g \in written
    <3>1. g \in Open
      BY <2>1 DEF Backed, Due
    <3> QED BY <1>1, <1>2, <2>1, <3>1 DEF Real
  <2>2. CASE g \notin written
    BY <1>1, <1>2, <2>2
  <2> QED BY <2>1, <2>2
<1>4. \/ /\ autosave'[g] = autosave[g] /\ page'[g].ops = page[g].ops
         /\ orphan'[g] => orphan[g]
      \/ autosave'[g].content = page[g].content /\ ~orphan'[g]
  <2>1. CASE g \in written
    BY <1>2, <2>1
  <2>2. CASE g \notin written
    BY <1>2, <2>2
  <2> QED BY <2>1, <2>2
<1> QED BY <1>1, <1>3, <1>4 DEF Frame

(* A savestate that records nothing new may still write backups. *)
LEMMA SaveStateElsewhereInv == IndInv /\ SaveStateElsewhere => IndInv'
<1> SUFFICES ASSUME IndInv, SaveStateElsewhere PROVE IndInv'
  OBVIOUS
<1>1. /\ pc = Idle /\ pc' = pc /\ WriteBackups(page) /\ disk' = disk /\ backup' = backup
      /\ window' = window /\ synced' = synced /\ rewound' = rewound /\ unseen' = unseen
      /\ loaded' = loaded
  BY DEF SaveStateElsewhere
<1>2. page \in [Files -> Page \cup {Closed}] /\ \A g \in Files : PageOK(page[g])
  BY DEF IndInv, Shape, Typed, PagesTyped
<1>3. PICK written \in SUBSET Open :
        /\ Backed(page, written)
        /\ PagesTyped'
        /\ \A g \in Files : /\ page'[g] = Closed <=> page[g] = Closed
                            /\ g \notin written => page'[g] = page[g]
                            /\ Same(page[g], page'[g])
  <2>1. \A g \in Open : page[g] # Closed
    BY DEF Open
  <2> QED BY <1>1, <1>2, <2>1, SavestatePages DEF IndInv
<1>4. /\ now \in Nat /\ now' \in Nat /\ now' >= now
      /\ autosave' \in [Files -> Stored] /\ orphan' \in [Files -> BOOLEAN]
  BY <1>3 DEF Backed, IndInv, Shape, Typed, FilesTyped
<1>5. FilesTyped' /\ GhostsTyped'
  BY <1>1, <1>4 DEF IndInv, Shape, Typed, FilesTyped, GhostsTyped
<1>6. Open' = Open
  BY <1>3 DEF Open
<1>7. WindowTyped' /\ page_current' = page_current /\ bar' = bar /\ event' = event
  BY <1>1 DEF IndInv, Shape, Typed, WindowTyped, window
<1>8. Where' /\ KnownPast' /\ pc' \in Steps
  BY <1>1, <1>6, <1>7 DEF IndInv, Shape, Typed, Where, KnownPast, Idle
<1>9. BarOK'
  <2>1. page_current \in Open' => page_current \in Open /\ Same(page[page_current], page'[page_current])
    BY <1>3, <1>6 DEF Open
  <2> QED BY <1>1, <1>4, <1>7, <2>1, BarFrame DEF IndInv, Shape
<1>10. ASSUME NEW g \in Files PROVE Frame(g)
  <2>1. (At("stat", g)' <=> At("stat", g)) /\ (At("write", g)' <=> At("write", g))
        /\ (Saving(g)' <=> Saving(g))
    BY <1>1 DEF At, Saving
  <2> QED BY <1>1, <1>3, <2>1, BackedFrame
<1>11. Shape'
  BY <1>3, <1>5, <1>7, <1>8 DEF Shape, Typed
<1> QED BY <1>4, <1>8, <1>9, <1>10, <1>11, AllKept

(* An edit adds an entry that counts as changed. *)
LEMMA EditInv == ASSUME IndInv, NEW f \in Files, Edit(f) PROVE IndInv'
<1>1. /\ pc = Idle /\ pc' = pc /\ page_current = f /\ page_current' = f
      /\ ShowBar(f, page'[f]) /\ rewound' = [rewound EXCEPT ![f] = FALSE]
      /\ disk' = disk /\ backup' = backup /\ revertable' = revertable /\ synced' = synced
      /\ unseen' = unseen /\ loaded' = loaded
  BY DEF Edit
<1> DEFINE p == page[f]
           q == page'[f]
           pages(c) == [page EXCEPT ![f] = Edited(p, c)]
<1>2. PICK c \in Contents, written \in SUBSET Open :
        /\ f \in Open /\ p \in Page /\ p.at \in DOMAIN p.undo
        /\ PagesTyped' /\ Open' = Open
        /\ Backed(pages(c), written)
        /\ \A g \in Files \ {f} : /\ g \notin written => page'[g] = page[g]
                                  /\ Same(page[g], page'[g])
        /\ q.content = c /\ q.CHANGED = TRUE /\ q.ops = TRUE
        /\ q.last_modified = p.last_modified
        /\ q.saved_since_first_loaded = p.saved_since_first_loaded
        /\ DOMAIN q.undo = 1 .. p.at + 1
        /\ q.undo[p.at + 1] = Recorded(p, c)
        /\ \A i \in 1 .. p.at : q.undo[i] = p.undo[i]
  BY EditPages DEF IndInv
<1>3. \A g \in Files \ {f} : pages(c)[g] = page[g]
  BY DEF IndInv, Shape, Typed, PagesTyped
<1> HIDE DEF pages
<1>4. /\ now \in Nat /\ now' \in Nat /\ now' >= now
      /\ autosave' \in [Files -> Stored] /\ orphan' \in [Files -> BOOLEAN]
  BY <1>2 DEF Backed, IndInv, Shape, Typed, FilesTyped
<1>5. /\ rewound' \in [Files -> BOOLEAN]
      /\ \A g \in Files \ {f} : rewound'[g] = rewound[g]
  <2>1. rewound \in [Files -> BOOLEAN]
    BY DEF IndInv, Shape, Typed, GhostsTyped
  <2> QED BY <1>1, <2>1
<1>6. FilesTyped' /\ GhostsTyped'
  BY <1>1, <1>4, <1>5 DEF IndInv, Shape, Typed, FilesTyped, GhostsTyped
<1>7. PagesTyped' /\ Open' = Open /\ f \in Open
  BY <1>2
<1>8. pc.step = "idle"
  BY <1>1 DEF Idle
<1>9. BarOK' /\ bar'.path = page_current' /\ WindowTyped'
  <2>1. revertable' \in BOOLEAN
    BY <1>1 DEF IndInv, Shape, Typed, WindowTyped
  <2> QED BY <1>1, <1>4, <1>7, <2>1, CurrentPage
<1>10. Shape'
  <2>1. Where'
    BY <1>1, <1>7, <1>8, <1>9 DEF Where
  <2> QED BY <1>1, <1>6, <1>7, <1>9, <2>1 DEF IndInv, Shape, Typed
<1>11. KnownPast'
  BY <1>1, <1>8 DEF KnownPast
<1>12. FileOK(f)'
  <2>1. /\ q.content = c /\ q.CHANGED = TRUE /\ q.ops = TRUE
        /\ q.last_modified = p.last_modified
        /\ q.saved_since_first_loaded = p.saved_since_first_loaded
    BY <1>2
  <2>2. /\ disk[f].mtime \in Nat /\ p.last_modified \in Nat
        /\ disk[f].mtime <= now /\ p.last_modified <= now /\ autosave[f].mtime <= now
        /\ autosave[f].mtime \in Nat /\ Real(disk[f]) /\ Real(autosave[f])
    BY <1>7, FileTypes DEF IndInv, Shape, FileOK, StoredOf
  <2>3. /\ f \in written => /\ autosave'[f].mtime = now' /\ autosave'[f].content = c
                             /\ ~orphan'[f]
        /\ f \notin written => autosave'[f] = autosave[f] /\ (orphan'[f] => orphan[f])
    <3>1. Backed(pages(c), written)
      BY <1>2
    <3>2. f \in written => autosave'[f] = [content |-> pages(c)[f].content, mtime |-> now'] /\ ~orphan'[f]
      BY <3>1, BackedFile, Zenon
    <3>3. f \notin written => autosave'[f] = autosave[f] /\ (orphan'[f] => orphan[f])
      BY <3>1, BackedFile, Zenon
    <3>4. pages(c)[f].content = c
      <4>1. Edited(p, c).content = c
        BY <1>2, EditedPage
      <4>2. f \in DOMAIN page
        BY DEF IndInv, Shape, Typed, PagesTyped
      <4> HIDE DEF p
      <4>3. pages(c)[f] = Edited(p, c)
        BY <4>2 DEF pages
      <4> QED BY <4>1, <4>3
    <3>5. f \in written => autosave'[f].mtime = now' /\ autosave'[f].content = c
      BY <3>2, <3>4
    <3> QED BY <3>2, <3>3, <3>5, Zenon
  <2>4. StoredOf(f)'
    BY <1>1, <1>4, <1>7, <2>1, <2>2, <2>3 DEF StoredOf, Real, Exists
  <2>5. SeenOf(f)' /\ LoadedOf(f)'
    BY <1>1, <1>7, <2>1
    DEF IndInv, FileOK, SeenOf, Unseen, Saving, LoadedOf, file_changed_since, Exists, At
  <2>6. UndoOf(f)'
    <3>1. ASSUME ~p.saved_since_first_loaded, NEW i \in DOMAIN q.undo, ~q.undo[i].CHANGED
          PROVE  q.undo[i].content = synced[f]
      <4>1. p.at \in Nat /\ i \in 1 .. p.at + 1 /\ p.undo \in Seq(Entry) /\ p.at \in 1 .. Len(p.undo)
        BY <1>2 DEF Page
      <4>2. i # p.at + 1
        BY <1>2, <3>1 DEF Recorded
      <4>3. i \in 1 .. p.at /\ i \in DOMAIN p.undo
        BY <4>1, <4>2
      <4>4. q.undo[i] = p.undo[i]
        BY <1>2, <4>3
      <4> QED BY <1>7, <3>1, <4>3, <4>4 DEF IndInv, FileOK, UndoOf
    <3> QED BY <1>1, <2>1, <3>1 DEF UndoOf
  <2>7. BackupOf(f)'
    BY <2>1 DEF BackupOf
  <2>8. OrphanOf(f)'
    BY <1>1, <1>7, <2>3 DEF IndInv, FileOK, OrphanOf, f_has_active_autosave
  <2> QED BY <2>4, <2>5, <2>6, <2>7, <2>8 DEF FileOK
<1>13. ASSUME NEW g \in Files \ {f} PROVE Frame(g)
  <2>1. (At("stat", g)' <=> At("stat", g)) /\ (At("write", g)' <=> At("write", g))
        /\ (Saving(g)' <=> Saving(g))
    BY <1>1 DEF At, Saving
  <2>2. page'[g] = Closed <=> page[g] = Closed
    BY <1>7 DEF Open
  <2>3. Same(page[g], page'[g]) /\ (g \notin written => page'[g] = page[g]) /\ Backed(pages(c), written)
    BY <1>2
  <2> HIDE DEF p, q
  <2> QED BY <1>1, <1>3, <1>5, <2>1, <2>2, <2>3, BackedFrame
<1> QED BY <1>4, <1>9, <1>10, <1>11, <1>12, <1>13, OthersKept

-----------------------------------------------------------------------------
(* A page is opened, and its root entry saved *)
LEMMA NewPageOpened ==
  ASSUME IndInv, NEW f \in Files, f \notin Open, NEW c \in Contents, NEW chg \in BOOLEAN,
         NEW known \in Nat, WriteBackups([page EXCEPT ![f] = NewPage(c, chg, known)])
  PROVE  \E written \in SUBSET Open :
           LET pages == [page EXCEPT ![f] = NewPage(c, chg, known)]
           IN /\ Backed(pages, written)
              /\ f \notin written /\ \A g \in Files \ {f} : pages[g] = page[g]
              /\ PagesTyped' /\ Open' = Open \cup {f}
              /\ page'[f] = NewPage(c, chg, known)
              /\ \A g \in Files \ {f} : /\ page'[g] = Closed <=> page[g] = Closed
                                        /\ g \notin written => page'[g] = page[g]
                                        /\ Same(page[g], page'[g])
<1> DEFINE n == NewPage(c, chg, known)
           pages == [page EXCEPT ![f] = n]
<1>1. n \in Page /\ PageOK(n) /\ n # Closed
  <2> DEFINE e == [content |-> c, CHANGED |-> chg]
  <2>1. e \in Entry
    BY DEF Entry
  <2>2. <<e>> \in Seq(Entry) /\ 1 \in DOMAIN <<e>>
    BY <2>1
  <2> HIDE DEF e
  <2>3. n = [content |-> c, CHANGED |-> chg, last_modified |-> known,
             saved_since_first_loaded |-> FALSE, ops |-> TRUE, do_autosave_backup |-> FALSE,
             undo |-> <<e>>, at |-> 1]
    BY DEF NewPage, e
  <2>4. n \in Page /\ n.at = 1 /\ n.undo = <<e>>
    BY <2>2, <2>3 DEF Page
  <2>5. PageOK(n)
    BY <2>2, <2>4 DEF PageOK
  <2>6. n.at # 0
    BY <2>4
  <2> HIDE DEF n
  <2> QED BY <2>4, <2>5, <2>6, OpenPage
<1> HIDE DEF n
<1>2. page \in [Files -> Page \cup {Closed}] /\ \A g \in Files : PageOK(page[g])
  BY DEF IndInv, Shape, Typed, PagesTyped
<1>3. /\ pages \in [Files -> Page \cup {Closed}]
      /\ pages[f] = n /\ \A g \in Files \ {f} : pages[g] = page[g]
  BY <1>1, <1>2
<1>4. WriteBackups(pages)
  BY DEF n
<1> HIDE DEF pages
<1>5. /\ \A g \in Files : PageOK(pages[g])
      /\ \A g \in Open : pages[g] # Closed
  BY <1>1, <1>2, <1>3 DEF Open
<1>6. PICK written \in SUBSET Open :
        /\ Backed(pages, written)
        /\ PagesTyped'
        /\ \A g \in Files : /\ page'[g] = Closed <=> pages[g] = Closed
                            /\ g \notin written => page'[g] = pages[g]
                            /\ Same(pages[g], page'[g])
  BY <1>3, <1>4, <1>5, SavestatePages DEF IndInv
<1>7. f \notin written /\ page'[f] = n
  BY <1>3, <1>6
<1>8. \A g \in Files \ {f} : /\ page'[g] = Closed <=> page[g] = Closed
                             /\ g \notin written => page'[g] = page[g]
                             /\ Same(page[g], page'[g])
  BY <1>3, <1>6
<1>9. Open' = Open \cup {f}
  BY <1>1, <1>7, <1>8 DEF Open
<1>10. Backed(pages, written) /\ PagesTyped'
  BY <1>6
<1> QED BY <1>3, <1>7, <1>8, <1>9, <1>10 DEF n, pages

(* What opening a page has in common, whether its file exists or not *)
LEMMA NewPageInv ==
  ASSUME IndInv, NEW f \in Files, f \notin Open, NEW c \in Contents, NEW chg \in BOOLEAN,
         NEW known \in Nat, known <= now,
         WriteBackups([page EXCEPT ![f] = NewPage(c, chg, known)]),
         SetCurrent(f), pc' = Idle, pc.step \in {"idle", "read"},
         disk' = disk, backup' = backup,
         synced' \in [Files -> Contents \cup {NONE}], loaded' \in [Files -> Contents \cup {NONE}],
         rewound' \in [Files -> BOOLEAN], unseen' \in [Files -> Arrivals],
         \A g \in Files \ {f} : /\ synced'[g] = synced[g] /\ loaded'[g] = loaded[g]
                                /\ rewound'[g] = rewound[g] /\ unseen'[g] = unseen[g],
         ~Unseen(f)',
         ~chg => c = synced'[f],
         \/ Exists(disk[f]) /\ loaded'[f] = disk[f].content
         \/ ~Exists(disk[f]) /\ loaded'[f] = loaded[f],
         Exists(disk[f]) => pc.step = "read" /\ pc.file = f
  PROVE  IndInv'
<1> DEFINE n == NewPage(c, chg, known)
           pages == [page EXCEPT ![f] = n]
<1>1. PICK written \in SUBSET Open :
        /\ Backed(pages, written)
        /\ f \notin written /\ \A g \in Files \ {f} : pages[g] = page[g]
        /\ PagesTyped' /\ Open' = Open \cup {f}
        /\ page'[f] = n
        /\ \A g \in Files \ {f} : /\ page'[g] = Closed <=> page[g] = Closed
                                  /\ g \notin written => page'[g] = page[g]
                                  /\ Same(page[g], page'[g])
  BY NewPageOpened
<1>2. /\ n.content = c /\ (n.CHANGED <=> chg) /\ n.last_modified = known
      /\ ~n.saved_since_first_loaded /\ n.ops
      /\ DOMAIN n.undo = {1} /\ n.undo[1].content = c /\ (n.undo[1].CHANGED <=> chg)
  <2> DEFINE e == [content |-> c, CHANGED |-> chg]
  <2>1. e.content = c /\ (e.CHANGED <=> chg)
    OBVIOUS
  <2> HIDE DEF e
  <2>2. DOMAIN <<e>> = {1} /\ <<e>>[1] = e
    OBVIOUS
  <2>3. n = [content |-> c, CHANGED |-> chg, last_modified |-> known,
             saved_since_first_loaded |-> FALSE, ops |-> TRUE, do_autosave_backup |-> FALSE,
             undo |-> <<e>>, at |-> 1]
    BY DEF NewPage, e
  <2> HIDE DEF n
  <2>4. /\ n.content = c /\ (n.CHANGED <=> chg) /\ n.last_modified = known
        /\ ~n.saved_since_first_loaded /\ n.ops /\ n.undo = <<e>>
    BY <2>3
  <2> QED BY <2>1, <2>2, <2>4
<1> HIDE DEF n, pages
<1>3. PagesTyped' /\ Open' = Open \cup {f} /\ page'[f] = n /\ page'[f] # Closed
  BY <1>1 DEF Open
<1>4. /\ now \in Nat /\ now' \in Nat /\ now' >= now
      /\ autosave' \in [Files -> Stored] /\ orphan' \in [Files -> BOOLEAN]
  BY <1>1 DEF Backed, IndInv, Shape, Typed, FilesTyped
<1>5. FilesTyped' /\ GhostsTyped'
  BY <1>4 DEF IndInv, Shape, Typed, FilesTyped, GhostsTyped
<1>6. BarOK' /\ bar'.path = f /\ page_current' = f /\ WindowTyped'
  <2>1. \A g \in Files : disk[g].mtime <= now
    BY DEF IndInv, FileOK, StoredOf
  <2>2. f # Untitled
    BY NamesAssumption
  <2> QED BY <1>3, <1>4, <2>1, <2>2, BarOfWindow DEF IndInv, Shape, Where
<1>7. pc' \in Steps /\ pc'.step = "idle"
  BY DEF Steps, Idle
<1>8. Where' /\ KnownPast'
  BY <1>3, <1>6, <1>7 DEF Where, KnownPast
<1>9. autosave'[f] = autosave[f] /\ (orphan'[f] => orphan[f] /\ ~JustAsked(f))
  <2>1. Backed(pages, written) /\ f \notin written
    BY <1>1
  <2> QED BY <2>1, BackedFile, Zenon
<1>10. FileOK(f)'
  <2>1. /\ disk[f].mtime \in Nat /\ disk[f].mtime <= now
        /\ autosave[f].mtime \in Nat /\ autosave[f].mtime <= now
        /\ Real(disk[f]) /\ Real(autosave[f])
        /\ ~Exists(disk[f]) => disk[f].content = NONE
        /\ loaded[f] # NONE => loaded[f] \in {disk[f].content, backup[f]}
    BY FileTypes DEF IndInv, Shape, FileOK, StoredOf, LoadedOf
  <2>2. StoredOf(f)'
    BY <1>2, <1>3, <1>4, <1>9, <2>1 DEF StoredOf, Real, Exists
  <2>3. SeenOf(f)'
    BY <1>7 DEF SeenOf, At
  <2>4. LoadedOf(f)'
    BY <1>2, <1>3, <1>7, <2>1 DEF LoadedOf, Exists, At
  <2>5. UndoOf(f)'
    BY <1>2, <1>3 DEF UndoOf
  <2>6. BackupOf(f)'
    BY <1>2, <1>3 DEF BackupOf
  <2>7. OrphanOf(f)'
    <3>1. orphan'[f] /\ Exists(disk[f]) => ~f_has_active_autosave(f)
      BY <1>9, Zenon DEF JustAsked, AskedFor
    <3> QED BY <1>9, <3>1 DEF OrphanOf, f_has_active_autosave, Exists
  <2> QED BY <2>2, <2>3, <2>4, <2>5, <2>6, <2>7 DEF FileOK
<1>11. ASSUME NEW g \in Files \ {f} PROVE Frame(g)
  <2>1. ~At("stat", g) /\ ~At("stat", g)' /\ ~At("write", g)' /\ ~Saving(g)'
    BY <1>7 DEF At, Saving
  <2>2. /\ pages[g] = page[g]
        /\ page'[g] = Closed <=> page[g] = Closed
        /\ g \notin written => page'[g] = page[g]
        /\ Same(page[g], page'[g])
        /\ Backed(pages, written)
    BY <1>1
  <2> QED BY <2>1, <2>2, BackedFrame
<1>12. Shape'
  BY <1>3, <1>5, <1>6, <1>7, <1>8 DEF Shape, Typed
<1> QED BY <1>4, <1>6, <1>8, <1>10, <1>11, <1>12, OthersKept

(* Opening an existing file, from the file or from its autosave backup *)
LEMMA ReadFileInv == ASSUME IndInv, NEW f \in Files, ReadFile(f) PROVE IndInv'
<1>1. /\ pc.step = "read" /\ pc.file = f /\ Exists(disk[f]) /\ SetCurrent(f) /\ pc' = Idle
      /\ synced' = [synced EXCEPT ![f] = disk[f].content]
      /\ loaded' = [loaded EXCEPT ![f] = disk[f].content]
      /\ rewound' = [rewound EXCEPT ![f] = FALSE]
      /\ unseen' = [unseen EXCEPT ![f] = "seen"]
      /\ disk' = disk /\ backup' = backup
  BY DEF ReadFile
<1>2. PICK take_backup \in IF AskedFor(f) THEN BOOLEAN ELSE {FALSE} :
        WriteBackups([page EXCEPT ![f] =
          NewPage(IF take_backup THEN autosave[f].content ELSE disk[f].content,
                  take_backup, pc.known)])
  BY DEF ReadFile
<1> DEFINE c == IF take_backup THEN autosave[f].content ELSE disk[f].content
<1>3. take_backup \in BOOLEAN /\ (take_backup => AskedFor(f))
  BY Zenon
<1>4. Real(disk[f]) /\ Real(autosave[f])
  BY DEF IndInv, FileOK, StoredOf
<1>5. c \in Contents /\ disk[f].content \in Contents
  BY <1>1, <1>3, <1>4 DEF Real, AskedFor, f_has_active_autosave
<1>6. pc.known \in Nat /\ pc.known <= now /\ f \notin Open
  BY <1>1, StepTyped DEF IndInv, Shape, Where, Typed, KnownPast
<1>7. /\ synced' \in [Files -> Contents \cup {NONE}]
      /\ loaded' \in [Files -> Contents \cup {NONE}]
      /\ synced'[f] = disk[f].content /\ loaded'[f] = disk[f].content
      /\ \A g \in Files \ {f} : synced'[g] = synced[g] /\ loaded'[g] = loaded[g]
  BY <1>1, <1>5 DEF IndInv, Shape, Typed, GhostsTyped
<1>8. /\ rewound' \in [Files -> BOOLEAN] /\ unseen' \in [Files -> Arrivals] /\ ~Unseen(f)'
      /\ \A g \in Files \ {f} : rewound'[g] = rewound[g] /\ unseen'[g] = unseen[g]
  <2>1. rewound \in [Files -> BOOLEAN] /\ unseen \in [Files -> Arrivals]
    BY DEF IndInv, Shape, Typed, GhostsTyped
  <2> QED BY <1>1, <2>1 DEF Arrivals, Unseen
<1>9. ~take_backup => c = synced'[f]
  BY <1>7
<1>10. WriteBackups([page EXCEPT ![f] = NewPage(c, take_backup, pc.known)])
  BY <1>2
<1> HIDE DEF c
<1> QED BY <1>1, <1>3, <1>5, <1>6, <1>7, <1>8, <1>9, <1>10, NewPageInv

(* Opening a file that does not exist *)
LEMMA CreatePageInv == ASSUME IndInv, NEW f \in Files, CreatePage(f) PROVE IndInv'
<1>1. /\ pc = Idle /\ pc' = pc /\ f \notin Open /\ ~Exists(disk[f]) /\ SetCurrent(f)
      /\ rewound' = [rewound EXCEPT ![f] = FALSE]
      /\ unseen' = [unseen EXCEPT ![f] = "seen"]
      /\ disk' = disk /\ backup' = backup /\ loaded' = loaded
  BY DEF CreatePage
<1>2. PICK c \in Contents : /\ WriteBackups([page EXCEPT ![f] = NewPage(c, FALSE, 0)])
                            /\ synced' = [synced EXCEPT ![f] = c]
  BY DEF CreatePage
<1>3. /\ synced' \in [Files -> Contents \cup {NONE}]
      /\ loaded' \in [Files -> Contents \cup {NONE}] /\ synced'[f] = c
      /\ \A g \in Files \ {f} : synced'[g] = synced[g]
      /\ 0 \in Nat /\ 0 <= now
  BY <1>1, <1>2 DEF IndInv, Shape, Typed, FilesTyped, GhostsTyped
<1>4. /\ rewound' \in [Files -> BOOLEAN] /\ unseen' \in [Files -> Arrivals] /\ ~Unseen(f)'
      /\ \A g \in Files \ {f} : rewound'[g] = rewound[g] /\ unseen'[g] = unseen[g]
  <2>1. rewound \in [Files -> BOOLEAN] /\ unseen \in [Files -> Arrivals]
    BY DEF IndInv, Shape, Typed, GhostsTyped
  <2> QED BY <1>1, <2>1 DEF Arrivals, Unseen
<1>5. pc' = Idle /\ pc.step \in {"idle", "read"}
  BY <1>1 DEF Idle
<1> QED BY <1>1, <1>2, <1>3, <1>4, <1>5, NewPageInv

-----------------------------------------------------------------------------
(* A step that changes nothing *)
LEMMA UnchangedInv == IndInv /\ UNCHANGED vars => IndInv'
<1> SUFFICES ASSUME IndInv, UNCHANGED vars PROVE IndInv'
  OBVIOUS
<1>1. /\ now' = now /\ disk' = disk /\ backup' = backup /\ autosave' = autosave
      /\ page' = page /\ page_current' = page_current /\ revertable' = revertable
      /\ bar' = bar /\ event' = event /\ pc' = pc /\ synced' = synced
      /\ rewound' = rewound /\ unseen' = unseen /\ loaded' = loaded /\ orphan' = orphan
  BY DEF vars, files, window, ghosts
<1>2. Shape'
  BY <1>1 DEF IndInv, Shape, Typed, FilesTyped, PagesTyped, WindowTyped, GhostsTyped, Where, Open
<1>3. BarOK' /\ KnownPast'
  BY <1>1 DEF IndInv, BarOK, BarPast, BarFresh, BarOfPage, KnownPast, Open, Exists
<1>4. now \in Nat
  BY DEF IndInv, Shape, Typed, FilesTyped
<1>5. \A g \in Files : Frame(g)
  BY <1>1, <1>4, StaysFrame DEF At, Saving
<1> QED BY <1>1, <1>2, <1>3, <1>4, <1>5, AllKept

(* Every step keeps the invariant. *)
LEMMA NextInv == IndInv /\ [Next]_vars => IndInv'
<1> SUFFICES ASSUME IndInv, [Next]_vars PROVE IndInv'
  OBVIOUS
<1>1. ASSUME NEW f \in Files, Continue(f) PROVE IndInv'
  BY <1>1, ReadFileInv, ReadFailsInv, RenameFileInv, WriteFileInv, StatFileInv DEF Continue
<1>2. ASSUME NEW f \in Files, \/ Edit(f) \/ UndoRedo(f) \/ OpenFile(f) \/ CreatePage(f)
                             \/ \E closing \in BOOLEAN : SaveFile(f, closing)
                             \/ ClosePage(f) \/ RevertPage(f) \/ DismissBar(f)
                             \/ WriteOutside(f) \/ DeleteOutside(f)
      PROVE  IndInv'
  BY <1>2, EditInv, UndoRedoInv, OpenFileInv, CreatePageInv, SaveFileInv, ClosePageInv,
     RevertPageInv, DismissBarInv, WriteOutsideInv, DeleteOutsideInv
<1>3. ASSUME NEW q \in Files \cup {Untitled}, SwitchPage(q) PROVE IndInv'
  BY <1>3, SwitchPageInv
<1>4. CASE SaveStateElsewhere \/ SaveFails \/ Timer \/ FamEvent \/ Crash
  BY <1>4, SaveStateElsewhereInv, SaveFailsInv, TimerInv, FamEventInv, CrashInv
<1>5. CASE UNCHANGED vars
  BY <1>5, UnchangedInv
<1> QED BY <1>1, <1>2, <1>3, <1>4, <1>5 DEF Next

(* IndInv holds in every state of every behaviour; the theorems below read
   their property off it.                                                   *)
THEOREM Inductive == Spec => []IndInv
<1>1. Init => IndInv
  BY InitInv
<1>2. IndInv /\ [Next]_vars => IndInv'
  BY NextInv
<1> QED BY <1>1, <1>2, PTL DEF Spec

(* Every variable keeps to its type: in particular every place in an undo
   list is inside the list.                                                 *)
THEOREM TypeCorrect == Spec => []TypeOK
<1>1. IndInv => TypeOK
  <2> SUFFICES ASSUME IndInv PROVE TypeOK
    OBVIOUS
  <2>1. \A f \in Files : \/ page[f] \in Page /\ page[f].at \in DOMAIN page[f].undo
                         \/ page[f] = Closed
    BY DEF IndInv, Shape, Typed, PagesTyped, PageOK
  <2>2. <<revertable, event>> \in BOOLEAN \X BOOLEAN
    BY DEF IndInv, Shape, Typed, WindowTyped
  <2>3. <<rewound, orphan>> \in [Files -> BOOLEAN] \X [Files -> BOOLEAN]
    BY DEF IndInv, Shape, Typed, GhostsTyped
  <2> QED BY <2>1, <2>2, <2>3
    DEF IndInv, Shape, Typed, FilesTyped, WindowTyped, GhostsTyped, TypeOK
<1> QED BY <1>1, Inductive, PTL

(* A version another program wrote under an open page makes the next save
   ask, however writes, saves and dismissals of the bar interleave, unless it
   came between the write and the stat of a save; and a save finds no version
   the user was not told of but one that came within that save or another.   *)
THEOREM ForeignChangesAlwaysNoticed == Spec => []ForeignChangesNoticed
<1>1. IndInv => ForeignChangesNoticed
  BY DEF IndInv, FileOK, SeenOf, ForeignChangesNoticed, Open
<1> QED BY <1>1, Inductive, PTL

(* What the file held when it was opened is in the file or in f~ after any
   number of saves, failed saves and crashes.                               *)
THEOREM LoadedAlwaysKept == Spec => []LoadedKept
<1>1. IndInv => LoadedKept
  BY DEF IndInv, FileOK, LoadedOf, LoadedKept
<1> QED BY <1>1, Inductive, PTL

(* Until the first save, a page that is closed without a question shows what
   is in its file.                                                          *)
THEOREM UnchangedMeansSavedUntilSaved == Spec => []UnchangedMeansSavedAtFirst
<1>1. IndInv => UnchangedMeansSavedAtFirst
  BY DEF IndInv, FileOK, UndoOf, UnchangedMeansSavedAtFirst, Open
<1> QED BY <1>1, Inductive, PTL

(* A page that no timer will back up is in its file or its backup. *)
THEOREM BackupAlwaysUpToDate == Spec => []BackupUpToDate
<1>1. IndInv => BackupUpToDate
  BY DEF IndInv, FileOK, BackupOf, BackupUpToDate, Open
<1> QED BY <1>1, Inductive, PTL

(* No page is open beside a newer backup that the user has not been asked
   about.                                                                   *)
THEOREM AutosaveAlwaysOffered == Spec => []AutosaveOffered
<1>1. IndInv => AutosaveOffered
  BY DEF IndInv, FileOK, OrphanOf, AutosaveOffered, Open
<1> QED BY <1>1, Inductive, PTL

(* With no event on its way, the bar says of the current page's file what a
   save would find.                                                         *)
THEOREM BarAlwaysTruthful == Spec => []BarTruthful
<1>1. IndInv => BarTruthful
  <2> SUFFICES ASSUME IndInv, pc = Idle, page_current # Untitled, ~event
               PROVE  /\ bar.path = page_current
                      /\ Visible(bar) <=> file_changed_since(page_current)
                      /\ bar.revert <=> page[page_current].CHANGED
    BY DEF BarTruthful
  <2>1. bar.path = page_current /\ page_current \in Open /\ page_current \in Files
    BY DEF IndInv, Shape, Where, Typed, WindowTyped, Idle
  <2>2. /\ bar.current = disk[page_current].mtime
        /\ bar.known = page[page_current].last_modified
        /\ bar.revert = page[page_current].CHANGED
    BY <2>1 DEF IndInv, BarOK, BarFresh, BarOfPage
  <2>3. Visible(bar) <=> file_changed_since(page_current)
    BY <2>2 DEF Visible, file_changed_since
  <2>4. bar.revert <=> page[page_current].CHANGED
    BY <2>2, Zenon
  <2> QED BY <2>1, <2>3, <2>4
<1> QED BY <1>1, Inductive, PTL
=============================================================================
