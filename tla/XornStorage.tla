----------------------------- MODULE XornStorage -----------------------------
(***************************************************************************)
(* The object storage of the Xorn library (src/xorn/src/storage).          *)
(*                                                                         *)
(* A revision is one state of a schematic: which objects exist, the state  *)
(* of each, and the tree that orders them and attaches texts to nets and   *)
(* components.  Revisions share object states by reference counting: a     *)
(* copied revision points to the same states, and a change replaces the    *)
(* pointer of one revision only.  Any allocation may fail, and every       *)
(* operation that fails half-way has to put back what it changed.          *)
(*                                                                         *)
(* std::map is a function whose DOMAIN is the set of keys in the map.      *)
(* Arguments the C API checks first (a type outside the enumeration, a     *)
(* NULL data pointer) cause an early return like an invalid value and are  *)
(* represented by it.                                                      *)
(***************************************************************************)
EXTENDS Lists, FiniteSets, Functions

CONSTANTS Revs,        \* addresses a revision can be allocated at
          Addrs,       \* addresses of obstates: what memory there is
          MaxObjects,  \* bound on the object ids handed out
          Types,       \* the object types clients use
          Data,        \* the values of an object's data
          INVALID      \* data that data_is_valid refuses

\* The types texts can be attached to, and the types the attribute that
\* SetAttr sets (e.g. the color) exists for.
Holders  == {"net", "component"}
HasAttr  == {"net", "text", "box"}
NULL     == 0
Objects  == 1..MaxObjects

ASSUME XornAssumption ==
  /\ IsFiniteSet(Revs) /\ IsFiniteSet(Addrs)
  /\ MaxObjects \in Nat
  /\ Types \subseteq {"net", "component", "text", "box"}
  /\ INVALID \notin Data

VARIABLES
  live,            \* the allocated revisions, by address
  heap,            \* the allocated obstates, by address
  next_object_id,  \* the object id handed out last
  result           \* how the last call returned

vars == <<live, heap, next_object_id, result>>

-----------------------------------------------------------------------------
(* Maps, reference counts and the object tree                              *)

Put(f, k, v)   == [x \in DOMAIN f \cup {k} |-> IF x = k THEN v ELSE f[x]]
Joined(f, g)   == [x \in DOMAIN f \cup DOMAIN g |-> IF x \in DOMAIN f THEN f[x] ELSE g[x]]
Without(f, ks) == Restrict(f, DOMAIN f \ ks)

\* What operator[] leaves in the map of children: an empty list if there was
\* no entry.
WithEntries(v, ks) == [v EXCEPT !.children = Joined(@, [k \in ks |-> <<>>])]
Kids(v, k) == IF k \in DOMAIN v.children THEN v.children[k] ELSE <<>>

Obstate(type, data) == [refcnt |-> 1, type |-> type, data |-> data]

\* Operators marked as faulty variants are not used: each is a plausible bug
\* that one of the properties at the end rules out.
\*
\* The obstates reached through the map f have as many references more, or
\* less, as f points to them; those without a reference are deleted.
Pointers(f, a) == Cardinality({ob \in DOMAIN f : f[ob] = a})
NotRetained(h, f) == h  \* faulty variant: the copy takes no references
Retained(h, f) ==
  [a \in DOMAIN h |-> [h[a] EXCEPT !.refcnt = @ + Pointers(f, a)]]
Dropped(h, f) ==
  LET kept == {a \in DOMAIN h : h[a].refcnt # Pointers(f, a)}
  IN [a \in kept |-> [h[a] EXCEPT !.refcnt = @ - Pointers(f, a)]]

\* Where an obstate can be allocated; none is left when memory runs out.
FreeAddrs == Addrs \ DOMAIN heap

Exists(v, ob) == ob \in DOMAIN v.obstates
TypeOf(v, ob) == heap[v.obstates[ob]].type

EmptyRevision == [is_transient |-> TRUE, obstates |-> <<>>,
                  children |-> <<>>, parent |-> <<>>]

\* A new entry for ob at the end of the list of attach_to, in two steps.
PushedBack(v, ob, attach_to) ==
  [v EXCEPT !.children = Put(@, attach_to, Append(Kids(v, attach_to), ob))]
WithParent(v, ob, attach_to) == [v EXCEPT !.parent = Put(@, ob, attach_to)]

\* What undoes them when a later step fails.
PoppedBack(v, attach_to)  == [v EXCEPT !.children[attach_to] = Front(@)]
WithoutParent(v, ob)      == [v EXCEPT !.parent = Without(@, {ob})]

\* What is left of v when appending ob to the top level runs out of memory:
\* in the vector, in the map of parents, or for the object state.
AppendFailuresKept(v, ob) ==  \* faulty variant: no pop_back
  {v, PushedBack(v, ob, NULL)}
AppendFailures(v, ob) ==
  LET pushed   == PushedBack(v, ob, NULL)
      attached == WithParent(pushed, ob, NULL)
  IN {v, WithEntries(v, {NULL}),
      PoppedBack(pushed, NULL),
      PoppedBack(WithoutParent(attached, ob), NULL)}

\* An object and what is attached to it.  Only texts are attached and nothing
\* is attached to a text (TreeConsistent), so the recursion ends here.
ObjectOnly(v, ob) == {ob}  \* faulty variant: attached objects stay
Subtree(v, ob) == {ob} \cup ToSet(Kids(v, ob))

\* v without a set of objects that is closed under Subtree.
Removed(v, gone) ==
  [v EXCEPT
     !.obstates = Without(@, gone),
     !.parent   = Without(@, gone),
     !.children = [k \in DOMAIN @ \ gone |->
                     Filtered(@[k], Objects \ gone)]]

-----------------------------------------------------------------------------
(* How a call returns.  Every action is one call of the C API.             *)

Succeeds == result' = "ok"
Fails    == result' = "error"

\* The call returns an error before it changes anything.
Refused == Fails /\ UNCHANGED <<live, heap, next_object_id>>

Issued == 1..next_object_id

-----------------------------------------------------------------------------
(* Revisions                                                               *)

xorn_new_revision(r) ==
  /\ r \notin DOMAIN live
  /\ \/ /\ live' = Put(live, r, EmptyRevision)
        /\ Succeeds
        /\ UNCHANGED <<heap, next_object_id>>
     \/ Refused

CopyRevision(r, rev) ==
  /\ r \notin DOMAIN live
  /\ \/ /\ live' = Put(live, r, [live[rev] EXCEPT !.is_transient = TRUE])
        /\ heap' = Retained(heap, live[rev].obstates)
        /\ Succeeds
        /\ UNCHANGED next_object_id
     \/ Refused

xorn_finalize_revision(rev) ==
  /\ live' = [live EXCEPT ![rev].is_transient = FALSE]
  /\ Succeeds
  /\ UNCHANGED <<heap, next_object_id>>

xorn_free_revision(rev) ==
  /\ live' = Without(live, {rev})
  /\ heap' = Dropped(heap, live[rev].obstates)
  /\ Succeeds
  /\ UNCHANGED next_object_id

-----------------------------------------------------------------------------
(* Adding and changing an object                                           *)

\* The static set_object_data: the new state is created before the reference
\* to the old one, if any, is dropped.
ReplacedForAll(v, ob, a, type, data) ==  \* faulty variant: no copy on write
  [h \in DOMAIN heap \cup {a} |->
     IF h \in {a} \cup {v.obstates[o] : o \in {ob} \cap DOMAIN v.obstates}
     THEN Obstate(type, data) ELSE heap[h]]
Replaced(v, ob, a, type, data) ==
  Dropped(Put(heap, a, Obstate(type, data)),
          Restrict(v.obstates, {ob} \cap DOMAIN v.obstates))
set_object_data(rev, v, ob, type, data) ==
  \E a \in FreeAddrs :
    /\ heap' = Replaced(v, ob, a, type, data)
    /\ live' = [live EXCEPT ![rev] = [v EXCEPT !.obstates = Put(@, ob, a)]]

xorn_add_object(rev, type, data) ==
  LET v  == live[rev]
      ob == next_object_id + 1
  IN IF ~v.is_transient \/ data = INVALID
     THEN Refused
     ELSE /\ ob \in Objects
          /\ next_object_id' = ob
          /\ \/ /\ set_object_data(rev, WithParent(PushedBack(v, ob, NULL), ob, NULL),
                                   ob, type, data)
                /\ Succeeds
             \/ /\ \E w \in AppendFailures(v, ob) : live' = [live EXCEPT ![rev] = w]
                /\ Fails
                /\ UNCHANGED heap

\* Changes an object, or re-adds one which has been deleted.
xorn_set_object_data(rev, ob, type, data) ==
  LET v   == live[rev]
      add == ob \notin DOMAIN v.parent
      at  == IF add THEN WithParent(PushedBack(v, ob, NULL), ob, NULL) ELSE v
  IN IF \/ ~v.is_transient
        \/ data = INVALID
        \/ type \notin Holders /\ Kids(v, ob) # <<>>
        \/ type # "text" /\ ~add /\ v.parent[ob] # NULL
     THEN Refused
     ELSE /\ \/ /\ set_object_data(rev, at, ob, type, data)
                /\ Succeeds
             \/ /\ \E w \in IF add THEN AppendFailures(v, ob) ELSE {v} :
                     live' = [live EXCEPT ![rev] = w]
                /\ Fails
                /\ UNCHANGED heap
          /\ UNCHANGED next_object_id

-----------------------------------------------------------------------------
(* Reordering and attaching                                                *)

\* Where an object is found in a list that has it.
IndexIn(s, ob) ==
  CHOOSE i \in DOMAIN s : s[i] = ob /\ \A j \in 1 .. i - 1 : s[j] # ob

CanRelocate(v, ob, attach_to) ==
  /\ v.is_transient
  /\ Exists(v, ob)
  /\ attach_to # NULL => /\ TypeOf(v, ob) = "text"
                         /\ Exists(v, attach_to)
                         /\ TypeOf(v, attach_to) \in Holders

\* v with ob moved: the new entry is inserted first, then the old one erased,
\* which has moved up if the new one was inserted below it in the same list.
RelocatedBelow(v, ob, attach_to, insert_before) ==  \* faulty variant: no ++pos
  LET old == v.parent[ob]
      new == Kids(v, attach_to)
      i   == IndexIn(v.children[old], ob)
      j   == IF insert_before = NULL THEN Len(new) + 1 ELSE IndexIn(new, insert_before)
      inserted == Put(v.children, attach_to, InsertAt(new, j, ob))
  IN [v EXCEPT !.children = [inserted EXCEPT ![old] = RemoveAt(@, i)],
               !.parent[ob] = attach_to]
Relocated(v, ob, attach_to, insert_before) ==
  LET old == v.parent[ob]
      new == Kids(v, attach_to)
      i   == IndexIn(v.children[old], ob)
      j   == IF insert_before = NULL THEN Len(new) + 1 ELSE IndexIn(new, insert_before)
      pos == IF attach_to = old /\ j <= i THEN i + 1 ELSE i
      inserted == Put(v.children, attach_to, InsertAt(new, j, ob))
  IN [v EXCEPT !.children = [inserted EXCEPT ![old] = RemoveAt(@, pos)],
               !.parent[ob] = attach_to]

xorn_relocate_object(rev, ob, attach_to) ==
  LET v     == live[rev]
      entry == [live EXCEPT ![rev] = WithEntries(@, {attach_to})]
  IN IF ~CanRelocate(v, ob, attach_to)
     THEN Refused
     ELSE /\ \/ \* children[attach_to] is created outside the try block
                /\ attach_to \notin DOMAIN v.children
                /\ result' = "uncaught"
                /\ UNCHANGED live
             \/ \* the successor is not in the list, or there is no memory
                /\ live' = entry
                /\ Fails
             \/ /\ \E insert_before \in ToSet(Kids(v, attach_to)) \cup {NULL} :
                     live' = [live EXCEPT ![rev] =
                                Relocated(v, ob, attach_to, insert_before)]
                /\ Succeeds
          /\ UNCHANGED <<heap, next_object_id>>

-----------------------------------------------------------------------------
(* Deleting                                                                *)

\* rev loses the objects `gone`, and the references to their states go.
Delete(rev, gone) ==
  LET v == live[rev] IN
  /\ live' = [live EXCEPT ![rev] = Removed(v, gone)]
  /\ heap' = Dropped(heap, Restrict(v.obstates, gone))
  /\ Succeeds
  /\ UNCHANGED next_object_id

xorn_delete_object(rev, ob) ==
  LET v == live[rev] IN
  IF ~v.is_transient \/ ob \notin DOMAIN v.parent
  THEN Refused
  ELSE Delete(rev, Subtree(v, ob))

\* Objects of the selection that do not exist, or have gone with the object
\* they were attached to, are ignored.
xorn_delete_selected_objects(rev, sel) ==
  LET v == live[rev] IN
  IF ~v.is_transient
  THEN Refused
  ELSE Delete(rev, UNION {Subtree(v, ob) : ob \in sel \cap DOMAIN v.parent})

-----------------------------------------------------------------------------
(* Copying between revisions                                               *)

\* The objects copy_object visits, in order, for each of the objects obs, which
\* are taken in the order of their ids; `at` is the place in this sequence of
\* the copy it is attached to, 0 if none.
Visited(v, obs) ==
  LET visit[n \in 0 .. next_object_id] ==
        IF n = 0 THEN <<>>
        ELSE IF n \notin obs THEN visit[n - 1]
        ELSE visit[n - 1] \o <<[of |-> n, at |-> 0]>>
               \o [k \in 1 .. Len(Kids(v, n)) |->
                     [of |-> Kids(v, n)[k], at |-> Len(visit[n - 1]) + 1]]
  IN visit[next_object_id]

\* The first n copies; each is given the next id.
CopyIds(n) == [k \in 1..n |-> next_object_id + k]

\* dest with the first n of the visited objects of src copied into it.
Copied(dest, src, visited, n) ==
  LET new   == ToSet(CopyIds(n))
      item(ob)   == visited[ob - next_object_id]
      parent(ob) == IF item(ob).at = 0 THEN NULL ELSE next_object_id + item(ob).at
  IN [dest EXCEPT
        !.obstates = Joined(@, [ob \in new |-> src.obstates[item(ob).of]]),
        !.parent   = Joined(@, [ob \in new |-> parent(ob)]),
        !.children = [k \in DOMAIN @ \cup {parent(ob) : ob \in new} |->
                        Kids(dest, k)
                          \o Filtered(CopyIds(n), {ob \in new : parent(ob) = k})]]

\* dest without the first n copies again.
FirstDeleted(dest, n) == Removed(dest, ToSet(CopyIds(1)))  \* faulty variant
CopiesDeleted(dest, n) == Removed(dest, ToSet(CopyIds(n)))

\* Copies the objects obs of rev to dest.  Memory can run out after n of the
\* objects: the object after it has used up an id, and the copies made so far
\* are deleted.  After the last object only a selection is left to allocate.
Copy(dest, rev, obs, selection) ==
  LET visited == Visited(live[rev], obs)
      all     == Len(visited)
      After(n) == Copied(live[dest], live[rev], visited, n)
      States(n) == Restrict(After(n).obstates, ToSet(CopyIds(n)))
  IN /\ next_object_id + all <= MaxObjects
     /\ \/ /\ live' = [live EXCEPT ![dest] = After(all)]
           /\ heap' = Retained(heap, States(all))
           /\ next_object_id' = next_object_id + all
           /\ Succeeds
        \/ \E n \in 0..all :
             LET undone == CopiesDeleted(After(n), n) IN
             /\ n < all \/ selection
             /\ \E ks \in SUBSET {NULL} :
                  /\ all = 0 => ks = {}
                  /\ live' = [live EXCEPT ![dest] = WithEntries(undone, ks)]
             /\ heap' = Dropped(Retained(heap, States(n)), States(n))
             /\ next_object_id' = next_object_id + (IF n < all THEN n + 1 ELSE n)
             /\ Fails

xorn_copy_object(dest, src, ob) ==
  IF ~live[dest].is_transient \/ ~Exists(live[src], ob)
  THEN Refused
  ELSE Copy(dest, src, {ob}, FALSE)

xorn_copy_objects(dest, src, sel) ==
  IF ~live[dest].is_transient
  THEN Refused
  ELSE Copy(dest, src, sel \cap DOMAIN live[src].obstates, TRUE)

-----------------------------------------------------------------------------
(* Setting an attribute of all objects of a selection                      *)

\* The selected objects that exist, have the attribute and can have this value.
AffectedUnchecked(v, sel, value) ==  \* faulty variant: no data_is_valid
  {ob \in sel \cap DOMAIN v.obstates : TypeOf(v, ob) \in HasAttr}
Affected(v, sel, value) ==
  {ob \in sel \cap DOMAIN v.obstates : TypeOf(v, ob) \in HasAttr /\ value # INVALID}

\* The objects that change get new states while the old ones are still
\* referenced, then all references to old states are dropped at once.
set_attr(rev, sel, value) ==
  LET v   == live[rev]
      obs == Affected(v, sel, value)
      New(a) == [b \in Range(a) |-> Obstate(TypeOf(v, AntiFunction(a)[b]), value)]
  IN IF ~v.is_transient
     THEN Refused
     ELSE \/ /\ \E a \in [obs -> FreeAddrs] :
                  /\ IsInjective(a)
                  /\ live' = [live EXCEPT ![rev].obstates = Joined(a, @)]
                  /\ heap' = Dropped(Joined(heap, New(a)), Restrict(v.obstates, obs))
             /\ Succeeds
             /\ UNCHANGED next_object_id
          \/ Refused

-----------------------------------------------------------------------------
(* The specification                                                       *)

Init ==
  /\ live = <<>>
  /\ heap = <<>>
  /\ next_object_id = 0
  /\ result = "ok"

\* One thread calls the library; after an exception has left it, it stops.
Next ==
  /\ result # "uncaught"
  /\ \/ \E r \in Revs : xorn_new_revision(r)
     \/ \E r \in Revs, rev \in DOMAIN live : CopyRevision(r, rev)
     \/ \E rev \in DOMAIN live :
          \/ xorn_finalize_revision(rev)
          \/ xorn_free_revision(rev)
          \/ \E type \in Types, data \in Data \cup {INVALID} :
               \/ xorn_add_object(rev, type, data)
               \/ \E ob \in Issued : xorn_set_object_data(rev, ob, type, data)
          \/ \E ob \in Issued, attach_to \in Issued \cup {NULL} :
               xorn_relocate_object(rev, ob, attach_to)
          \/ \E ob \in Issued : xorn_delete_object(rev, ob)
          \/ \E sel \in SUBSET Issued : xorn_delete_selected_objects(rev, sel)
          \/ \E src \in DOMAIN live :
               \/ \E ob \in Issued : xorn_copy_object(rev, src, ob)
               \/ \E sel \in SUBSET Issued : xorn_copy_objects(rev, src, sel)
          \/ \E sel \in SUBSET Issued, value \in Data \cup {INVALID} :
               set_attr(rev, sel, value)

Spec == Init /\ [][Next]_vars

-----------------------------------------------------------------------------
(* Properties                                                              *)

\* Every variable has its type; a revision's maps have objects as keys, and
\* only the map of children also has NULL, for the top level.
TypeOK ==
  /\ DOMAIN live \subseteq Revs
  /\ \A r \in DOMAIN live :
       LET v == live[r] IN
       /\ v.is_transient \in BOOLEAN
       /\ DOMAIN v.obstates \subseteq Objects /\ Range(v.obstates) \subseteq Addrs
       /\ DOMAIN v.children \subseteq Objects \cup {NULL}
       /\ Range(v.children) \subseteq Seq(Objects)
       /\ DOMAIN v.parent \subseteq Objects
       /\ Range(v.parent) \subseteq Objects \cup {NULL}
  /\ DOMAIN heap \subseteq Addrs
  /\ Range(heap) \subseteq [refcnt : Nat, type : Types, data : Data]
  /\ next_object_id \in 0..MaxObjects
  /\ result \in {"ok", "error", "uncaught"}

\* The three maps of a revision always agree: an object is in the list of its
\* parent exactly once and in no other list, a parent exists, and only texts
\* are attached, to nets or components.  xorn_get_objects relies on this when
\* it writes the tree into an array with one slot per obstate (object.cc:168),
\* relocating when it asserts that it found the object (manipulate.cc:374).
TreeConsistent ==
  \A r \in DOMAIN live :
    LET v == live[r] IN
    /\ DOMAIN v.parent = DOMAIN v.obstates
    /\ DOMAIN v.children \subseteq DOMAIN v.obstates \cup {NULL}
    /\ \A k \in DOMAIN v.obstates \cup {NULL} :
         /\ IsInjective(Kids(v, k))
         /\ ToSet(Kids(v, k)) = {ob \in DOMAIN v.parent : v.parent[ob] = k}
    /\ \A ob \in DOMAIN v.parent :
         v.parent[ob] # NULL => /\ Exists(v, v.parent[ob])
                                /\ TypeOf(v, ob) = "text"
                                /\ TypeOf(v, v.parent[ob]) \in Holders

\* The reference count of a state is the number of objects of all revisions
\* that have it, and no state without an object is left: nothing is freed
\* while it is in use (obstate.cc:176) and nothing leaks, whichever
\* operations failed half-way.
RefcountExact ==
  /\ \A r \in DOMAIN live : Range(live[r].obstates) \subseteq DOMAIN heap
  /\ \A a \in DOMAIN heap :
       /\ heap[a].refcnt > 0
       /\ heap[a].refcnt = Cardinality({p \in (DOMAIN live) \X Objects :
                              /\ p[2] \in DOMAIN live[p[1]].obstates
                              /\ live[p[1]].obstates[p[2]] = a})

\* What a client can read from a revision.
Contents(r) ==
  LET v == live[r] IN
  [states |-> [ob \in DOMAIN v.obstates |-> [type |-> heap[v.obstates[ob]].type,
                                             data |-> heap[v.obstates[ob]].data]],
   tree   |-> [k \in DOMAIN v.obstates \cup {NULL} |-> Kids(v, k)],
   parent |-> v.parent]

\* The revisions whose contents a step changes.
Altered == {r \in DOMAIN live \cap DOMAIN live' :
              ~UNCHANGED <<live, heap>> /\ Contents(r)' # Contents(r)}

\* Although revisions share states, a call changes the contents of at most one
\* revision, never those of a finalized one, and no revision becomes
\* transient again (revision.cc:72-90 and 91).
RevisionsIndependent ==
  [][/\ Cardinality(Altered) <= 1
     /\ \A r \in DOMAIN live \cap DOMAIN live' :
          ~live[r].is_transient => r \notin Altered /\ ~live'[r].is_transient]_vars

\* A call that returns an error leaves every revision as it was, even if it
\* failed for lack of memory after half of its steps (the catch blocks of
\* manipulate.cc and attributes.cc).
FailedCallChangesNothing ==
  [][result' = "error" => DOMAIN live' = DOMAIN live /\ Altered = {}]_vars

\* Wherever an object may be moved, it ends up where the call asked for, in
\* front of the successor or at the end, and all other objects keep their order
\* (manipulate.cc:382-407, where the index of the old entry depends on which
\* side of it the new one was inserted).
RelocatePlaces ==
  \A r \in DOMAIN live : \A ob \in Issued, k \in Issued \cup {NULL} :
    CanRelocate(live[r], ob, k) =>
      \A before \in (ToSet(Kids(live[r], k)) \ {ob}) \cup {NULL} :
        LET v   == live[r]
            w   == Relocated(v, ob, k, before)
            at  == IndexIn(w.children[k], ob)
            others == Objects \ {ob}
        IN /\ \A l \in DOMAIN w.children :
                Filtered(w.children[l], others) = Filtered(Kids(v, l), others)
           /\ IF before = NULL THEN at = Len(w.children[k])
                               ELSE w.children[k][at + 1] = before
           /\ \A i \in DOMAIN w.children[k] : w.children[k][i] = ob => i = at
=============================================================================
