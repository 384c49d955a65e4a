----------------------------- MODULE Undo_proofs -----------------------------
(***************************************************************************)
(* Proofs about module Undo: type correctness, that undo_current stays in   *)
(* its list, and that no operation takes the undo file of a node that is    *)
(* still in a list; then what the list is for: a page shows the snapshot at *)
(* or below undo_current, and trimming keeps undo-levels snapshots and      *)
(* bounds their number.                                                    *)
(*                                                                         *)
(* The first three are one inductive invariant, UndoInv.  The type of       *)
(* objects depends on UndoFilesKept, for undo reads undo_file at the        *)
(* filename of a node; UndoFilesKept depends on CurrentInList, for the      *)
(* nodes that o_undo_savestate unlinks are those above undo_current.        *)
(*                                                                         *)
(* SnapshotShown is not inductive: it says nothing of a list that holds an  *)
(* empty snapshot of the memory mode, but the rest of the list may lose     *)
(* that node.  ShownInv says of every single snapshot what it is worth: it  *)
(* is shown if only viewport nodes lie between it and undo_current.         *)
(***************************************************************************)
EXTENDS Undo, FiniteSetTheorems, SequenceTheorems, TLAPS

UndoInv == TypeOK /\ CurrentInList /\ UndoFilesKept

-----------------------------------------------------------------------------
(* Lists *)

(* A list has at most as many snapshots as nodes. *)
LEMMA LevelsInRange ==
  ASSUME NEW l \in Seq(Node)
  PROVE  s_undo_levels(l) \in 0 .. Len(l)
<1> DEFINE S == {i \in DOMAIN l : HasData(l[i])}
<1>1. DOMAIN l = 1 .. Len(l) /\ Len(l) \in Nat
  BY LenProperties
<1>2. IsFiniteSet(1 .. Len(l)) /\ Cardinality(1 .. Len(l)) = Len(l)
  BY <1>1, FS_Interval
<1>3. S \in SUBSET (1 .. Len(l))
  BY <1>1
<1>4. IsFiniteSet(S) /\ Cardinality(S) <= Len(l)
  BY <1>2, <1>3, FS_Subset
<1>5. Cardinality(S) \in Nat
  BY <1>4, FS_CardinalityType
<1> QED BY <1>1, <1>4, <1>5 DEF s_undo_levels

(* Trimming removes fewer nodes than there are: "Because we use a pad you are
   always guaranteed to never exhaust the list" (o_undo.c:218).             *)
LEMMA TrimLeavesOne ==
  ASSUME NEW l \in Seq(Node), Len(l) > 0, NEW idx \in Nat
  PROVE  Trim(l, idx) \in 0 .. Len(l) - 1
<1>1. s_undo_levels(l) \in 0 .. Len(l)
  BY LevelsInRange
<1>2. Len(l) \in Nat
  BY LenProperties
<1> QED BY <1>1, <1>2, LevelsAssumption DEF Trim

(* What is on a list, of nodes or of anything, after a push. *)
LEMMA PushedItems ==
  ASSUME NEW S, NEW l \in Seq(S), NEW cur \in 0 .. Len(l), NEW n \in S
  PROVE  /\ Pushed(l, cur, n) \in Seq(S)
         /\ Len(Pushed(l, cur, n)) = cur + 1
         /\ \A i \in 1 .. cur : Pushed(l, cur, n)[i] = l[i]
         /\ Pushed(l, cur, n)[cur + 1] = n
<1> DEFINE s == SubSeq(l, 1, cur)
<1>1. Len(l) \in Nat /\ \A i \in 1 .. Len(l) : l[i] \in S
  BY LenProperties, ElementOfSeq
<1>2. /\ s \in Seq(S)
      /\ Len(s) = cur
      /\ \A i \in 1 .. cur : s[i] = l[i]
  BY <1>1, SubSeqProperties
<1> HIDE DEF s
<1>3. /\ Append(s, n) \in Seq(S)
      /\ Len(Append(s, n)) = Len(s) + 1
      /\ \A i \in 1 .. Len(s) : Append(s, n)[i] = s[i]
      /\ Append(s, n)[Len(s) + 1] = n
  BY <1>2, AppendProperties
<1>4. Pushed(l, cur, n) = Append(s, n)
  BY DEF Pushed, s
<1> QED BY <1>2, <1>3, <1>4

LEMMA PushedNodes ==
  ASSUME NEW l \in Seq(Node), NEW cur \in 0 .. Len(l), NEW n \in Node
  PROVE  /\ Pushed(l, cur, n) \in Seq(Node)
         /\ Len(Pushed(l, cur, n)) = cur + 1
         /\ \A i \in 1 .. cur : Pushed(l, cur, n)[i] = l[i]
         /\ Pushed(l, cur, n)[cur + 1] = n
BY PushedItems

(* What is left of a list without its k oldest items. *)
LEMMA TrimmedItems ==
  ASSUME NEW S, NEW l \in Seq(S), NEW k \in 0 .. Len(l) - 1
  PROVE  /\ SubSeq(l, k + 1, Len(l)) \in Seq(S)
         /\ Len(SubSeq(l, k + 1, Len(l))) = Len(l) - k
         /\ \A i \in 1 .. Len(l) - k : SubSeq(l, k + 1, Len(l))[i] = l[k + i]
<1>1. Len(l) \in Nat /\ \A i \in 1 .. Len(l) : l[i] \in S
  BY LenProperties, ElementOfSeq
<1>2. /\ SubSeq(l, k + 1, Len(l)) \in Seq(S)
      /\ Len(SubSeq(l, k + 1, Len(l))) = IF k + 1 <= Len(l) THEN Len(l) - (k + 1) + 1 ELSE 0
      /\ \A i \in 1 .. Len(l) - (k + 1) + 1 :
           SubSeq(l, k + 1, Len(l))[i] = l[(k + 1) + i - 1]
  BY <1>1, SubSeqProperties
<1> QED BY <1>1, <1>2

LEMMA TrimmedNodes ==
  ASSUME NEW l \in Seq(Node), NEW k \in 0 .. Len(l) - 1
  PROVE  /\ SubSeq(l, k + 1, Len(l)) \in Seq(Node)
         /\ Len(SubSeq(l, k + 1, Len(l))) = Len(l) - k
         /\ \A i \in 1 .. Len(l) - k : SubSeq(l, k + 1, Len(l))[i] = l[k + i]
BY TrimmedItems

(* The files of a part of a list are named by nodes of that part. *)
LEMMA FilesOfPart ==
  ASSUME NEW l \in Seq(Node), NEW m \in Nat, NEW n \in Nat,
         m >= 1, n <= Len(l), NEW f \in Files(SubSeq(l, m, n))
  PROVE  \E i \in m .. n : i \in DOMAIN l /\ l[i].filename = f /\ f # NoFile
<1> DEFINE s == SubSeq(l, m, n)
<1>1. Len(l) \in Nat /\ DOMAIN l = 1 .. Len(l) /\ \A i \in 1 .. Len(l) : l[i] \in Node
  BY LenProperties, ElementOfSeq
<1>2. /\ s \in Seq(Node)
      /\ Len(s) = IF m <= n THEN n - m + 1 ELSE 0
      /\ \A i \in 1 .. n - m + 1 : s[i] = l[m + i - 1]
  BY <1>1, SubSeqProperties
<1>3. DOMAIN s = 1 .. Len(s)
  BY <1>2, LenProperties
<1> HIDE DEF s
<1>4. PICK j \in DOMAIN s : s[j].filename = f /\ f # NoFile
  BY DEF Files, s
<1>5. /\ m <= n
      /\ j \in 1 .. n - m + 1
  BY <1>2, <1>3, <1>4
<1> DEFINE i == m + j - 1
<1>6. i \in m .. n /\ i \in DOMAIN l /\ l[i] = s[j]
  BY <1>1, <1>2, <1>5
<1> QED BY <1>4, <1>6

-----------------------------------------------------------------------------
(* o_undo_savestate *)

ListTypeOK ==
  /\ undo_list \in [Pages -> Seq(Node)]
  /\ undo_current \in [Pages -> Nat]
  /\ undo_file_index \in Nat
  /\ undo_file \in [0 .. undo_file_index - 1 -> Contents \cup {Missing}]
  /\ unwritten \in SUBSET (0 .. undo_file_index - 1)

(* What o_undo_savestate does, for whoever need not know how: node is on top
   of the cur0 oldest nodes of l0 without the k oldest of all, and the files
   of the nodes that remain, on any page, hold what they held.              *)
RestoredFrom(files, n) ==
  IF n.filename = NoFile THEN n.object_list
  ELSE IF files[n.filename] = Missing THEN EMPTY
  ELSE files[n.filename]

SameFile(n) ==
  n.filename # NoFile => /\ undo_file'[n.filename] = undo_file[n.filename]
                         /\ n.filename \in unwritten' <=> n.filename \in unwritten

SavestateEffect(p, l0, cur0, flag, c, chg, node, k) ==
  /\ node \in Node /\ node.type = flag /\ node.CHANGED = chg
  /\ flag = "VIEWPORT_ONLY" => ~HasData(node)
  /\ flag = "ALL" /\ undo_type = "DISK" => node.filename = undo_file_index
  /\ flag = "ALL" => \/ node.filename \in unwritten'
                     \/ RestoredFrom(undo_file', node) = c
  /\ k = Trim(Pushed(l0, cur0, node), undo_file_index') /\ k \in 0 .. cur0
  /\ Len(undo_list'[p]) = cur0 + 1 - k
  /\ undo_current'[p] = cur0 + 1 - k
  /\ undo_list'[p][cur0 + 1 - k] = node
  /\ \A i \in 1 .. cur0 - k : undo_list'[p][i] = l0[k + i]
  /\ undo_file_index' = IF flag = "ALL" /\ undo_type = "DISK"
                        THEN undo_file_index + 1 ELSE undo_file_index
  /\ \A q \in Pages : \A i \in DOMAIN undo_list[q] :
       q # p \/ i \in k + 1 .. cur0 => SameFile(undo_list[q][i])
  /\ unwritten' # unwritten => Cardinality(unwritten) < MaxFailures

(* o_undo_savestate, starting from the list of the page or from an empty one,
   leaves a node at undo_current, the other pages' lists alone, and the undo
   files of all nodes that remain.                                          *)
LEMMA SavestateStep ==
  ASSUME UndoInv,
         NEW p \in Pages, NEW l0 \in Seq(Node), NEW cur0 \in 0 .. Len(l0),
         NEW flag \in {"ALL", "VIEWPORT_ONLY"}, NEW c \in Contents, NEW chg \in BOOLEAN,
         \A i \in DOMAIN l0 : i \in DOMAIN undo_list[p] /\ l0[i] = undo_list[p][i],
         o_undo_savestate(p, l0, cur0, flag, c, chg)
  PROVE  /\ ListTypeOK'
         /\ undo_current'[p] \in DOMAIN undo_list'[p]
         /\ \A q \in Pages \ {p} : /\ undo_list'[q] = undo_list[q]
                                   /\ undo_current'[q] = undo_current[q]
         /\ UndoFilesKept'
         /\ \E node \in Node, k \in 0 .. cur0 :
              SavestateEffect(p, l0, cur0, flag, c, chg, node, k)
<1> DEFINE
  disk  == flag = "ALL" /\ undo_type = "DISK"
  idx   == IF disk THEN undo_file_index + 1 ELSE undo_file_index
  node  == [type        |-> flag,
            filename    |-> IF disk THEN undo_file_index ELSE NoFile,
            object_list |-> IF flag = "ALL" /\ ~disk THEN c ELSE EMPTY,
            CHANGED     |-> chg]
  l     == Pushed(l0, cur0, node)
  k     == Trim(l, idx)
  gone  == Files(SubSeq(l0, cur0 + 1, Len(l0))) \cup Files(SubSeq(l, 1, k))
  new   == SubSeq(l, k + 1, Len(l))
<1>1. PICK ok \in BOOLEAN :
        /\ undo_list' = [undo_list EXCEPT ![p] = new]
        /\ undo_current' = [undo_current EXCEPT ![p] = Len(l) - k]
        /\ undo_file_index' = idx
        /\ undo_file' =
             Unlinked([i \in 0 .. idx - 1 |->
                         IF i < undo_file_index THEN undo_file[i]
                         ELSE IF ok THEN c ELSE Missing], gone)
        /\ unwritten' = IF ok THEN unwritten ELSE unwritten \cup {undo_file_index}
        /\ IF disk THEN TRUE ELSE ok
  BY DEF o_undo_savestate
<1> HIDE DEF disk, idx, node, l, k, gone, new
<1>2. /\ ListTypeOK
      /\ undo_file_index \in Nat
      /\ undo_list[p] \in Seq(Node)
  BY DEF UndoInv, TypeOK, ListTypeOK
<1>3. node \in Node /\ idx \in Nat /\ idx >= undo_file_index
  BY <1>2, ContentsAssumption DEF Node, NoFile, node, idx
<1>4. /\ l \in Seq(Node)
      /\ Len(l) = cur0 + 1
      /\ \A i \in 1 .. cur0 : l[i] = l0[i]
      /\ l[cur0 + 1] = node
  BY <1>3, PushedNodes DEF l
<1>5. k \in 0 .. Len(l) - 1
  BY <1>3, <1>4, TrimLeavesOne DEF k
<1>6. /\ new \in Seq(Node)
      /\ Len(new) = Len(l) - k
      /\ \A i \in 1 .. Len(l) - k : new[i] = l[k + i]
  BY <1>4, <1>5, TrimmedNodes DEF new
<1>7. /\ Len(l0) \in Nat
      /\ DOMAIN l0 = 1 .. Len(l0)
      /\ DOMAIN l = 1 .. cur0 + 1
      /\ DOMAIN new = 1 .. cur0 + 1 - k
  <2>1. Len(l0) \in Nat /\ DOMAIN l0 = 1 .. Len(l0)
    BY LenProperties
  <2>2. DOMAIN l = 1 .. Len(l) /\ DOMAIN new = 1 .. Len(new)
    BY <1>4, <1>6, LenProperties
  <2>3. Len(l) = cur0 + 1 /\ Len(l) - k = cur0 + 1 - k
    BY <1>4, <1>5, <2>1
  <2> QED BY <1>6, <2>1, <2>2, <2>3
<1>8. /\ undo_list'[p] = new
      /\ undo_current'[p] = cur0 + 1 - k
      /\ \A q \in Pages \ {p} : /\ undo_list'[q] = undo_list[q]
                                /\ undo_current'[q] = undo_current[q]
  <2>1. undo_list \in [Pages -> Seq(Node)] /\ undo_current \in [Pages -> Nat]
    BY <1>2 DEF ListTypeOK
  <2>2. Len(l) - k = cur0 + 1 - k
    BY <1>4, <1>5, <1>7
  <2> QED BY <1>1, <2>1, <2>2
(* A node of the new list is the pushed one or one of undo_list[p]. *)
<1>9. ASSUME NEW i \in DOMAIN new
      PROVE  \/ new[i] = node /\ k + i = cur0 + 1
             \/ /\ k + i \in DOMAIN undo_list[p]
                /\ k + i \in 1 .. cur0
                /\ new[i] = undo_list[p][k + i]
  <2>1. i \in 1 .. cur0 + 1 - k /\ k + i \in 1 .. cur0 + 1 /\ new[i] = l[k + i]
    BY <1>4, <1>5, <1>6, <1>7
  <2>2. CASE k + i = cur0 + 1
    BY <1>4, <2>1, <2>2
  <2>3. CASE k + i \in 1 .. cur0
    BY <1>4, <1>7, <2>1, <2>3
  <2> QED BY <2>1, <2>2, <2>3
<1>10. ListTypeOK'
  <2>1. undo_list' \in [Pages -> Seq(Node)] /\ undo_current' \in [Pages -> Nat]
    <3>1. undo_list \in [Pages -> Seq(Node)] /\ undo_current \in [Pages -> Nat]
      BY <1>2 DEF ListTypeOK
    <3>2. new \in Seq(Node) /\ Len(l) - k \in Nat
      BY <1>4, <1>5, <1>6
    <3> QED BY <1>1, <3>1, <3>2
  <2>2. undo_file' \in [0 .. undo_file_index' - 1 -> Contents \cup {Missing}]
    BY <1>1, <1>2, <1>3 DEF Unlinked, ListTypeOK
  <2>3. unwritten' \in SUBSET (0 .. undo_file_index' - 1)
    <3>1. 0 .. undo_file_index - 1 \subseteq 0 .. idx - 1
      BY <1>2, <1>3
    <3>2. CASE ok
      BY <1>1, <1>2, <3>1, <3>2 DEF ListTypeOK
    <3>3. CASE ~ok
      <4>1. undo_file_index \in 0 .. idx - 1
        BY <1>1, <1>2, <3>3 DEF idx
      <4> QED BY <1>1, <1>2, <3>1, <3>3, <4>1 DEF ListTypeOK
    <3> QED BY <3>2, <3>3
  <2> QED BY <1>1, <1>3, <2>1, <2>2, <2>3 DEF ListTypeOK
<1>11. undo_current'[p] \in DOMAIN undo_list'[p]
  BY <1>4, <1>5, <1>7, <1>8
(* The files that are unlinked were named by nodes that are not kept. *)
<1>12. ASSUME NEW f \in gone
       PROVE  \E i \in DOMAIN undo_list[p] : /\ undo_list[p][i].filename = f
                                            /\ f # NoFile
                                            /\ i \notin k + 1 .. cur0
  <2>1. CASE f \in Files(SubSeq(l0, cur0 + 1, Len(l0)))
    <3>1. \E i \in cur0 + 1 .. Len(l0) : i \in DOMAIN l0 /\ l0[i].filename = f /\ f # NoFile
      BY <1>7, <2>1, FilesOfPart
    <3> QED BY <1>5, <1>4, <3>1
  <2>2. CASE f \in Files(SubSeq(l, 1, k))
    <3>1. PICK i \in 1 .. k : i \in DOMAIN l /\ l[i].filename = f /\ f # NoFile
      BY <1>4, <1>5, <2>2, FilesOfPart
    <3>2. i \in 1 .. cur0
      BY <1>4, <1>5, <3>1
    <3>3. i \in DOMAIN undo_list[p] /\ l[i] = undo_list[p][i]
      BY <1>4, <1>7, <3>2
    <3>4. i \notin k + 1 .. cur0
      BY <1>5, <3>1
    <3> QED BY <3>1, <3>3, <3>4
  <2> QED BY <2>1, <2>2 DEF gone
(* A file that was there and is not unlinked is still there. *)
<1>13. ASSUME NEW f \in Nat, f < undo_file_index, f \notin gone,
              f \in unwritten \/ undo_file[f] # Missing
       PROVE  f < undo_file_index' /\ (f \in unwritten' \/ undo_file'[f] # Missing)
  <2>1. f \in 0 .. idx - 1 /\ f < undo_file_index'
    BY <1>1, <1>2, <1>3, <1>13
  <2>2. undo_file'[f] = undo_file[f]
    BY <1>1, <1>13, <2>1 DEF Unlinked
  <2>3. unwritten \subseteq unwritten'
    BY <1>1
  <2> QED BY <1>13, <2>1, <2>2, <2>3
<1>14. ASSUME NEW q \in Pages, NEW i \in DOMAIN undo_list[q],
              undo_list[q][i].filename # NoFile
       PROVE  /\ undo_list[q][i].filename \in Nat
              /\ undo_list[q][i].filename < undo_file_index
              /\ \/ undo_list[q][i].filename \in unwritten
                 \/ undo_file[undo_list[q][i].filename] # Missing
  <2>1. undo_list[q] \in Seq(Node)
    BY <1>2 DEF ListTypeOK
  <2>2. undo_list[q][i] \in Node
    BY <2>1, LenProperties, ElementOfSeq
  <2> QED BY <1>14, <2>2 DEF UndoInv, UndoFilesKept, Node
<1>15. ASSUME NEW q \in Pages, NEW r \in Pages,
              NEW i \in DOMAIN undo_list[q], NEW j \in DOMAIN undo_list[r],
              undo_list[q][i].filename # NoFile,
              undo_list[q][i].filename = undo_list[r][j].filename
       PROVE  q = r /\ i = j
  BY <1>15 DEF UndoInv, UndoFilesKept
<1>16. ASSUME NEW q \in Pages, NEW i \in DOMAIN undo_list'[q],
              undo_list'[q][i].filename # NoFile
       PROVE  LET f == undo_list'[q][i].filename
              IN f < undo_file_index' /\ (f \in unwritten' \/ undo_file'[f] # Missing)
  <2> DEFINE f == undo_list'[q][i].filename
  <2>1. CASE q # p
    <3>1. undo_list'[q] = undo_list[q]
      BY <1>8, <2>1
    <3>2. f \notin gone
      BY <1>12, <1>15, <1>16, <2>1, <3>1
    <3> QED BY <1>13, <1>14, <1>16, <3>1, <3>2
  <2>2. CASE q = p /\ new[i] = node
    <3>1. f = node.filename /\ disk /\ f = undo_file_index
      BY <1>8, <1>16, <2>2 DEF node
    <3>2. f \notin gone
      BY <1>2, <1>12, <1>14, <3>1
    <3>3. f \in 0 .. idx - 1 /\ f < undo_file_index'
      BY <1>1, <1>2, <3>1 DEF idx
    <3>4. undo_file'[f] = IF ok THEN c ELSE Missing
      BY <1>1, <1>2, <3>1, <3>2, <3>3 DEF Unlinked
    <3> QED BY <1>1, <3>1, <3>3, <3>4, ContentsAssumption
  <2>3. CASE q = p /\ new[i] # node
    <3>1. /\ k + i \in DOMAIN undo_list[p]
          /\ k + i \in 1 .. cur0
          /\ new[i] = undo_list[p][k + i]
          /\ i \in 1 .. cur0 + 1 - k
      BY <1>7, <1>8, <1>9, <2>3
    <3>2. k + i \in k + 1 .. cur0
      BY <1>5, <3>1
    <3>3. f \notin gone
      BY <1>8, <1>12, <1>15, <1>16, <2>3, <3>1, <3>2
    <3> QED BY <1>8, <1>13, <1>14, <1>16, <2>3, <3>1, <3>3
  <2> QED BY <2>1, <2>2, <2>3
<1>17. ASSUME NEW q \in Pages, NEW r \in Pages,
              NEW i \in DOMAIN undo_list'[q], NEW j \in DOMAIN undo_list'[r],
              undo_list'[q][i].filename # NoFile,
              undo_list'[q][i].filename = undo_list'[r][j].filename
       PROVE  q = r /\ i = j
  (* A node of a list is either an old one, somewhere, or the pushed one. *)
  <2>1. ASSUME NEW s \in Pages, NEW h \in DOMAIN undo_list'[s]
        PROVE  \/ /\ s = p /\ h = cur0 + 1 - k
                  /\ undo_list'[s][h] = node
               \/ LET d == IF s = p THEN k ELSE 0
                  IN d + h \in DOMAIN undo_list[s] /\ undo_list'[s][h] = undo_list[s][d + h]
    <3>1. CASE s = p
      <4>1. h \in DOMAIN new /\ h \in 1 .. cur0 + 1 - k
        BY <1>7, <1>8, <2>1, <3>1
      <4> QED BY <1>5, <1>4, <1>8, <1>9, <3>1, <4>1
    <3>2. CASE s # p
      <4>1. undo_list'[s] = undo_list[s] /\ undo_list[s] \in Seq(Node)
        BY <1>2, <1>8, <3>2 DEF ListTypeOK
      <4>2. h \in 1 .. Len(undo_list[s])
        BY <2>1, <4>1, LenProperties
      <4> QED BY <3>2, <4>1, <4>2, LenProperties
    <3> QED BY <3>1, <3>2
  <2>2. \A s \in Pages : \A h \in DOMAIN undo_list[s] :
          node.filename # NoFile => undo_list[s][h].filename # node.filename
    BY <1>2, <1>14 DEF node
  <2> DEFINE D(s) == IF s = p THEN k ELSE 0
             Old(s, h) == /\ D(s) + h \in DOMAIN undo_list[s]
                          /\ undo_list'[s][h] = undo_list[s][D(s) + h]
  <2>3. CASE Old(q, i) /\ Old(r, j)
    <3>1. q = r /\ D(q) + i = D(r) + j
      BY <1>15, <1>17, <2>3
    <3>2. i \in Int /\ j \in Int
      BY <1>10, LenProperties DEF ListTypeOK
    <3> QED BY <1>5, <3>1, <3>2
  <2>4. CASE ~Old(q, i) /\ Old(r, j)
    BY <1>17, <2>1, <2>2, <2>4
  <2>5. CASE Old(q, i) /\ ~Old(r, j)
    BY <1>17, <2>1, <2>2, <2>5
  <2>6. CASE ~Old(q, i) /\ ~Old(r, j)
    BY <2>1, <2>6
  <2> QED BY <2>3, <2>4, <2>5, <2>6
<1>18. ASSUME NEW q \in Pages, NEW i \in DOMAIN undo_list[q], q # p \/ i \in k + 1 .. cur0
       PROVE  SameFile(undo_list[q][i])
  <2> DEFINE f == undo_list[q][i].filename
  <2> SUFFICES ASSUME f # NoFile
               PROVE  undo_file'[f] = undo_file[f] /\ (f \in unwritten' <=> f \in unwritten)
    BY DEF SameFile
  <2>1. f \in Nat /\ f < undo_file_index
    BY <1>14
  <2>2. f \notin gone
    BY <1>12, <1>15, <1>18
  <2>3. f \in 0 .. idx - 1
    BY <1>2, <1>3, <2>1
  <2>4. undo_file'[f] = undo_file[f]
    BY <1>1, <2>1, <2>2, <2>3 DEF Unlinked
  <2> QED BY <1>1, <1>2, <2>1, <2>4
<1>19. flag = "ALL" => node.filename \in unwritten' \/ RestoredFrom(undo_file', node) = c
  <2>1. CASE disk
    <3>1. node.filename = undo_file_index /\ undo_file_index # NoFile
      BY <1>2, <2>1 DEF node, NoFile
    <3>2. undo_file_index \notin gone
      BY <1>2, <1>12, <1>14
    <3>3. undo_file_index \in 0 .. idx - 1
      BY <1>2, <2>1 DEF idx
    <3>4. undo_file'[undo_file_index] = IF ok THEN c ELSE Missing
      BY <1>1, <1>2, <3>2, <3>3 DEF Unlinked
    <3> QED BY <1>1, <3>1, <3>4, ContentsAssumption DEF RestoredFrom
  <2>2. CASE ~disk
    BY <2>2 DEF node, RestoredFrom
  <2> QED BY <2>1, <2>2
<1>20. /\ node.type = flag /\ node.CHANGED = chg
       /\ flag = "VIEWPORT_ONLY" => ~HasData(node)
       /\ flag = "ALL" /\ undo_type = "DISK" => node.filename = undo_file_index
       /\ undo_file_index' = IF flag = "ALL" /\ undo_type = "DISK"
                             THEN undo_file_index + 1 ELSE undo_file_index
  BY <1>1 DEF node, HasData, idx, disk
<1>21. /\ k \in 0 .. cur0 /\ k = Trim(Pushed(l0, cur0, node), undo_file_index')
       /\ Len(undo_list'[p]) = cur0 + 1 - k
       /\ undo_current'[p] = cur0 + 1 - k
  BY <1>1, <1>4, <1>5, <1>6, <1>7, <1>8 DEF k, l
<1>22. /\ undo_list'[p][cur0 + 1 - k] = node
       /\ \A i \in 1 .. cur0 - k : undo_list'[p][i] = l0[k + i]
  <2>1. cur0 + 1 - k \in 1 .. Len(l) - k /\ k + (cur0 + 1 - k) = cur0 + 1
    BY <1>4, <1>7, <1>21
  <2>2. \A i \in 1 .. cur0 - k : i \in 1 .. Len(l) - k /\ k + i \in 1 .. cur0
    BY <1>4, <1>7, <1>21
  <2> QED BY <1>4, <1>6, <1>8, <2>1, <2>2
<1>23. unwritten' # unwritten => Cardinality(unwritten) < MaxFailures
  BY DEF o_undo_savestate
<1>24. SavestateEffect(p, l0, cur0, flag, c, chg, node, k)
  BY <1>3, <1>18, <1>19, <1>20, <1>21, <1>22, <1>23 DEF SavestateEffect
<1> QED BY <1>3, <1>8, <1>10, <1>11, <1>16, <1>17, <1>21, <1>24 DEF UndoFilesKept

-----------------------------------------------------------------------------
(* The initial states and the steps *)

(* The invariant holds when the first page has just been opened. *)
LEMMA InitInv == Init => UndoInv
<1> SUFFICES ASSUME Init PROVE UndoInv
  OBVIOUS
<1> DEFINE node(c) == [type        |-> "ALL",
                       filename    |-> IF undo_type = "DISK" THEN 0 ELSE NoFile,
                       object_list |-> IF undo_type = "DISK" THEN EMPTY ELSE c,
                       CHANGED     |-> FALSE]
<1>1. PICK p \in Pages, c \in Contents :
        /\ open = {p}
        /\ page_current = p
        /\ objects = [q \in Pages |-> IF q = p THEN c ELSE EMPTY]
        /\ undo_list = [q \in Pages |-> IF q = p THEN <<node(c)>> ELSE <<>>]
        /\ undo_current = [q \in Pages |-> IF q = p THEN 1 ELSE 0]
        /\ undo_file_index = IF undo_type = "DISK" THEN 1 ELSE 0
        /\ undo_file = [i \in 0 .. undo_file_index - 1 |-> c]
  BY DEF Init
<1>2. /\ undo_type \in UndoTypes /\ undo_panzoom \in PanZooms
      /\ CHANGED = [q \in Pages |-> FALSE]
      /\ unwritten = {} /\ action = "none" /\ freed_twice = FALSE
  BY DEF Init
<1>3. node(c) \in Node
  BY ContentsAssumption DEF Node, NoFile
<1> HIDE DEF node
<1>4. <<node(c)>> \in Seq(Node) /\ <<>> \in Seq(Node)
  BY <1>3
<1>5. /\ <<node(c)>>[1] = node(c)
      /\ DOMAIN <<node(c)>> = {1}
      /\ DOMAIN <<>> = {}
  OBVIOUS
<1>6. undo_file_index \in Nat
  BY <1>1
<1>7. TypeOK
  <2>1. undo_list \in [Pages -> Seq(Node)]
    BY <1>1, <1>4
  <2>2. undo_file \in [0 .. undo_file_index - 1 -> Contents \cup {Missing}]
    BY <1>1
  <2> QED BY <1>1, <1>2, <1>6, <2>1, <2>2, ContentsAssumption DEF TypeOK, Actions
<1>8. CurrentInList
  BY <1>1, <1>5 DEF CurrentInList
<1>9. UndoFilesKept
  <2>1. \A q \in Pages : \A i \in DOMAIN undo_list[q] : q = p /\ i = 1
    BY <1>1, <1>5
  <2>2. undo_list[p][1].filename # NoFile =>
          /\ undo_type = "DISK"
          /\ undo_list[p][1].filename = 0
          /\ undo_file[0] # Missing
    <3>1. undo_list[p][1] = node(c)
      BY <1>1, <1>5
    <3>2. CASE undo_type = "DISK"
      <4>1. undo_file_index = 1 /\ 0 \in 0 .. undo_file_index - 1
        BY <1>1, <3>2
      <4>2. undo_file[0] = c
        BY <1>1, <4>1
      <4> QED BY <3>1, <3>2, <4>2, ContentsAssumption DEF node
    <3>3. CASE undo_type # "DISK"
      BY <3>1, <3>3 DEF node
    <3> QED BY <3>2, <3>3
  <2> QED BY <1>1, <2>1, <2>2 DEF UndoFilesKept
<1> QED BY <1>7, <1>8, <1>9 DEF UndoInv

(* The data a node restores is an object list of a page. *)
LEMMA RestoredContents ==
  ASSUME UndoInv, NEW p \in Pages, NEW i \in DOMAIN undo_list[p]
  PROVE  Restored(undo_list[p][i]) \in Contents
<1> DEFINE n == undo_list[p][i]
<1>1. undo_list \in [Pages -> Seq(Node)] /\ undo_file_index \in Nat
      /\ undo_file \in [0 .. undo_file_index - 1 -> Contents \cup {Missing}]
  BY DEF UndoInv, TypeOK
<1>2. n \in Node
  BY <1>1, LenProperties, ElementOfSeq
<1>3. CASE n.filename = NoFile
  BY <1>2, <1>3 DEF Restored, Node
<1>4. CASE n.filename # NoFile
  <2>1. n.filename \in Nat /\ n.filename < undo_file_index
    BY <1>2, <1>4 DEF UndoInv, UndoFilesKept, Node
  <2>2. undo_file[n.filename] \in Contents \cup {Missing}
    BY <1>1, <2>1
  <2> QED BY <1>4, <2>2, ContentsAssumption DEF Restored
<1> QED BY <1>3, <1>4

(* Undo and redo leave the lists and the files alone and move undo_current
   inside the list.                                                         *)
LEMMA CallbackInv ==
  ASSUME UndoInv, NEW p \in open, NEW to, o_undo_callback(p, to)
  PROVE  UndoInv'
<1> DEFINE from == Source(undo_list[p], undo_current[p], to)
<1>1. p \in Pages /\ to \in DOMAIN undo_list[p] /\ undo_list[p] \in Seq(Node)
  BY DEF UndoInv, TypeOK, o_undo_callback
<1>2. to \in Nat /\ DOMAIN undo_list[p] = 1 .. Len(undo_list[p]) /\ Len(undo_list[p]) \in Nat
  BY <1>1, LenProperties
<1>3. from \subseteq DOMAIN undo_list[p]
  BY <1>1, <1>2 DEF Source, o_undo_find_prev
<1>4. undo_list[p][to].CHANGED \in BOOLEAN
  <2>1. undo_list[p][to] \in Node
    BY <1>1, <1>2, ElementOfSeq
  <2> QED BY <2>1 DEF Node
<1>5. objects' \in [Pages -> Contents]
  <2>1. objects \in [Pages -> Contents]
    BY DEF UndoInv, TypeOK
  <2>2. objects' = IF from = {} THEN objects
                   ELSE [objects EXCEPT ![p] =
                           Restored(undo_list[p][CHOOSE j \in from : TRUE])]
    BY DEF o_undo_callback
  <2>3. from # {} => (CHOOSE j \in from : TRUE) \in DOMAIN undo_list[p]
    BY <1>3
  <2> HIDE DEF from
  <2>4. from # {} => Restored(undo_list[p][CHOOSE j \in from : TRUE]) \in Contents
    BY <1>1, <2>3, RestoredContents
  <2> QED BY <2>1, <2>2, <2>4
<1>6. /\ CHANGED' = [CHANGED EXCEPT ![p] = undo_list[p][to].CHANGED]
      /\ undo_current' = [undo_current EXCEPT ![p] = to]
      /\ action' \in {action, "stale"}
      /\ freed_twice' \in BOOLEAN
      /\ UNCHANGED <<config, pagevars, undo_list, filevars>>
  BY DEF o_undo_callback, UndoInv, TypeOK
<1>7. TypeOK'
  BY <1>1, <1>2, <1>4, <1>5, <1>6
  DEF UndoInv, TypeOK, Actions, config, pagevars, filevars
<1>8. CurrentInList'
  BY <1>1, <1>6 DEF UndoInv, TypeOK, CurrentInList, pagevars
<1>9. UndoFilesKept'
  BY <1>6 DEF UndoInv, UndoFilesKept, filevars
<1> QED BY <1>7, <1>8, <1>9 DEF UndoInv

(* A step that does not push or move on a list, which leaves the open pages'
   lists as they are, keeps the invariant.                                  *)
LEMMA ListsAlone ==
  ASSUME UndoInv, TypeOK', UNCHANGED <<open, listvars, filevars>>
  PROVE  UndoInv'
BY DEF UndoInv, CurrentInList, UndoFilesKept, listvars, filevars

(* The same with the savestate of a page that is or becomes open. *)
LEMMA SavestateInv ==
  ASSUME UndoInv,
         NEW p \in Pages, NEW l0 \in Seq(Node), NEW cur0 \in 0 .. Len(l0),
         NEW flag \in {"ALL", "VIEWPORT_ONLY"}, NEW c \in Contents, NEW chg \in BOOLEAN,
         \A i \in DOMAIN l0 : i \in DOMAIN undo_list[p] /\ l0[i] = undo_list[p][i],
         o_undo_savestate(p, l0, cur0, flag, c, chg),
         open' = open \cup {p}, page_current' \in open',
         objects' \in [Pages -> Contents], CHANGED' \in [Pages -> BOOLEAN],
         action' \in Actions, UNCHANGED <<config, freed_twice>>
  PROVE  UndoInv'
<1>1. /\ ListTypeOK'
      /\ undo_current'[p] \in DOMAIN undo_list'[p]
      /\ \A q \in Pages \ {p} : /\ undo_list'[q] = undo_list[q]
                                /\ undo_current'[q] = undo_current[q]
      /\ UndoFilesKept'
  BY SavestateStep
<1>2. TypeOK'
  BY <1>1 DEF UndoInv, TypeOK, ListTypeOK, config
<1>3. CurrentInList'
  BY <1>1 DEF UndoInv, CurrentInList
<1> QED BY <1>1, <1>2, <1>3 DEF UndoInv

(* A command that modifies the current page keeps the invariant. *)
LEMMA ModifyInv ==
  ASSUME UndoInv, NEW c \in Contents, NEW next \in Actions, Modify(c, next)
  PROVE  UndoInv'
<1> DEFINE p == page_current
<1>1. /\ p \in open /\ p \in Pages /\ open \subseteq Pages
      /\ undo_list[p] \in Seq(Node)
      /\ objects \in [Pages -> Contents] /\ CHANGED \in [Pages -> BOOLEAN]
  BY DEF UndoInv, TypeOK
<1>2. undo_current[p] \in 0 .. Len(undo_list[p])
  <2>1. DOMAIN undo_list[p] = 1 .. Len(undo_list[p]) /\ Len(undo_list[p]) \in Nat
    BY <1>1, LenProperties
  <2> QED BY <1>1, <2>1 DEF UndoInv, CurrentInList
<1>3. /\ o_undo_savestate(p, undo_list[p], undo_current[p], "ALL", c, TRUE)
      /\ objects' = [objects EXCEPT ![p] = c]
      /\ CHANGED' = [CHANGED EXCEPT ![p] = TRUE]
      /\ action' = next
      /\ UNCHANGED <<config, pagevars, freed_twice>>
  BY DEF Modify
<1>4. /\ open' = open \cup {p} /\ page_current' \in open'
      /\ objects' \in [Pages -> Contents] /\ CHANGED' \in [Pages -> BOOLEAN]
      /\ action' \in Actions /\ UNCHANGED <<config, freed_twice>>
  BY <1>1, <1>3 DEF pagevars
<1>5. \A i \in DOMAIN undo_list[p] :
        i \in DOMAIN undo_list[p] /\ undo_list[p][i] = undo_list[p][i]
  OBVIOUS
<1> HIDE DEF p
<1> QED BY <1>1, <1>2, <1>3, <1>4, <1>5, SavestateInv

(* So does the page that is opened, or takes the place of p, with its root. *)
LEMMA NewRootInv ==
  ASSUME UndoInv, NEW p \in Pages, NewRoot(p), open' = open \cup {p},
         page_current' \in open', action' \in Actions, UNCHANGED <<config, freed_twice>>
  PROVE  UndoInv'
<1>1. PICK c \in Contents, chg \in BOOLEAN :
        /\ objects' = [objects EXCEPT ![p] = c]
        /\ CHANGED' = [CHANGED EXCEPT ![p] = chg]
        /\ o_undo_savestate(p, <<>>, 0, "ALL", c, chg)
  BY DEF NewRoot
<1>2. objects' \in [Pages -> Contents] /\ CHANGED' \in [Pages -> BOOLEAN]
  BY <1>1 DEF UndoInv, TypeOK
<1> DEFINE l0 == <<>>
<1>3. /\ l0 \in Seq(Node) /\ 0 \in 0 .. Len(l0)
      /\ \A i \in DOMAIN l0 : i \in DOMAIN undo_list[p] /\ l0[i] = undo_list[p][i]
  OBVIOUS
<1>4. o_undo_savestate(p, l0, 0, "ALL", c, chg)
  BY <1>1
<1> HIDE DEF l0
<1> QED BY <1>2, <1>3, <1>4, SavestateInv

(* Every step of the editor keeps the invariant. *)
LEMMA NextInv == UndoInv /\ [Next]_vars => UndoInv'
<1> SUFFICES ASSUME UndoInv, [Next]_vars PROVE UndoInv'
  OBVIOUS
<1>1. /\ page_current \in open /\ open \subseteq Pages
      /\ TypeOK /\ CurrentInList /\ UndoFilesKept
  BY DEF UndoInv, TypeOK
<1>2. CASE EditUndo
  <2>1. CASE action # "none"
    <3>1. TypeOK' /\ UNCHANGED <<open, listvars, filevars>>
      BY <1>1, <1>2, <2>1
      DEF EditUndo, TypeOK, Actions, config, pagevars, docvars, listvars, filevars
    <3> QED BY <3>1, ListsAlone
  <2>2. CASE action = "none"
    BY <1>1, <1>2, <2>2, CallbackInv DEF EditUndo
  <2> QED BY <2>1, <2>2
<1>3. CASE EditRedo
  BY <1>1, <1>3, CallbackInv DEF EditRedo
<1>4. CASE Edit \/ MoveEnd \/ PlaceEnd
  <2>1. PICK c \in Contents, next \in Actions : Modify(c, next)
    BY <1>4 DEF Edit, MoveEnd, PlaceEnd, Actions
  <2> QED BY <2>1, ModifyInv
<1>5. CASE MoveStart \/ PlaceStart
  <2>1. TypeOK' /\ UNCHANGED <<open, listvars, filevars>>
    BY <1>1, <1>5 DEF MoveStart, PlaceStart, TypeOK, Actions, config, pagevars,
                      docvars, listvars, filevars
  <2> QED BY <2>1, ListsAlone
<1>6. CASE Zoom
  <2> DEFINE p == page_current
  <2>1. /\ p \in Pages /\ undo_list[p] \in Seq(Node)
        /\ objects[p] \in Contents /\ CHANGED[p] \in BOOLEAN
    BY <1>1 DEF TypeOK
  <2>2. undo_current[p] \in 0 .. Len(undo_list[p])
    <3>1. DOMAIN undo_list[p] = 1 .. Len(undo_list[p]) /\ Len(undo_list[p]) \in Nat
      BY <2>1, LenProperties
    <3> QED BY <1>1, <2>1, <3>1 DEF CurrentInList
  <2>3. o_undo_savestate(p, undo_list[p], undo_current[p], "VIEWPORT_ONLY",
                         objects[p], CHANGED[p])
    BY <1>6 DEF Zoom
  <2>4. /\ open' = open \cup {p} /\ page_current' \in open'
        /\ objects' \in [Pages -> Contents] /\ CHANGED' \in [Pages -> BOOLEAN]
        /\ action' \in Actions /\ UNCHANGED <<config, freed_twice>>
    BY <1>1, <1>6 DEF Zoom, TypeOK, pagevars, docvars
  <2>5. \A i \in DOMAIN undo_list[p] :
          i \in DOMAIN undo_list[p] /\ undo_list[p][i] = undo_list[p][i]
    OBVIOUS
  <2> HIDE DEF p
  <2> QED BY <2>1, <2>2, <2>3, <2>4, <2>5, SavestateInv, SMTT(20)
<1>7. ASSUME NEW p \in Pages, SavePage(p) \/ SwitchPage(p) PROVE UndoInv'
  <2>1. TypeOK' /\ UNCHANGED <<open, listvars, filevars>>
    BY <1>1, <1>7 DEF SavePage, SwitchPage, TypeOK, Actions, config, pagevars,
                      docvars, listvars, filevars
  <2> QED BY <2>1, ListsAlone
<1>8. ASSUME NEW p \in Pages, OpenPage(p) PROVE UndoInv'
  <2>1. /\ NewRoot(p) /\ open' = open \cup {p} /\ page_current' \in open'
        /\ action' \in Actions /\ UNCHANGED <<config, freed_twice>>
    BY <1>8 DEF OpenPage, Actions
  <2> QED BY <2>1, NewRootInv
<1>9. ASSUME NEW p \in Pages, ReplacePage(p) PROVE UndoInv'
  <2>1. /\ NewRoot(p) /\ open' = open \cup {p} /\ page_current' \in open'
        /\ action' \in Actions /\ UNCHANGED <<config, freed_twice>>
    BY <1>1, <1>9 DEF ReplacePage, Actions, pagevars
  <2> QED BY <2>1, NewRootInv
<1>10. ASSUME NEW p \in Pages, ClosePage(p) PROVE UndoInv'
  <2>1. /\ undo_list' = [undo_list EXCEPT ![p] = <<>>]
        /\ undo_current' = [undo_current EXCEPT ![p] = 0]
        /\ open' = open \ {p}
        /\ UNCHANGED filevars
    BY <1>10 DEF ClosePage
  <2>2. <<>> \in Seq(Node) /\ DOMAIN <<>> = {}
    OBVIOUS
  <2>3. TypeOK'
    <3>1. page_current' \in open'
      BY <1>1, <1>10 DEF ClosePage
    <3> QED BY <1>1, <1>10, <2>1, <2>2, <3>1, ContentsAssumption
            DEF ClosePage, TypeOK, Actions, config, filevars
  <2>4. CurrentInList'
    BY <1>1, <2>1 DEF CurrentInList, TypeOK
  <2>5. UndoFilesKept'
    <3>1. \A q \in Pages : undo_list'[q] = IF q = p THEN <<>> ELSE undo_list[q]
      BY <1>1, <2>1 DEF TypeOK
    <3> QED BY <1>1, <2>1, <2>2, <3>1 DEF UndoFilesKept, filevars
  <2> QED BY <2>3, <2>4, <2>5 DEF UndoInv
<1>11. CASE UNCHANGED vars
  <2>1. TypeOK' /\ UNCHANGED <<open, listvars, filevars>>
    BY <1>1, <1>11 DEF TypeOK, vars, config, pagevars, docvars, listvars, filevars
  <2> QED BY <2>1, ListsAlone
<1> QED BY <1>2, <1>3, <1>4, <1>5, <1>6, <1>7, <1>8, <1>9, <1>10, <1>11 DEF Next

-----------------------------------------------------------------------------
(* Theorems *)

(* The inductive invariant holds in every reachable state of the editor. *)
THEOREM UndoInvariant == Spec => []UndoInv
BY InitInv, NextInv, PTL DEF Spec

(* Every variable keeps its type: in particular undo and redo only ever show
   object lists, whatever the undo files hold or lack (o_undo.c:427-436).   *)
THEOREM TypeCorrect == Spec => []TypeOK
<1>1. UndoInv => TypeOK
  BY DEF UndoInv
<1> QED BY <1>1, UndoInvariant, PTL

(* undo_current of an open page always points to a node of its list, after
   any trimming and clearing of the list (o_undo.c:134-179, 202-252).       *)
THEOREM CurrentAlwaysInList == Spec => []CurrentInList
<1>1. UndoInv => CurrentInList
  BY DEF UndoInv
<1> QED BY <1>1, UndoInvariant, PTL

(* For any number of pages, undo levels, padding and savestates, the undo
   file of a node in any page's list is never unlinked, nor written by
   another node (o_undo.c:116-120, 228, s_undo.c:271).                      *)
THEOREM UndoFilesAlwaysKept == Spec => []UndoFilesKept
<1>1. UndoInv => UndoFilesKept
  BY DEF UndoInv
<1> QED BY <1>1, UndoInvariant, PTL

-----------------------------------------------------------------------------
(* What a page shows *)

(* A node of a viewport change carries no data. *)
ViewportBare ==
  \A p \in Pages : \A i \in DOMAIN undo_list[p] :
    undo_list[p][i].type = "VIEWPORT_ONLY" => ~HasData(undo_list[p][i])

Agrees(p) ==
  \A j \in SnapshotAt(undo_list[p], undo_current[p]) :
    /\ \A k \in j + 1 .. undo_current[p] : undo_list[p][k].type # "ALL"
    /\ undo_list[p][j].filename \notin unwritten
    => objects[p] = Restored(undo_list[p][j])

ShownInv == UndoInv /\ ViewportBare /\ \A p \in open : Agrees(p)

-----------------------------------------------------------------------------
(* The snapshot at or below a node *)

LEMMA ListShape ==
  ASSUME TypeOK, NEW p \in Pages
  PROVE  /\ Len(undo_list[p]) \in Nat
         /\ DOMAIN undo_list[p] = 1 .. Len(undo_list[p])
         /\ \A i \in DOMAIN undo_list[p] : undo_list[p][i] \in Node
         /\ undo_current[p] \in Nat
<1>1. undo_list[p] \in Seq(Node) /\ undo_current[p] \in Nat
  BY DEF TypeOK
<1> QED BY <1>1, LenProperties, ElementOfSeq

(* There is at most one such snapshot. *)
LEMMA SnapshotUnique ==
  ASSUME NEW l, NEW i \in Nat, NEW j \in SnapshotAt(l, i)
  PROVE  SnapshotAt(l, i) = {j} /\ (CHOOSE m \in SnapshotAt(l, i) : TRUE) = j
<1>1. ASSUME NEW m \in SnapshotAt(l, i) PROVE m = j
  <2>1. m \in 1 .. i /\ j \in 1 .. i /\ HasData(l[m]) /\ HasData(l[j])
    BY <1>1 DEF SnapshotAt
  <2>2. m \notin j + 1 .. i /\ j \notin m + 1 .. i
    BY <1>1, <2>1 DEF SnapshotAt
  <2> QED BY <2>1, <2>2
<1>2. SnapshotAt(l, i) = {j}
  BY <1>1
<1> QED BY <1>2

(* A node without data has the snapshot of the node below. *)
LEMMA SnapshotBelow ==
  ASSUME NEW l, NEW i \in Nat, i >= 1, ~HasData(l[i])
  PROVE  SnapshotAt(l, i) = SnapshotAt(l, i - 1)
BY DEF SnapshotAt

LEMMA SnapshotHere ==
  ASSUME NEW l, NEW i \in Nat, i >= 1, HasData(l[i])
  PROVE  SnapshotAt(l, i) = {i}
<1>1. i \in SnapshotAt(l, i)
  BY DEF SnapshotAt
<1> QED BY <1>1, SnapshotUnique

-----------------------------------------------------------------------------
(* Undo and redo *)

(* What o_undo_callback shows: the snapshot at or below the node it reaches,
   unless that is the one at or below the node it leaves, too.              *)
LEMMA CallbackSource ==
  ASSUME ViewportBare, TypeOK, NEW p \in Pages,
         NEW to \in {undo_current[p] - 1, undo_current[p] + 1},
         to \in DOMAIN undo_list[p], undo_current[p] \in DOMAIN undo_list[p]
  PROVE  LET l   == undo_list[p]
             cur == undo_current[p]
         IN \/ Source(l, cur, to) = SnapshotAt(l, to)
            \/ /\ Source(l, cur, to) = {}
               /\ ~HasData(l[to])
               /\ \/ l[to].type = "ALL"
                  \/ /\ l[to].type = "VIEWPORT_ONLY" /\ l[cur].type = "VIEWPORT_ONLY"
                     /\ SnapshotAt(l, to) = SnapshotAt(l, cur)
<1> DEFINE l   == undo_list[p]
           cur == undo_current[p]
<1>1. /\ to \in Nat /\ to >= 1 /\ cur \in Nat /\ cur >= 1
      /\ l[to].type \in {"ALL", "VIEWPORT_ONLY"}
      /\ l[cur].type \in {"ALL", "VIEWPORT_ONLY"}
      /\ l[to].type = "VIEWPORT_ONLY" => ~HasData(l[to])
      /\ l[cur].type = "VIEWPORT_ONLY" => ~HasData(l[cur])
  BY ListShape DEF ViewportBare, Node
<1>2. to = cur - 1 \/ to = cur + 1
  OBVIOUS
<1> HIDE DEF l, cur
<1>3. CASE HasData(l[to])
  BY <1>1, <1>3, SnapshotHere DEF Source, l, cur
<1>4. CASE ~HasData(l[to]) /\ l[cur].type = "ALL" /\ l[to].type = "VIEWPORT_ONLY"
  <2>1. o_undo_find_prev(l, to) = SnapshotAt(l, to - 1)
    BY <1>1 DEF o_undo_find_prev, SnapshotAt
  <2>2. SnapshotAt(l, to) = SnapshotAt(l, to - 1)
    BY <1>1, <1>4, SnapshotBelow
  <2> QED BY <1>4, <2>1, <2>2 DEF Source, l, cur
<1>5. CASE /\ ~HasData(l[to]) /\ l[cur].type = "VIEWPORT_ONLY"
           /\ l[to].type = "VIEWPORT_ONLY"
  <2>1. ~HasData(l[cur])
    BY <1>1, <1>5
  <2>2. to = cur - 1 => SnapshotAt(l, cur) = SnapshotAt(l, to)
    BY <1>1, <2>1, SnapshotBelow
  <2>3. to = cur + 1 => SnapshotAt(l, to) = SnapshotAt(l, to - 1) /\ to - 1 = cur
    BY <1>1, <1>5, SnapshotBelow
  <2> QED BY <1>2, <1>5, <2>2, <2>3 DEF Source, l, cur
<1>6. CASE ~HasData(l[to]) /\ l[to].type = "ALL"
  BY <1>6 DEF Source, l, cur
<1> QED BY <1>1, <1>3, <1>4, <1>5, <1>6

LEMMA CallbackAgrees ==
  ASSUME ShownInv, NEW p \in open,
         NEW to \in {undo_current[p] - 1, undo_current[p] + 1},
         o_undo_callback(p, to)
  PROVE  ViewportBare' /\ \A q \in open' : Agrees(q)'
<1> DEFINE l    == undo_list[p]
           cur  == undo_current[p]
           from == Source(l, cur, to)
<1>1. /\ p \in Pages /\ open \subseteq Pages
      /\ objects \in [Pages -> Contents] /\ undo_current \in [Pages -> Nat]
      /\ to \in DOMAIN l /\ cur \in DOMAIN l
      /\ to \in Nat /\ to >= 1 /\ cur \in Nat
  <2>1. /\ p \in Pages /\ open \subseteq Pages /\ TypeOK
        /\ objects \in [Pages -> Contents] /\ undo_current \in [Pages -> Nat]
    BY DEF ShownInv, UndoInv, TypeOK
  <2>2. to \in DOMAIN l /\ cur \in DOMAIN l
    BY <2>1 DEF ShownInv, UndoInv, CurrentInList, o_undo_callback
  <2> QED BY <2>1, <2>2, ListShape
<1>2. /\ undo_current' = [undo_current EXCEPT ![p] = to]
      /\ objects' = IF from = {} THEN objects
                    ELSE [objects EXCEPT ![p] = Restored(l[CHOOSE j \in from : TRUE])]
      /\ UNCHANGED <<open, undo_list, undo_file, unwritten>>
  BY DEF o_undo_callback, pagevars, filevars
<1>3. undo_current'[p] = to /\ \A q \in Pages \ {p} : undo_current'[q] = undo_current[q]
                                                   /\ objects'[q] = objects[q]
  BY <1>1, <1>2
<1>4. \A n : Restored(n)' = Restored(n)
  BY <1>2 DEF Restored
<1>5. ViewportBare'
  BY <1>2 DEF ShownInv, ViewportBare
<1>6. ASSUME NEW q \in open', q # p PROVE Agrees(q)'
  BY <1>1, <1>2, <1>3, <1>6 DEF ShownInv, Agrees, Restored
<1>7. Agrees(p)'
  <2> SUFFICES ASSUME NEW j \in SnapshotAt(l, to),
                      \A k \in j + 1 .. to : l[k].type # "ALL",
                      l[j].filename \notin unwritten
               PROVE  objects'[p] = Restored(l[j])
    <3>1. undo_list'[p] = l /\ undo_current'[p] = to /\ unwritten' = unwritten
          /\ undo_file' = undo_file
      BY <1>2, <1>3
    <3> HIDE DEF l
    <3> QED BY <3>1 DEF Agrees, Restored, SnapshotAt, HasData
  <2>1. SnapshotAt(l, to) = {j} /\ (CHOOSE m \in SnapshotAt(l, to) : TRUE) = j /\ j \in 1 .. to
    BY <1>1, SnapshotUnique DEF SnapshotAt
  <2>2. CASE from = SnapshotAt(l, to)
    <3>1. from # {} /\ (CHOOSE m \in from : TRUE) = j
      BY <2>1, <2>2
    <3> HIDE DEF from
    <3> QED BY <1>1, <1>2, <3>1
  <2>3. CASE /\ from = {} /\ ~HasData(l[to])
             /\ l[to].type = "ALL"
    <3>1. HasData(l[j])
      BY DEF SnapshotAt
    <3>2. j # to /\ to \in j + 1 .. to
      BY <1>1, <2>1, <2>3, <3>1
    <3> QED BY <2>3, <3>2
  <2>4. CASE /\ from = {} /\ ~HasData(l[to])
             /\ l[to].type = "VIEWPORT_ONLY" /\ l[cur].type = "VIEWPORT_ONLY"
             /\ SnapshotAt(l, to) = SnapshotAt(l, cur)
    <3>1. \A k \in j + 1 .. cur : l[k].type # "ALL"
      BY <1>1, <2>1, <2>4
    <3>2. objects[p] = Restored(l[j])
      BY <1>1, <2>4, <3>1 DEF ShownInv, Agrees
    <3> QED BY <1>2, <2>4, <3>2
  <2>5. ViewportBare /\ TypeOK
    BY DEF ShownInv, UndoInv
  <2> QED BY <1>1, <2>2, <2>3, <2>4, <2>5, CallbackSource
<1> QED BY <1>5, <1>6, <1>7

-----------------------------------------------------------------------------
(* o_undo_savestate *)

LEMMA SameRestored ==
  ASSUME TypeOK, TypeOK', NEW n \in Node, SameFile(n)
  PROVE  /\ RestoredFrom(undo_file', n) = Restored(n)
         /\ n.filename \in unwritten' <=> n.filename \in unwritten
<1>1. CASE n.filename = NoFile
  <2>1. /\ unwritten \in SUBSET (0 .. undo_file_index - 1)
        /\ unwritten' \in SUBSET (0 .. undo_file_index' - 1)
    BY DEF TypeOK
  <2>2. NoFile \notin unwritten /\ NoFile \notin unwritten'
    BY <2>1 DEF NoFile
  <2> QED BY <1>1, <2>2 DEF RestoredFrom, Restored
<1>2. CASE n.filename # NoFile
  BY <1>2 DEF SameFile, RestoredFrom, Restored
<1> QED BY <1>1, <1>2

(* The old nodes of the new list, and what they restore. *)
LEMMA OldNodes ==
  ASSUME TypeOK, TypeOK',
         NEW p \in Pages, NEW l0 \in Seq(Node), NEW cur0 \in 0 .. Len(l0),
         NEW flag, NEW c, NEW chg, NEW node, NEW k \in 0 .. cur0,
         \A i \in DOMAIN l0 : i \in DOMAIN undo_list[p] /\ l0[i] = undo_list[p][i],
         SavestateEffect(p, l0, cur0, flag, c, chg, node, k)
  PROVE  /\ DOMAIN undo_list'[p] = 1 .. cur0 + 1 - k
         /\ \A i \in 1 .. cur0 - k :
              LET n == undo_list[p][k + i]
              IN /\ k + i \in DOMAIN undo_list[p]
                 /\ n \in Node
                 /\ undo_list'[p][i] = n
                 /\ RestoredFrom(undo_file', n) = Restored(n)
                 /\ n.filename \in unwritten' <=> n.filename \in unwritten
<1>1. Len(l0) \in Nat /\ DOMAIN l0 = 1 .. Len(l0) /\ cur0 \in Nat /\ k \in Nat /\ k <= cur0
  BY LenProperties
<1>2. DOMAIN undo_list'[p] = 1 .. cur0 + 1 - k
  <2>1. undo_list'[p] \in Seq(Node) /\ Len(undo_list'[p]) = cur0 + 1 - k
    BY DEF TypeOK, SavestateEffect
  <2> QED BY <2>1, LenProperties
<1>3. ASSUME NEW i \in 1 .. cur0 - k
      PROVE  /\ k + i \in DOMAIN undo_list[p]
             /\ undo_list[p][k + i] \in Node
             /\ undo_list'[p][i] = undo_list[p][k + i]
             /\ SameFile(undo_list[p][k + i])
  <2>1. k + i \in k + 1 .. cur0 /\ k + i \in DOMAIN l0
    BY <1>1
  <2>2. k + i \in DOMAIN undo_list[p] /\ l0[k + i] = undo_list[p][k + i]
    BY <2>1
  <2> QED BY <2>1, <2>2, ListShape DEF SavestateEffect
<1> QED BY <1>2, <1>3, SameRestored

LEMMA OtherNodes ==
  ASSUME TypeOK, TypeOK',
         NEW p \in Pages, NEW l0, NEW cur0, NEW flag, NEW c, NEW chg, NEW node, NEW k,
         SavestateEffect(p, l0, cur0, flag, c, chg, node, k),
         NEW q \in Pages \ {p}, undo_list'[q] = undo_list[q]
  PROVE  \A i \in DOMAIN undo_list[q] :
           LET n == undo_list[q][i]
           IN /\ n \in Node
              /\ RestoredFrom(undo_file', n) = Restored(n)
              /\ n.filename \in unwritten' <=> n.filename \in unwritten
<1>1. \A i \in DOMAIN undo_list[q] : undo_list[q][i] \in Node /\ SameFile(undo_list[q][i])
  BY ListShape DEF SavestateEffect
<1> QED BY <1>1, SameRestored

LEMMA SavestateAgrees ==
  ASSUME ShownInv, UndoInv',
         NEW p \in Pages, NEW l0 \in Seq(Node), NEW cur0 \in 0 .. Len(l0),
         NEW flag \in {"ALL", "VIEWPORT_ONLY"}, NEW c \in Contents, NEW chg,
         NEW node \in Node, NEW k \in 0 .. cur0,
         \A i \in DOMAIN l0 : i \in DOMAIN undo_list[p] /\ l0[i] = undo_list[p][i],
         SavestateEffect(p, l0, cur0, flag, c, chg, node, k),
         \A q \in Pages \ {p} : /\ undo_list'[q] = undo_list[q]
                               /\ undo_current'[q] = undo_current[q],
         objects'[p] = c,
         flag = "VIEWPORT_ONLY" => p \in open /\ cur0 = undo_current[p] /\ c = objects[p],
         \A q \in open' \ {p} : q \in open /\ objects'[q] = objects[q]
  PROVE  ViewportBare' /\ \A q \in open' : Agrees(q)'
<1> DEFINE old == undo_list[p]
           new == undo_list'[p]
           top == cur0 + 1 - k
<1>1. TypeOK /\ TypeOK' /\ ViewportBare /\ open' \subseteq Pages
  BY DEF ShownInv, UndoInv, TypeOK
<1>2. Len(l0) \in Nat /\ cur0 \in Nat /\ k \in Nat /\ k <= cur0 /\ top \in Nat /\ top >= 1
  BY LenProperties
<1>3. /\ node.type = flag
      /\ flag = "VIEWPORT_ONLY" => ~HasData(node)
      /\ flag = "ALL" => node.filename \in unwritten' \/ RestoredFrom(undo_file', node) = c
      /\ undo_current'[p] = top
      /\ new[top] = node
  BY DEF SavestateEffect
<1>4. /\ DOMAIN new = 1 .. top
      /\ \A i \in 1 .. cur0 - k : k + i \in DOMAIN old /\ new[i] = old[k + i]
  BY <1>1, OldNodes
<1>5. \A i \in 1 .. cur0 - k :
        /\ RestoredFrom(undo_file', old[k + i]) = Restored(old[k + i])
        /\ old[k + i].filename \in unwritten' <=> old[k + i].filename \in unwritten
  BY <1>1, OldNodes
<1>6. \A i \in 1 .. top : i = top \/ i \in 1 .. cur0 - k
  BY <1>2
<1>7. ViewportBare'
  <2>1. ASSUME NEW i \in DOMAIN new, new[i].type = "VIEWPORT_ONLY" PROVE ~HasData(new[i])
    <3>1. CASE i = top
      BY <1>3, <2>1, <3>1
    <3>2. CASE i \in 1 .. cur0 - k
      <4>1. k + i \in DOMAIN old /\ new[i] = old[k + i]
        BY <1>4, <3>2
      <4> QED BY <1>1, <2>1, <4>1 DEF ViewportBare
    <3> QED BY <1>4, <1>6, <3>1, <3>2
  <2>2. \A q \in Pages \ {p} : undo_list'[q] = undo_list[q]
    OBVIOUS
  <2> QED BY <1>1, <2>1, <2>2 DEF ViewportBare, HasData
<1>8. ASSUME NEW q \in open', q # p PROVE Agrees(q)'
  <2>1. /\ q \in open /\ q \in Pages \ {p} /\ objects'[q] = objects[q]
        /\ undo_list'[q] = undo_list[q] /\ undo_current'[q] = undo_current[q]
        /\ Agrees(q) /\ undo_current[q] \in DOMAIN undo_list[q]
    BY <1>1, <1>8 DEF ShownInv, UndoInv, CurrentInList
  <2>2. \A i \in DOMAIN undo_list[q] :
          LET n == undo_list[q][i]
          IN /\ RestoredFrom(undo_file', n) = Restored(n)
             /\ n.filename \in unwritten' <=> n.filename \in unwritten
    BY <1>1, <2>1, OtherNodes
  <2>3. 1 .. undo_current[q] \subseteq DOMAIN undo_list[q]
    BY <1>1, <2>1, ListShape
  <2>4. SUFFICES ASSUME NEW j \in SnapshotAt(undo_list[q], undo_current[q]),
                        \A i \in j + 1 .. undo_current[q] : undo_list[q][i].type # "ALL",
                        undo_list[q][j].filename \notin unwritten'
                 PROVE  objects[q] = RestoredFrom(undo_file', undo_list[q][j])
    BY <2>1 DEF Agrees, SnapshotAt, HasData, Restored, RestoredFrom
  <2>5. j \in DOMAIN undo_list[q]
    BY <2>3 DEF SnapshotAt
  <2> QED BY <2>1, <2>2, <2>4, <2>5 DEF Agrees
<1>9. ASSUME p \in open' PROVE Agrees(p)'
  <2>1. SUFFICES ASSUME NEW j \in SnapshotAt(new, top),
                        \A i \in j + 1 .. top : new[i].type # "ALL",
                        new[j].filename \notin unwritten'
                 PROVE  c = RestoredFrom(undo_file', new[j])
    BY <1>3 DEF Agrees, SnapshotAt, HasData, Restored, RestoredFrom
  <2>2. j \in 1 .. top /\ HasData(new[j]) /\ \A i \in j + 1 .. top : ~HasData(new[i])
    BY DEF SnapshotAt
  <2>3. CASE flag = "ALL"
    <3>1. j = top
      BY <1>2, <1>3, <2>1, <2>2, <2>3
    <3> QED BY <1>3, <2>1, <2>3, <3>1
  <2>4. CASE flag = "VIEWPORT_ONLY"
    <3>1. j \in 1 .. cur0 - k
      BY <1>3, <1>6, <2>2, <2>4
    <3> DEFINE m == k + j
    <3>2. /\ new[j] = old[m] /\ m \in 1 .. cur0
          /\ \A i \in m + 1 .. cur0 : i - k \in j + 1 .. top /\ new[i - k] = old[i]
      <4>1. \A i \in m + 1 .. cur0 : i - k \in 1 .. cur0 - k /\ i - k \in j + 1 .. top /\ k + (i - k) = i
        BY <1>2, <2>2
      <4>2. \A i \in 1 .. cur0 - k : new[i] = old[k + i]
        BY <1>4
      <4>3. m \in 1 .. cur0
        BY <1>2, <3>1
      <4> HIDE DEF new, old, top
      <4> QED BY <3>1, <4>1, <4>2, <4>3
    <3>3. m \in SnapshotAt(old, cur0)
      BY <2>2, <3>2 DEF SnapshotAt
    <3>4. \A i \in m + 1 .. cur0 : old[i].type # "ALL"
      BY <2>1, <3>2
    <3>5. old[m].filename \notin unwritten
      BY <1>5, <2>1, <3>1, <3>2
    <3>6. objects[p] = Restored(old[m])
      BY <2>4, <3>3, <3>4, <3>5 DEF ShownInv, Agrees
    <3>7. RestoredFrom(undo_file', old[m]) = Restored(old[m])
      BY <1>5, <3>1
    <3> QED BY <2>4, <3>2, <3>6, <3>7
  <2> QED BY <2>3, <2>4
<1> QED BY <1>7, <1>8, <1>9

-----------------------------------------------------------------------------
(* The steps of the editor *)

(* A step that pushes a node: on the list of a page, or as the root of a page
   that has just been opened or replaced.                                   *)
Pushes(p, l0, cur0, flag, c, chg, node, k) ==
  /\ SavestateEffect(p, l0, cur0, flag, c, chg, node, k)
  /\ \A q \in Pages \ {p} : /\ undo_list'[q] = undo_list[q]
                            /\ undo_current'[q] = undo_current[q]
  /\ objects' = [objects EXCEPT ![p] = c]
  /\ CHANGED' = [CHANGED EXCEPT ![p] = chg]
  /\ open' = open \cup {p}
  /\ \/ p \in open /\ l0 = undo_list[p] /\ cur0 = undo_current[p]
     \/ l0 = <<>> /\ cur0 = 0 /\ flag = "ALL"
  /\ flag = "VIEWPORT_ONLY" => undo_panzoom /\ c = objects[p] /\ chg = CHANGED[p]

PushStep ==
  \E p \in Pages, l0 \in Seq(Node), cur0 \in Nat, flag \in {"ALL", "VIEWPORT_ONLY"},
     c \in Contents, chg \in BOOLEAN, node \in Node, k \in Nat :
    /\ cur0 \in 0 .. Len(l0) /\ k \in 0 .. cur0
    /\ \A i \in DOMAIN l0 : i \in DOMAIN undo_list[p] /\ l0[i] = undo_list[p][i]
    /\ Pushes(p, l0, cur0, flag, c, chg, node, k)

CallbackStep ==
  \E p \in open : \E to \in {undo_current[p] - 1, undo_current[p] + 1} :
    o_undo_callback(p, to)

SavedStep ==
  /\ UNCHANGED <<open, objects, listvars, filevars>>
  /\ \/ UNCHANGED CHANGED
     \/ \E p \in open : CHANGED' = [CHANGED EXCEPT ![p] = FALSE]

LEMMA PushOnList ==
  ASSUME UndoInv, NEW flag \in {"ALL", "VIEWPORT_ONLY"},
         NEW c \in Contents, NEW chg \in BOOLEAN,
         o_undo_savestate(page_current, undo_list[page_current],
                          undo_current[page_current], flag, c, chg),
         objects' = [objects EXCEPT ![page_current] = c],
         CHANGED' = [CHANGED EXCEPT ![page_current] = chg],
         open' = open,
         flag = "VIEWPORT_ONLY" => /\ undo_panzoom /\ c = objects[page_current]
                                   /\ chg = CHANGED[page_current]
  PROVE  PushStep
<1> DEFINE p == page_current
           l0 == undo_list[p]
           cur0 == undo_current[p]
<1>1. p \in open /\ p \in Pages /\ l0 \in Seq(Node) /\ TypeOK
  BY DEF UndoInv, TypeOK
<1>2. cur0 \in Nat /\ cur0 \in 0 .. Len(l0)
  <2>1. cur0 \in DOMAIN l0
    BY <1>1 DEF UndoInv, CurrentInList
  <2> QED BY <1>1, <2>1, ListShape
<1>3. \A i \in DOMAIN l0 : i \in DOMAIN undo_list[p] /\ l0[i] = undo_list[p][i]
  OBVIOUS
<1>4. o_undo_savestate(p, l0, cur0, flag, c, chg)
  OBVIOUS
<1>5. /\ p \in open /\ l0 = undo_list[p] /\ cur0 = undo_current[p]
      /\ objects' = [objects EXCEPT ![p] = c] /\ CHANGED' = [CHANGED EXCEPT ![p] = chg]
      /\ open' = open \cup {p}
      /\ flag = "VIEWPORT_ONLY" => undo_panzoom /\ c = objects[p] /\ chg = CHANGED[p]
  BY <1>1
<1> HIDE DEF p, l0, cur0
<1>6. PICK node \in Node, k \in 0 .. cur0 :
        /\ SavestateEffect(p, l0, cur0, flag, c, chg, node, k)
        /\ \A q \in Pages \ {p} : /\ undo_list'[q] = undo_list[q]
                                  /\ undo_current'[q] = undo_current[q]
  BY <1>1, <1>2, <1>3, <1>4, SavestateStep
<1>7. Pushes(p, l0, cur0, flag, c, chg, node, k)
  BY <1>5, <1>6 DEF Pushes
<1>8. k \in Nat
  BY <1>2, <1>6
<1> QED BY <1>1, <1>2, <1>3, <1>6, <1>7, <1>8 DEF PushStep

LEMMA PushRoot ==
  ASSUME UndoInv, NEW p \in Pages, NewRoot(p), open' = open \cup {p}
  PROVE  PushStep
<1>1. PICK c \in Contents, chg \in BOOLEAN :
        /\ objects' = [objects EXCEPT ![p] = c]
        /\ CHANGED' = [CHANGED EXCEPT ![p] = chg]
        /\ o_undo_savestate(p, <<>>, 0, "ALL", c, chg)
  BY DEF NewRoot
<1> DEFINE l0   == <<>>
           cur0 == 0
           flag == "ALL"
<1>2. /\ l0 \in Seq(Node) /\ cur0 \in 0 .. Len(l0) /\ cur0 \in Nat
      /\ flag \in {"ALL", "VIEWPORT_ONLY"} /\ flag # "VIEWPORT_ONLY"
      /\ \A i \in DOMAIN l0 : i \in DOMAIN undo_list[p] /\ l0[i] = undo_list[p][i]
  OBVIOUS
<1>3. o_undo_savestate(p, l0, cur0, flag, c, chg)
  BY <1>1
<1>4. l0 = <<>> /\ cur0 = 0 /\ flag = "ALL"
  OBVIOUS
<1> HIDE DEF l0, cur0, flag
<1>5. PICK node \in Node, k \in 0 .. cur0 :
        /\ SavestateEffect(p, l0, cur0, flag, c, chg, node, k)
        /\ \A q \in Pages \ {p} : /\ undo_list'[q] = undo_list[q]
                                  /\ undo_current'[q] = undo_current[q]
  BY <1>2, <1>3, SavestateStep
<1>6. Pushes(p, l0, cur0, flag, c, chg, node, k)
  BY <1>1, <1>2, <1>5, <1>4 DEF Pushes
<1>7. k \in Nat
  BY <1>2, <1>5
<1> QED BY <1>2, <1>5, <1>6, <1>7 DEF PushStep

(* Every step pushes a node, is an undo or redo, closes a page, or leaves the
   lists and what the pages show alone.                                     *)
LEMMA StepCases ==
  ASSUME UndoInv, [Next]_vars
  PROVE  /\ PushStep \/ CallbackStep \/ SavedStep \/ \E p \in Pages : ClosePage(p)
         /\ UNCHANGED config
<1>1. page_current \in open /\ open \subseteq Pages /\ page_current \in Pages
      /\ objects \in [Pages -> Contents] /\ CHANGED \in [Pages -> BOOLEAN]
  BY DEF UndoInv, TypeOK
<1>2. CASE EditUndo
  <2>1. CASE action # "none"
    BY <1>2, <2>1 DEF EditUndo, SavedStep, config, pagevars, docvars
  <2>2. CASE action = "none"
    BY <1>1, <1>2, <2>2 DEF EditUndo, CallbackStep, o_undo_callback
  <2> QED BY <2>1, <2>2
<1>3. CASE EditRedo
  BY <1>1, <1>3 DEF EditRedo, CallbackStep, o_undo_callback
<1>4. CASE Edit \/ MoveEnd \/ PlaceEnd
  <2>1. PICK c \in Contents, next \in Actions : Modify(c, next)
    BY <1>4 DEF Edit, MoveEnd, PlaceEnd, Actions
  <2>2. /\ o_undo_savestate(page_current, undo_list[page_current],
                            undo_current[page_current], "ALL", c, TRUE)
        /\ objects' = [objects EXCEPT ![page_current] = c]
        /\ CHANGED' = [CHANGED EXCEPT ![page_current] = TRUE]
        /\ open' = open /\ UNCHANGED config
    BY <2>1 DEF Modify, pagevars
  <2> QED BY <2>2, PushOnList
<1>5. CASE MoveStart \/ PlaceStart
  BY <1>5 DEF MoveStart, PlaceStart, SavedStep, pagevars, docvars
<1>6. CASE Zoom
  <2>1. /\ o_undo_savestate(page_current, undo_list[page_current],
                            undo_current[page_current], "VIEWPORT_ONLY",
                            objects[page_current], CHANGED[page_current])
        /\ undo_panzoom /\ open' = open /\ UNCHANGED config
        /\ objects' = objects /\ CHANGED' = CHANGED
    BY <1>6 DEF Zoom, pagevars, docvars
  <2>2. /\ objects' = [objects EXCEPT ![page_current] = objects[page_current]]
        /\ CHANGED' = [CHANGED EXCEPT ![page_current] = CHANGED[page_current]]
        /\ objects[page_current] \in Contents /\ CHANGED[page_current] \in BOOLEAN
    BY <1>1, <2>1
  <2> QED BY <2>1, <2>2, PushOnList
<1>7. ASSUME NEW p \in Pages, SavePage(p) \/ SwitchPage(p)
      PROVE  SavedStep /\ UNCHANGED config
  BY <1>7 DEF SavePage, SwitchPage, SavedStep, pagevars, docvars
<1>8. ASSUME NEW p \in Pages, OpenPage(p) PROVE PushStep /\ UNCHANGED config
  BY <1>8, PushRoot DEF OpenPage
<1>9. ASSUME NEW p \in Pages, ReplacePage(p) PROVE PushStep /\ UNCHANGED config
  <2>1. NewRoot(p) /\ open' = open \cup {p} /\ UNCHANGED config
    BY <1>9 DEF ReplacePage, pagevars
  <2> QED BY <2>1, PushRoot
<1>10. ASSUME NEW p \in Pages, ClosePage(p) PROVE UNCHANGED config
  BY <1>10 DEF ClosePage
<1>11. CASE UNCHANGED vars
  BY <1>11 DEF vars, SavedStep, pagevars, docvars
<1> QED BY <1>2, <1>3, <1>4, <1>5, <1>6, <1>7, <1>8, <1>9, <1>10, <1>11 DEF Next

-----------------------------------------------------------------------------
(* A page shows the snapshot at or below undo_current *)

LEMMA InitShown == Init => ShownInv
<1> SUFFICES ASSUME Init PROVE ShownInv
  OBVIOUS
<1>1. UndoInv
  BY InitInv
<1> DEFINE node(c) == [type        |-> "ALL",
                       filename    |-> IF undo_type = "DISK" THEN 0 ELSE NoFile,
                       object_list |-> IF undo_type = "DISK" THEN EMPTY ELSE c,
                       CHANGED     |-> FALSE]
<1>2. PICK p \in Pages, c \in Contents :
        /\ open = {p}
        /\ objects = [q \in Pages |-> IF q = p THEN c ELSE EMPTY]
        /\ undo_list = [q \in Pages |-> IF q = p THEN <<node(c)>> ELSE <<>>]
        /\ undo_current = [q \in Pages |-> IF q = p THEN 1 ELSE 0]
        /\ undo_file_index = IF undo_type = "DISK" THEN 1 ELSE 0
        /\ undo_file = [i \in 0 .. undo_file_index - 1 |-> c]
  BY DEF Init
<1>3. /\ undo_list[p][1] = node(c) /\ DOMAIN undo_list[p] = {1} /\ undo_current[p] = 1
      /\ \A q \in Pages \ {p} : DOMAIN undo_list[q] = {}
  <2>1. DOMAIN <<node(c)>> = {1} /\ <<node(c)>>[1] = node(c) /\ DOMAIN <<>> = {}
    OBVIOUS
  <2> HIDE DEF node
  <2> QED BY <1>2, <2>1
<1>4. ViewportBare
  <2>1. node(c).type = "ALL"
    OBVIOUS
  <2> HIDE DEF node
  <2>2. \A q \in Pages : \A i \in DOMAIN undo_list[q] : undo_list[q][i] = node(c)
    BY <1>3
  <2> QED BY <2>1, <2>2 DEF ViewportBare
<1>5. Restored(node(c)) = c
  <2>1. CASE undo_type = "DISK"
    <3>1. undo_file_index = 1 /\ 0 \in 0 .. undo_file_index - 1
      BY <1>2, <2>1
    <3>2. undo_file[0] = c
      BY <1>2, <3>1
    <3>3. node(c).filename = 0 /\ 0 # NoFile
      BY <2>1 DEF NoFile
    <3> HIDE DEF node
    <3> QED BY <3>2, <3>3, ContentsAssumption DEF Restored
  <2>2. CASE undo_type # "DISK"
    BY <2>2 DEF Restored
  <2> QED BY <2>1, <2>2
<1> HIDE DEF node
<1>6. Agrees(p)
  <2>1. \A j \in SnapshotAt(undo_list[p], undo_current[p]) : j = 1
    BY <1>3 DEF SnapshotAt
  <2>2. objects[p] = c
    BY <1>2
  <2> QED BY <1>3, <1>5, <2>1, <2>2 DEF Agrees
<1> QED BY <1>1, <1>2, <1>4, <1>6 DEF ShownInv

LEMMA NextShown == ShownInv /\ [Next]_vars => ShownInv'
<1> SUFFICES ASSUME ShownInv, [Next]_vars PROVE ShownInv'
  OBVIOUS
<1>1. UndoInv /\ UndoInv' /\ ViewportBare
  BY NextInv DEF ShownInv
<1>2. /\ open \subseteq Pages /\ open' \subseteq Pages
      /\ objects \in [Pages -> Contents]
      /\ undo_list \in [Pages -> Seq(Node)] /\ undo_current \in [Pages -> Nat]
  BY <1>1 DEF UndoInv, TypeOK
<1> SUFFICES ViewportBare' /\ \A q \in open' : Agrees(q)'
  BY <1>1 DEF ShownInv
<1>3. CASE PushStep
  <2>1. PICK p \in Pages, l0 \in Seq(Node), cur0 \in Nat, flag \in {"ALL", "VIEWPORT_ONLY"},
             c \in Contents, chg \in BOOLEAN, node \in Node, k \in Nat :
          /\ cur0 \in 0 .. Len(l0) /\ k \in 0 .. cur0
          /\ \A i \in DOMAIN l0 : i \in DOMAIN undo_list[p] /\ l0[i] = undo_list[p][i]
          /\ Pushes(p, l0, cur0, flag, c, chg, node, k)
    BY <1>3 DEF PushStep
  <2>2. /\ SavestateEffect(p, l0, cur0, flag, c, chg, node, k)
        /\ \A q \in Pages \ {p} : /\ undo_list'[q] = undo_list[q]
                                  /\ undo_current'[q] = undo_current[q]
        /\ objects'[p] = c
        /\ flag = "VIEWPORT_ONLY" => p \in open /\ cur0 = undo_current[p] /\ c = objects[p]
        /\ \A q \in open' \ {p} : q \in open /\ objects'[q] = objects[q]
    BY <1>2, <2>1 DEF Pushes
  <2> QED BY <1>1, <2>1, <2>2, SavestateAgrees
<1>4. CASE CallbackStep
  BY <1>4, CallbackAgrees DEF CallbackStep
<1>5. CASE SavedStep
  BY <1>1, <1>5 DEF SavedStep, ShownInv, ViewportBare, Agrees, SnapshotAt, HasData,
                    Restored, listvars, filevars
<1>6. ASSUME NEW p \in Pages, ClosePage(p)
      PROVE  ViewportBare' /\ \A q \in open' : Agrees(q)'
  <2>1. /\ open' = open \ {p}
        /\ undo_list' = [undo_list EXCEPT ![p] = <<>>]
        /\ undo_current' = [undo_current EXCEPT ![p] = 0]
        /\ objects' = [objects EXCEPT ![p] = EMPTY]
        /\ undo_file' = undo_file /\ unwritten' = unwritten
    BY <1>6 DEF ClosePage, filevars
  <2>2. /\ DOMAIN undo_list'[p] = {}
        /\ \A q \in Pages \ {p} : /\ undo_list'[q] = undo_list[q]
                                  /\ undo_current'[q] = undo_current[q]
                                  /\ objects'[q] = objects[q]
    BY <1>2, <2>1
  <2>3. ViewportBare'
    BY <1>1, <2>2 DEF ViewportBare, HasData
  <2>4. ASSUME NEW q \in open' PROVE Agrees(q)'
    <3>1. q \in open /\ q \in Pages \ {p}
      BY <1>2, <2>1
    <3>2. Agrees(q)
      BY <3>1 DEF ShownInv
    <3> QED BY <2>1, <2>2, <3>1, <3>2 DEF Agrees, SnapshotAt, HasData, Restored
  <2> QED BY <2>3, <2>4
<1> QED BY <1>1, <1>3, <1>4, <1>5, <1>6, StepCases

LEMMA ShownInvImplies == ShownInv => SnapshotShown
<1> SUFFICES ASSUME ShownInv, NEW p \in open,
                    \A i \in DOMAIN undo_list[p] :
                      undo_list[p][i].type = "ALL" => HasData(undo_list[p][i]),
                    NEW j \in SnapshotAt(undo_list[p], undo_current[p]),
                    undo_list[p][j].filename \notin unwritten
             PROVE  objects[p] = Restored(undo_list[p][j])
  BY DEF SnapshotShown
<1>1. TypeOK /\ p \in Pages /\ undo_current[p] \in DOMAIN undo_list[p]
  BY DEF ShownInv, UndoInv, TypeOK, CurrentInList
<1>2. 1 .. undo_current[p] \subseteq DOMAIN undo_list[p]
  BY <1>1, ListShape
<1>3. \A k \in j + 1 .. undo_current[p] : k \in DOMAIN undo_list[p] /\ ~HasData(undo_list[p][k])
  BY <1>1, <1>2, ListShape DEF SnapshotAt
<1>4. \A k \in j + 1 .. undo_current[p] : undo_list[p][k].type # "ALL"
  BY <1>3
<1> QED BY <1>4 DEF ShownInv, Agrees

(* Whatever the user does, on any number of pages, an open page shows the
   nearest snapshot at or below its undo_current (o_undo.c:79-252, 366-500),
   in either undo type and whichever files could not be written.            *)
THEOREM SnapshotAlwaysShown == Spec => []SnapshotShown
<1>1. Spec => []ShownInv
  BY InitShown, NextShown, PTL DEF Spec
<1> QED BY <1>1, ShownInvImplies, PTL

-----------------------------------------------------------------------------
(* The length of a list *)

LEMMA Remainder ==
  ASSUME NEW n \in Nat, NEW c \in Nat \ {0}, NEW q \in Int, NEW r \in 0 .. c - 1,
         n = q * c + r
  PROVE  n % c = r
BY Z3

(* How far undo_file_index has gone since the last check. *)
SinceCheck(n) == n % CheckEvery

LEMMA NextRemainder ==
  ASSUME NEW n \in Nat
  PROVE  /\ SinceCheck(n) \in 0 .. CheckEvery - 1
         /\ SinceCheck(n + 1) \in {0, SinceCheck(n) + 1}
<1> DEFINE c == CheckEvery
           q == n \div c
           r == n % c
<1>1. c \in Nat \ {0}
  BY LevelsAssumption
<1> HIDE DEF c
<1>2. q \in Int /\ r \in 0 .. c - 1 /\ n = q * c + r
  BY <1>1
<1> HIDE DEF q, r
<1>3. (n + 1) % c \in {0, r + 1}
  <2>1. CASE r = c - 1
    <3>1. n + 1 = (q + 1) * c + 0 /\ q + 1 \in Int /\ 0 \in 0 .. c - 1 /\ n + 1 \in Nat
      BY <1>1, <1>2, <2>1
    <3>2. (n + 1) % c = 0
      BY <1>1, <3>1, Remainder
    <3> QED BY <3>2
  <2>2. CASE r # c - 1
    <3>1. n + 1 = q * c + (r + 1) /\ r + 1 \in 0 .. c - 1 /\ n + 1 \in Nat
      BY <1>1, <1>2, <2>2
    <3>2. (n + 1) % c = r + 1
      BY <1>1, <1>2, <3>1, Remainder
    <3> QED BY <3>2
  <2> QED BY <2>1, <2>2
<1> QED BY <1>2, <1>3, Zenon DEF SinceCheck, r, c

LEMMA AllLevels ==
  ASSUME NEW l \in Seq(Node), \A i \in DOMAIN l : HasData(l[i])
  PROVE  s_undo_levels(l) = Len(l)
<1>1. DOMAIN l = 1 .. Len(l) /\ Len(l) \in Nat
  BY LenProperties
<1>2. {i \in DOMAIN l : HasData(l[i])} = 1 .. Len(l)
  BY <1>1
<1>3. Cardinality(1 .. Len(l)) = Len(l)
  BY <1>1, FS_Interval
<1> QED BY <1>2, <1>3 DEF s_undo_levels

(* With undo files every snapshot has its file, and without viewport nodes
   every node is a snapshot.                                                *)
DiskNodes ==
  undo_type = "DISK" =>
    \A p \in Pages : \A i \in DOMAIN undo_list[p] :
      undo_list[p][i].type = "ALL" => undo_list[p][i].filename # NoFile

NoZoomNodes ==
  ~undo_panzoom =>
    \A p \in Pages : \A i \in DOMAIN undo_list[p] : undo_list[p][i].type = "ALL"

(* Between two checks, which are CheckEvery undo files apart, the list of the
   only page grows by at most one node with every file.                     *)
GrowthBound ==
  UndoLevels + UndoPadding - 1 + SinceCheck(undo_file_index)

Growth ==
  undo_type = "DISK" /\ ~undo_panzoom =>
    \A p \in Pages : (\A q \in Pages : q = p) => Len(undo_list[p]) <= GrowthBound

GrowthInv == UndoInv /\ DiskNodes /\ NoZoomNodes /\ Growth

LEMMA InitGrowth == Init => GrowthInv
<1> SUFFICES ASSUME Init PROVE GrowthInv
  OBVIOUS
<1> DEFINE node(c) == [type        |-> "ALL",
                       filename    |-> IF undo_type = "DISK" THEN 0 ELSE NoFile,
                       object_list |-> IF undo_type = "DISK" THEN EMPTY ELSE c,
                       CHANGED     |-> FALSE]
<1>1. PICK p \in Pages, c \in Contents :
        undo_list = [q \in Pages |-> IF q = p THEN <<node(c)>> ELSE <<>>]
  BY DEF Init
<1>2. undo_type = "DISK" => node(c).filename # NoFile
  BY DEF NoFile
<1>3. node(c).type = "ALL"
  OBVIOUS
<1> HIDE DEF node
<1>4. /\ DOMAIN <<node(c)>> = {1} /\ <<node(c)>>[1] = node(c) /\ DOMAIN <<>> = {}
      /\ Len(<<node(c)>>) = 1 /\ Len(<<>>) = 0
  OBVIOUS
<1>5. \A q \in Pages : \A i \in DOMAIN undo_list[q] : undo_list[q][i] = node(c)
  BY <1>1, <1>4
<1>6. \A q \in Pages : Len(undo_list[q]) \in {0, 1}
  BY <1>1, <1>4
<1>7. DiskNodes /\ NoZoomNodes
  BY <1>2, <1>3, <1>5 DEF DiskNodes, NoZoomNodes
<1>8. Growth
  <2>1. UndoInv /\ undo_file_index \in Nat
    BY InitInv DEF UndoInv, TypeOK
  <2>2. SinceCheck(undo_file_index) \in Nat
    BY <2>1, NextRemainder, LevelsAssumption
  <2>3. GrowthBound \in Nat /\ GrowthBound >= 1
    BY <2>2, LevelsAssumption DEF GrowthBound
  <2>4. \A q \in Pages : Len(undo_list[q]) <= GrowthBound
    <3>1. \A x, y \in Nat : x \in {0, 1} /\ y >= 1 => x <= y
      OBVIOUS
    <3>2. \A q \in Pages : Len(undo_list[q]) \in Nat /\ Len(undo_list[q]) \in {0, 1}
      BY <1>6
    <3> QED BY <2>3, <3>1, <3>2, Zenon
  <2> QED BY <2>4 DEF Growth
<1> QED BY <1>7, <1>8, InitInv DEF GrowthInv

(* The nodes after a push, and after any other step. *)
LEMMA PushedTypes ==
  ASSUME UndoInv, UndoInv', DiskNodes, NoZoomNodes, UNCHANGED config, PushStep
  PROVE  DiskNodes' /\ NoZoomNodes'
<1>1. PICK p \in Pages, l0 \in Seq(Node), cur0 \in Nat, flag \in {"ALL", "VIEWPORT_ONLY"},
           c \in Contents, chg \in BOOLEAN, node \in Node, k \in Nat :
        /\ cur0 \in 0 .. Len(l0) /\ k \in 0 .. cur0
        /\ \A i \in DOMAIN l0 : i \in DOMAIN undo_list[p] /\ l0[i] = undo_list[p][i]
        /\ Pushes(p, l0, cur0, flag, c, chg, node, k)
  BY DEF PushStep
<1>2. TypeOK /\ TypeOK' /\ SavestateEffect(p, l0, cur0, flag, c, chg, node, k)
      /\ undo_file_index \in Nat
  BY <1>1 DEF Pushes, UndoInv, TypeOK
<1>3. /\ DOMAIN undo_list'[p] = 1 .. cur0 + 1 - k
      /\ \A i \in 1 .. cur0 - k : /\ k + i \in DOMAIN undo_list[p]
                                 /\ undo_list'[p][i] = undo_list[p][k + i]
  BY <1>1, <1>2, OldNodes
<1>4. \A q \in Pages \ {p} : undo_list'[q] = undo_list[q]
  BY <1>1 DEF Pushes
<1>5. /\ undo_list'[p][cur0 + 1 - k] = node
      /\ undo_type = "DISK" /\ node.type = "ALL" => node.filename # NoFile
      /\ ~undo_panzoom => node.type = "ALL"
  BY <1>1, <1>2 DEF SavestateEffect, Pushes, NoFile
<1>6. ASSUME NEW i \in DOMAIN undo_list'[p]
      PROVE  \/ undo_list'[p][i] = node
             \/ \E j \in DOMAIN undo_list[p] : undo_list'[p][i] = undo_list[p][j]
  <2>1. i = cur0 + 1 - k \/ i \in 1 .. cur0 - k
    BY <1>1, <1>3
  <2> QED BY <1>3, <1>5, <2>1
<1>7. undo_type' = undo_type /\ undo_panzoom' = undo_panzoom
  BY DEF config
<1>8. DiskNodes'
  BY <1>4, <1>5, <1>6, <1>7 DEF DiskNodes
<1>9. NoZoomNodes'
  BY <1>4, <1>5, <1>6, <1>7 DEF NoZoomNodes
<1> QED BY <1>8, <1>9

LEMMA OtherTypes ==
  ASSUME TypeOK, DiskNodes, NoZoomNodes, UNCHANGED config,
         CallbackStep \/ SavedStep \/ \E p \in Pages : ClosePage(p)
  PROVE  /\ DiskNodes' /\ NoZoomNodes' /\ undo_file_index' = undo_file_index
         /\ \A p \in Pages : undo_list'[p] \in {undo_list[p], <<>>}
<1>1. undo_list \in [Pages -> Seq(Node)] /\ DOMAIN <<>> = {}
  BY DEF TypeOK
<1>2. CASE CallbackStep
  BY <1>2 DEF CallbackStep, o_undo_callback, DiskNodes, NoZoomNodes, config, filevars
<1>3. CASE SavedStep
  BY <1>3 DEF SavedStep, DiskNodes, NoZoomNodes, config, listvars, filevars
<1>4. ASSUME NEW p \in Pages, ClosePage(p)
      PROVE  /\ DiskNodes' /\ NoZoomNodes' /\ undo_file_index' = undo_file_index
             /\ \A q \in Pages : undo_list'[q] \in {undo_list[q], <<>>}
  <2>1. /\ undo_file_index' = undo_file_index
        /\ \A q \in Pages : undo_list'[q] = IF q = p THEN <<>> ELSE undo_list[q]
    BY <1>1, <1>4 DEF ClosePage, filevars
  <2> QED BY <1>1, <2>1 DEF DiskNodes, NoZoomNodes, config
<1> QED BY <1>2, <1>3, <1>4

LEMMA PushedGrowth ==
  ASSUME GrowthInv, UndoInv', DiskNodes', NoZoomNodes', UNCHANGED config, PushStep
  PROVE  Growth'
<1>1. PICK p \in Pages, l0 \in Seq(Node), cur0 \in Nat, flag \in {"ALL", "VIEWPORT_ONLY"},
           c \in Contents, chg \in BOOLEAN, node \in Node, k \in Nat :
        /\ cur0 \in 0 .. Len(l0) /\ k \in 0 .. cur0
        /\ \A i \in DOMAIN l0 : i \in DOMAIN undo_list[p] /\ l0[i] = undo_list[p][i]
        /\ Pushes(p, l0, cur0, flag, c, chg, node, k)
  BY DEF PushStep
<1> SUFFICES ASSUME undo_type = "DISK", ~undo_panzoom, \A q \in Pages : q = p
             PROVE  Len(undo_list'[p]) <= GrowthBound'
  BY DEF Growth, config
<1>2. TypeOK /\ undo_file_index \in Nat /\ undo_list \in [Pages -> Seq(Node)]
  BY DEF GrowthInv, UndoInv, TypeOK
<1>3. /\ flag = "ALL" /\ node.type = "ALL" /\ node.filename = undo_file_index
      /\ undo_file_index' = undo_file_index + 1
      /\ k = Trim(Pushed(l0, cur0, node), undo_file_index')
      /\ Len(undo_list'[p]) = cur0 + 1 - k
  BY <1>1 DEF Pushes, SavestateEffect
<1> DEFINE l == Pushed(l0, cur0, node)
           lev == s_undo_levels(l)
           r == SinceCheck(undo_file_index)
           s == SinceCheck(undo_file_index + 1)
<1>4. lev = cur0 + 1
  <2>1. /\ l \in Seq(Node) /\ Len(l) = cur0 + 1
        /\ \A i \in 1 .. cur0 : l[i] = l0[i]
        /\ l[cur0 + 1] = node
    BY <1>1, PushedNodes
  <2>2. DOMAIN l = 1 .. cur0 + 1 /\ DOMAIN l0 = 1 .. Len(l0) /\ Len(l0) \in Nat
    BY <2>1, LenProperties
  <2> HIDE DEF l
  <2>3. ASSUME NEW i \in 1 .. cur0 PROVE HasData(l[i])
    <3>1. i \in DOMAIN undo_list[p] /\ l[i] = undo_list[p][i]
      BY <1>1, <2>1, <2>2
    <3> QED BY <3>1 DEF GrowthInv, DiskNodes, NoZoomNodes, HasData
  <2>4. HasData(l[cur0 + 1])
    BY <1>2, <1>3, <2>1 DEF HasData, NoFile
  <2>5. \A i \in DOMAIN l : HasData(l[i])
    BY <1>1, <2>2, <2>3, <2>4
  <2> QED BY <2>1, <2>5, AllLevels
<1>5. cur0 <= UndoLevels + UndoPadding - 1 + r
  <2>1. r \in 0 .. CheckEvery - 1
    BY <1>2, NextRemainder, LevelsAssumption
  <2>2. CASE l0 = undo_list[p]
    <3>1. Len(undo_list[p]) <= UndoLevels + UndoPadding - 1 + r
      BY DEF GrowthInv, Growth, GrowthBound
    <3>2. Len(l0) \in Nat
      BY LenProperties
    <3> HIDE DEF r
    <3> QED BY <1>1, <2>1, <2>2, <3>1, <3>2, LevelsAssumption
  <2>3. CASE cur0 = 0
    BY <2>1, <2>3, LevelsAssumption
  <2> QED BY <1>1, <2>2, <2>3 DEF Pushes
<1>6. s \in {0, r + 1} /\ r \in 0 .. CheckEvery - 1
  BY <1>2, NextRemainder, LevelsAssumption
<1>7. GrowthBound' = UndoLevels + UndoPadding - 1 + s
  BY <1>3 DEF GrowthBound
<1>8. k = IF s = 0 /\ lev >= UndoLevels + UndoPadding THEN lev - UndoLevels ELSE 0
  <2>1. \A m : Trim(l, m) = IF SinceCheck(m) = 0 /\ lev >= UndoLevels + UndoPadding
                            THEN lev - UndoLevels ELSE 0
    BY Zenon DEF Trim, SinceCheck
  <2>2. k = Trim(l, undo_file_index + 1)
    BY <1>3
  <2> HIDE DEF l, lev
  <2> QED BY <2>1, <2>2
<1> HIDE DEF l, lev, r, s
<1> QED BY <1>1, <1>3, <1>4, <1>5, <1>6, <1>7, <1>8, LevelsAssumption

LEMMA NextGrowth == GrowthInv /\ [Next]_vars => GrowthInv'
<1> SUFFICES ASSUME GrowthInv, [Next]_vars PROVE GrowthInv'
  OBVIOUS
<1>1. /\ UndoInv /\ UndoInv' /\ DiskNodes /\ NoZoomNodes /\ Growth /\ UNCHANGED config
      /\ PushStep \/ CallbackStep \/ SavedStep \/ \E p \in Pages : ClosePage(p)
  BY NextInv, StepCases DEF GrowthInv
<1>2. CASE PushStep
  BY <1>1, <1>2, PushedTypes, PushedGrowth DEF GrowthInv
<1>3. CASE CallbackStep \/ SavedStep \/ \E p \in Pages : ClosePage(p)
  <2>1. /\ DiskNodes' /\ NoZoomNodes' /\ undo_file_index' = undo_file_index
        /\ \A p \in Pages : undo_list'[p] \in {undo_list[p], <<>>}
        /\ undo_file_index \in Nat
    BY <1>1, <1>3, OtherTypes DEF UndoInv, TypeOK
  <2>2. GrowthBound' = GrowthBound /\ GrowthBound \in Nat
    <3>1. SinceCheck(undo_file_index) \in Nat
      BY <2>1, NextRemainder, LevelsAssumption
    <3> QED BY <2>1, <3>1, LevelsAssumption DEF GrowthBound
  <2>3. Len(<<>>) = 0
    OBVIOUS
  <2>4. Growth'
    BY <1>1, <2>1, <2>2, <2>3 DEF Growth, config
  <2> QED BY <1>1, <2>1, <2>4 DEF GrowthInv
<1> QED BY <1>1, <1>2, <1>3

LEMMA GrowthInvImplies == GrowthInv => LevelsBoundedAlone
<1> SUFFICES ASSUME GrowthInv, \A p, q \in Pages : p = q, undo_type = "DISK", ~undo_panzoom,
                    NEW p \in Pages
             PROVE  s_undo_levels(undo_list[p])
                      <= UndoLevels + UndoPadding + CheckEvery - 2
  BY DEF LevelsBoundedAlone, LevelsBounded
<1>1. undo_list[p] \in Seq(Node) /\ undo_file_index \in Nat
  BY DEF GrowthInv, UndoInv, TypeOK
<1>2. \A q \in Pages : q = p
  OBVIOUS
<1>3. s_undo_levels(undo_list[p]) \in 0 .. Len(undo_list[p]) /\ Len(undo_list[p]) \in Nat
  BY <1>1, LevelsInRange, LenProperties
<1>4. Len(undo_list[p]) <= GrowthBound
  BY <1>2 DEF GrowthInv, Growth
<1>5. SinceCheck(undo_file_index) \in 0 .. CheckEvery - 1
  BY <1>1, NextRemainder, LevelsAssumption
<1> QED BY <1>3, <1>4, <1>5, LevelsAssumption DEF GrowthBound

(* The list of the only page, with undo files and without viewport nodes,
   never has more snapshots than the limit the trimming aims at
   (o_undo.c:194-252), for any undo-levels, padding and distance between
   two checks.                                                              *)
THEOREM LevelsAlwaysBoundedAlone == Spec => []LevelsBoundedAlone
<1>1. Spec => []GrowthInv
  BY InitGrowth, NextGrowth, PTL DEF Spec
<1> QED BY <1>1, GrowthInvImplies, PTL

-----------------------------------------------------------------------------
(* Trimming *)

(* A list without its k oldest nodes has lost at most k snapshots. *)
LEMMA LevelsWithout ==
  ASSUME NEW l \in Seq(Node), NEW k \in Nat, k <= Len(l), NEW m \in Seq(Node),
         Len(m) = Len(l) - k, \A i \in 1 .. Len(l) - k : m[i] = l[k + i]
  PROVE  s_undo_levels(m) >= s_undo_levels(l) - k
<1> DEFINE S == {i \in DOMAIN l : HasData(l[i])}
           T == {i \in DOMAIN m : HasData(m[i])}
           R == {i \in S : i > k}
           f == [i \in R |-> i - k]
<1>1. /\ Len(l) \in Nat /\ DOMAIN l = 1 .. Len(l)
      /\ Len(m) \in Nat /\ DOMAIN m = 1 .. Len(l) - k
  BY LenProperties
<1>2. /\ IsFiniteSet(1 .. Len(l)) /\ IsFiniteSet(1 .. Len(l) - k)
      /\ IsFiniteSet(1 .. k) /\ Cardinality(1 .. k) = k
  BY <1>1, FS_Interval, SMTT(20)
<1>3. S \in SUBSET (1 .. Len(l)) /\ T \in SUBSET (1 .. Len(l) - k) /\ R \in SUBSET (1 .. Len(l))
  BY <1>1
<1>4. IsFiniteSet(S) /\ IsFiniteSet(T) /\ IsFiniteSet(R)
  BY <1>2, <1>3, FS_Subset
<1>5. Cardinality(S) \in Nat /\ Cardinality(T) \in Nat /\ Cardinality(R) \in Nat
  BY <1>4, FS_CardinalityType
<1>6. Cardinality(R) <= Cardinality(T)
  <2>1. ASSUME NEW i \in R PROVE i - k \in T
    <3>1. i \in 1 .. Len(l) /\ i > k /\ HasData(l[i])
      BY <1>1
    <3>2. i - k \in 1 .. Len(l) - k /\ k + (i - k) = i
      BY <1>1, <3>1
    <3> QED BY <1>1, <3>1, <3>2
  <2>2. \A i, j \in R : i - k = j - k => i = j
    BY <1>1
  <2> HIDE DEF R, S, T
  <2>3. f \in [R -> T] /\ \A i, j \in R : f[i] = f[j] => i = j
    BY <2>1, <2>2
  <2>4. f \in Injection(R, T)
    BY <2>3 DEF Injection, IsInjective
  <2> HIDE DEF f
  <2> QED BY <1>4, <2>4, FS_Injection
<1>7. Cardinality(S) <= k + Cardinality(R)
  <2> DEFINE U == (1 .. k) \cup R
  <2>1. S \subseteq U
    BY <1>1
  <2> HIDE DEF R, S
  <2>2. /\ IsFiniteSet(U)
        /\ Cardinality(U) = Cardinality(1 .. k) + Cardinality(R) - Cardinality((1 .. k) \cap R)
    BY <1>2, <1>4, FS_Union
  <2>3. Cardinality((1 .. k) \cap R) \in Nat
    BY <1>2, FS_Intersection, FS_CardinalityType
  <2>4. Cardinality(S) <= Cardinality(U)
    BY <2>1, <2>2, FS_Subset
  <2> HIDE DEF U
  <2> QED BY <1>2, <1>5, <2>2, <2>3, <2>4
<1>8. s_undo_levels(l) = Cardinality(S) /\ s_undo_levels(m) = Cardinality(T)
  BY DEF s_undo_levels
<1> HIDE DEF S, T, R
<1> QED BY <1>5, <1>6, <1>7, <1>8

(* What a list that has been trimmed keeps. *)
LEMMA TrimmedLevels ==
  ASSUME NEW p, NEW l0 \in Seq(Node), NEW cur0 \in 0 .. Len(l0), NEW flag, NEW c, NEW chg,
         NEW node \in Node, NEW k \in Nat, k \in 0 .. cur0, k # 0,
         SavestateEffect(p, l0, cur0, flag, c, chg, node, k),
         undo_list'[p] \in Seq(Node), undo_file_index' \in Nat
  PROVE  s_undo_levels(undo_list'[p]) >= UndoLevels
<1> DEFINE l   == Pushed(l0, cur0, node)
           new == undo_list'[p]
<1>1. /\ k = Trim(l, undo_file_index')
      /\ Len(new) = cur0 + 1 - k
      /\ new[cur0 + 1 - k] = node
      /\ \A i \in 1 .. cur0 - k : new[i] = l0[k + i]
  BY DEF SavestateEffect
<1>2. /\ l \in Seq(Node) /\ Len(l) = cur0 + 1
      /\ \A i \in 1 .. cur0 : l[i] = l0[i]
      /\ l[cur0 + 1] = node
  BY PushedNodes
<1>3. cur0 \in Nat /\ k <= cur0
  BY LenProperties
<1>4. k = s_undo_levels(l) - UndoLevels
  BY <1>1 DEF Trim
<1>5. ASSUME NEW i \in 1 .. Len(l) - k PROVE new[i] = l[k + i]
  <2>1. i = cur0 + 1 - k \/ i \in 1 .. cur0 - k
    BY <1>2, <1>3
  <2>2. CASE i = cur0 + 1 - k
    BY <1>1, <1>2, <1>3, <2>2, SMTT(20)
  <2>3. CASE i \in 1 .. cur0 - k
    <3>1. k + i \in 1 .. cur0
      BY <1>3, <2>3
    <3> QED BY <1>1, <1>2, <2>3, <3>1
  <2> QED BY <2>1, <2>2, <2>3
<1>6. k <= Len(l) /\ Len(new) = Len(l) - k
  BY <1>1, <1>2, <1>3
<1>7. s_undo_levels(l) \in Nat
  BY <1>2, LevelsInRange
<1> HIDE DEF l
<1>8. s_undo_levels(new) >= s_undo_levels(l) - k
  BY <1>2, <1>5, <1>6, LevelsWithout
<1> HIDE DEF new
<1>9. s_undo_levels(new) >= UndoLevels
  BY <1>4, <1>7, <1>8, LevelsAssumption
<1> QED BY <1>9 DEF new

KeepsLevels(p) ==
  Head(undo_list'[p]) # Head(undo_list[p]) =>
    \/ s_undo_levels(undo_list'[p]) >= UndoLevels
    \/ undo_list'[p] = <<undo_list'[p][1]>>

LEMMA PushKeepsLevels ==
  ASSUME UndoInv, UndoInv', PushStep, NEW q \in open
  PROVE  KeepsLevels(q)
<1>1. PICK p \in Pages, l0 \in Seq(Node), cur0 \in Nat, flag \in {"ALL", "VIEWPORT_ONLY"},
           c \in Contents, chg \in BOOLEAN, node \in Node, k \in Nat :
        /\ cur0 \in 0 .. Len(l0) /\ k \in 0 .. cur0
        /\ \A i \in DOMAIN l0 : i \in DOMAIN undo_list[p] /\ l0[i] = undo_list[p][i]
        /\ Pushes(p, l0, cur0, flag, c, chg, node, k)
  BY DEF PushStep
<1>2. TypeOK /\ q \in Pages /\ undo_list'[p] \in Seq(Node) /\ undo_list[p] \in Seq(Node)
      /\ undo_file_index' \in Nat
  BY DEF UndoInv, TypeOK
<1>3. CASE q # p
  BY <1>1, <1>2, <1>3 DEF Pushes, KeepsLevels
<1>4. CASE q = p
  <2> DEFINE new == undo_list'[p]
  <2>1. /\ Len(new) = cur0 + 1 - k
        /\ new[cur0 + 1 - k] = node
        /\ \A i \in 1 .. cur0 - k : new[i] = l0[k + i]
    BY <1>1 DEF Pushes, SavestateEffect
  <2>2. CASE k # 0
    <3>1. SavestateEffect(p, l0, cur0, flag, c, chg, node, k)
      BY <1>1 DEF Pushes
    <3>2. s_undo_levels(new) >= UndoLevels
      BY <1>1, <1>2, <2>2, <3>1, TrimmedLevels
    <3> QED BY <1>4, <3>2 DEF KeepsLevels
  <2>3. CASE k = 0 /\ cur0 = 0
    <3>1. Len(new) = 1
      BY <2>1, <2>3
    <3>2. new = <<new[1]>>
      BY <1>2, <3>1
    <3> QED BY <1>4, <3>2 DEF KeepsLevels
  <2>4. CASE k = 0 /\ cur0 # 0
    <3>1. l0 = undo_list[p] /\ cur0 >= 1
      BY <1>1, <2>4 DEF Pushes
    <3>2. new[1] = undo_list[p][1] /\ new # <<>> /\ undo_list[p] # <<>>
      <4>1. 1 \in 1 .. cur0 - k /\ Len(new) # 0 /\ Len(l0) # 0
        BY <1>1, <2>1, <2>4, <3>1
      <4> QED BY <2>1, <2>4, <3>1, <4>1
    <3>3. Head(new) = Head(undo_list[p])
      BY <1>2, <3>2, HeadTailProperties
    <3> QED BY <1>4, <3>3 DEF KeepsLevels
  <2> QED BY <2>2, <2>3, <2>4
<1> QED BY <1>3, <1>4

LEMMA StepKeepsLevels ==
  ASSUME UndoInv, [Next]_vars
  PROVE  \A p \in open \cap open' : KeepsLevels(p)
<1>1. /\ UndoInv' /\ open \subseteq Pages
      /\ undo_list \in [Pages -> Seq(Node)]
      /\ PushStep \/ CallbackStep \/ SavedStep \/ \E p \in Pages : ClosePage(p)
  BY NextInv, StepCases DEF UndoInv, TypeOK
<1>2. CASE PushStep
  BY <1>1, <1>2, PushKeepsLevels
<1>3. CASE CallbackStep
  BY <1>3 DEF CallbackStep, o_undo_callback, KeepsLevels
<1>4. CASE SavedStep
  BY <1>4 DEF SavedStep, listvars, KeepsLevels
<1>5. ASSUME NEW q \in Pages, ClosePage(q), NEW p \in open \cap open'
      PROVE  KeepsLevels(p)
  <2>1. open' = open \ {q} /\ undo_list' = [undo_list EXCEPT ![q] = <<>>]
    BY <1>5 DEF ClosePage
  <2>2. undo_list'[p] = undo_list[p]
    BY <1>1, <1>5, <2>1
  <2> QED BY <2>2 DEF KeepsLevels
<1> QED BY <1>1, <1>2, <1>3, <1>4, <1>5

(* No savestate trims a list to fewer snapshots than undo-levels, although
   nodes without snapshots count when nodes are removed (o_undo.c:218-252).  *)
THEOREM TrimAlwaysKeepsLevels == Spec => TrimKeepsLevels
<1>1. UndoInv /\ [Next]_vars =>
        [\A p \in open \cap open' :
           Head(undo_list'[p]) # Head(undo_list[p]) =>
             \/ s_undo_levels(undo_list'[p]) >= UndoLevels
             \/ undo_list'[p] = <<undo_list'[p][1]>>]_vars
  BY StepKeepsLevels DEF KeepsLevels
<1> QED BY <1>1, UndoInvariant, PTL DEF Spec, TrimKeepsLevels

-----------------------------------------------------------------------------
(* Undo implements History: for any pages, contents, undo-levels, padding    *)
(* and distance between two checks, what a user sees of the undo list is a   *)
(* line of entries that undo and redo walk.  This is so as long as snapshots *)
(* are undo files that could be written.  A file that was not written        *)
(* restores an empty page, and in the memory mode the snapshot of an empty   *)
(* page is no snapshot.                                                      *)

(* Snapshots are files, and all of them could be written. *)
Faithful == undo_type = "DISK" /\ unwritten = {}

HistoryInv == ShownInv /\ DiskNodes

-----------------------------------------------------------------------------
(* Entries *)

(* The content of the entry of node i, were files the undo files. *)
ContentFrom(files, l, i) ==
  IF SnapshotAt(l, i) = {} THEN Missing
  ELSE RestoredFrom(files, l[CHOOSE j \in SnapshotAt(l, i) : TRUE])

EntriesFrom(files, l) ==
  [i \in DOMAIN l |-> H!Blank(ContentFrom(files, l, i), l[i].CHANGED)]

LEMMA EntriesAre == Entries = [p \in Pages |-> EntriesFrom(undo_file, undo_list[p])]
BY DEF Entries, EntriesFrom, EntryOf, ContentFrom, Restored, RestoredFrom, H!Blank

LEMMA EntriesPrimed == Entries' = [p \in Pages |-> EntriesFrom(undo_file', undo_list'[p])]
BY DEF Entries, EntriesFrom, EntryOf, ContentFrom, Restored, RestoredFrom, H!Blank,
       SnapshotAt, HasData

LEMMA BlankFields ==
  ASSUME NEW c, NEW d
  PROVE  H!Blank(c, d).content = c /\ H!Blank(c, d).modified = d
BY DEF H!Blank

LEMMA ContentOf ==
  ASSUME NEW files, NEW l, NEW i \in Nat
  PROVE  /\ SnapshotAt(l, i) = {} => ContentFrom(files, l, i) = Missing
         /\ \A j \in SnapshotAt(l, i) : ContentFrom(files, l, i) = RestoredFrom(files, l[j])
<1>1. ASSUME NEW j \in SnapshotAt(l, i)
      PROVE  ContentFrom(files, l, i) = RestoredFrom(files, l[j])
  <2>1. SnapshotAt(l, i) # {} /\ (CHOOSE m \in SnapshotAt(l, i) : TRUE) = j
    BY SnapshotUnique
  <2> QED BY <2>1 DEF ContentFrom
<1> QED BY <1>1 DEF ContentFrom

LEMMA ContentIn ==
  ASSUME UndoInv, NEW p \in Pages, NEW i \in DOMAIN undo_list[p]
  PROVE  ContentFrom(undo_file, undo_list[p], i) \in Contents \cup {Missing}
<1>1. DOMAIN undo_list[p] = 1 .. Len(undo_list[p]) /\ Len(undo_list[p]) \in Nat
  BY ListShape DEF UndoInv
<1>2. ASSUME NEW j \in SnapshotAt(undo_list[p], i)
      PROVE  ContentFrom(undo_file, undo_list[p], i) \in Contents
  <2>1. j \in DOMAIN undo_list[p]
    BY <1>1 DEF SnapshotAt
  <2>2. Restored(undo_list[p][j]) \in Contents
    BY <2>1, RestoredContents
  <2> QED BY <1>1, <2>2, ContentOf DEF Restored, RestoredFrom
<1>3. i \in Nat
  BY <1>1
<1> QED BY <1>2, <1>3, ContentOf

(* The entries of a page whose list is the same, in files that hold the same
   for its nodes.                                                           *)
LEMMA SameEntries ==
  ASSUME NEW l \in Seq(Node), NEW f, NEW g,
         \A i \in DOMAIN l : RestoredFrom(f, l[i]) = RestoredFrom(g, l[i])
  PROVE  EntriesFrom(f, l) = EntriesFrom(g, l)
<1>1. DOMAIN l = 1 .. Len(l) /\ Len(l) \in Nat
  BY LenProperties
<1>2. ASSUME NEW i \in DOMAIN l PROVE ContentFrom(f, l, i) = ContentFrom(g, l, i)
  <2>1. i \in Nat /\ \A j \in SnapshotAt(l, i) : j \in DOMAIN l
    BY <1>1 DEF SnapshotAt
  <2> QED BY <2>1, ContentOf
<1> QED BY <1>2 DEF EntriesFrom

-----------------------------------------------------------------------------
(* The steps that push nothing *)

(* The snapshot at or below undo_current is what the page shows. *)
LEMMA CurrentShown ==
  ASSUME HistoryInv, Faithful, NEW p \in open,
         NEW j \in SnapshotAt(undo_list[p], undo_current[p])
  PROVE  objects[p] = Restored(undo_list[p][j])
<1> DEFINE l   == undo_list[p]
           cur == undo_current[p]
<1>1. /\ p \in Pages /\ TypeOK /\ DiskNodes /\ cur \in DOMAIN l
      /\ undo_type = "DISK" /\ unwritten = {}
  BY DEF HistoryInv, ShownInv, UndoInv, TypeOK, CurrentInList, Faithful
<1>2. DOMAIN l = 1 .. Len(l) /\ Len(l) \in Nat /\ cur \in Nat
  BY <1>1, ListShape
<1>3. ASSUME NEW k \in j + 1 .. cur PROVE l[k].type # "ALL"
  <2>1. j \in 1 .. cur /\ ~HasData(l[k])
    BY DEF SnapshotAt
  <2>2. k \in DOMAIN l
    BY <1>1, <1>2, <2>1
  <2> QED BY <1>1, <2>1, <2>2 DEF DiskNodes, HasData
<1>4. l[j].filename \notin unwritten
  BY <1>1
<1>5. Agrees(p)
  BY DEF HistoryInv, ShownInv
<1> QED BY <1>3, <1>4, <1>5 DEF Agrees

LEMMA CallbackGoes ==
  ASSUME HistoryInv, Faithful, NEW p \in open,
         NEW to \in {undo_current[p] - 1, undo_current[p] + 1},
         o_undo_callback(p, to)
  PROVE  H!GoTo(p, to)
<1> DEFINE l    == undo_list[p]
           cur  == undo_current[p]
           from == Source(l, cur, to)
<1>1. /\ p \in Pages /\ objects \in [Pages -> Contents]
      /\ UndoInv /\ TypeOK /\ ViewportBare /\ DiskNodes
      /\ undo_type = "DISK" /\ unwritten = {}
  BY DEF HistoryInv, ShownInv, UndoInv, TypeOK, Faithful
<1>2. to \in DOMAIN l /\ cur \in DOMAIN l
  BY <1>1 DEF UndoInv, CurrentInList, o_undo_callback
<1>3. /\ DOMAIN l = 1 .. Len(l) /\ Len(l) \in Nat /\ to \in Nat /\ cur \in Nat
      /\ l \in Seq(Node)
  BY <1>1, <1>2, ListShape DEF TypeOK
<1>4. /\ undo_current' = [undo_current EXCEPT ![p] = to]
      /\ objects' = IF from = {} THEN objects
                    ELSE [objects EXCEPT ![p] = Restored(l[CHOOSE j \in from : TRUE])]
      /\ CHANGED' = [CHANGED EXCEPT ![p] = l[to].CHANGED]
      /\ UNCHANGED <<open, undo_list, undo_file>>
  BY DEF o_undo_callback, pagevars, filevars
<1>5. Entries' = Entries
  BY <1>4, EntriesAre, EntriesPrimed
<1>6. /\ Entries[p] = EntriesFrom(undo_file, l)
      /\ DOMAIN Entries[p] = DOMAIN l
      /\ Entries[p][to].content = ContentFrom(undo_file, l, to)
      /\ Entries[p][to].modified = l[to].CHANGED
  <2>1. Entries[p] = EntriesFrom(undo_file, l)
    BY <1>1, EntriesAre
  <2> HIDE DEF l
  <2> QED BY <1>2, <2>1, BlankFields DEF EntriesFrom
<1>7. objects' = [objects EXCEPT ![p] = IF ContentFrom(undo_file, l, to) = Missing
                                        THEN objects[p]
                                        ELSE ContentFrom(undo_file, l, to)]
  <2>1. ASSUME NEW j \in SnapshotAt(l, to)
        PROVE  /\ SnapshotAt(l, to) = {j} /\ (CHOOSE m \in SnapshotAt(l, to) : TRUE) = j
               /\ ContentFrom(undo_file, l, to) = Restored(l[j])
               /\ Restored(l[j]) # Missing
               /\ j \in DOMAIN l
    <3>1. j \in DOMAIN l
      BY <1>2, <1>3 DEF SnapshotAt
    <3>2. Restored(l[j]) \in Contents
      BY <1>1, <3>1, RestoredContents
    <3>3. ContentFrom(undo_file, l, to) = RestoredFrom(undo_file, l[j])
      BY <1>3, ContentOf
    <3>4. RestoredFrom(undo_file, l[j]) = Restored(l[j])
      BY DEF RestoredFrom, Restored
    <3> QED BY <1>3, <3>1, <3>2, <3>3, <3>4, SnapshotUnique, ContentsAssumption
  <2>2. SnapshotAt(l, to) = {} => ContentFrom(undo_file, l, to) = Missing
    BY <1>3, ContentOf
  <2>3. objects = [objects EXCEPT ![p] = objects[p]]
    BY <1>1
  <2>4. CASE from = SnapshotAt(l, to)
    <3>1. CASE SnapshotAt(l, to) = {}
      BY <1>4, <2>2, <2>3, <2>4, <3>1
    <3>2. CASE SnapshotAt(l, to) # {}
      <4>1. PICK j : j \in SnapshotAt(l, to)
        BY <3>2
      <4>2. objects' = [objects EXCEPT ![p] = Restored(l[j])]
        BY <1>4, <2>1, <2>4, <4>1
      <4> QED BY <2>1, <4>1, <4>2
    <3> QED BY <3>1, <3>2
  <2>5. CASE from = {} /\ ~HasData(l[to]) /\ l[to].type = "ALL"
    BY <1>1, <1>2, <2>5 DEF DiskNodes, HasData
  <2>6. CASE /\ from = {} /\ ~HasData(l[to])
             /\ l[to].type = "VIEWPORT_ONLY" /\ l[cur].type = "VIEWPORT_ONLY"
             /\ SnapshotAt(l, to) = SnapshotAt(l, cur)
    <3>1. CASE SnapshotAt(l, to) = {}
      BY <1>4, <2>2, <2>3, <2>6, <3>1
    <3>2. ASSUME NEW j \in SnapshotAt(l, to) PROVE objects[p] = Restored(l[j])
      BY <2>6, CurrentShown
    <3> QED BY <1>4, <2>1, <2>3, <2>6, <3>1, <3>2
  <2> QED BY <1>1, <1>2, <2>4, <2>5, <2>6, CallbackSource
<1> HIDE DEF l, cur, from
<1> QED BY <1>2, <1>4, <1>5, <1>6, <1>7 DEF H!GoTo

LEMMA CloseCloses ==
  ASSUME TypeOK, NEW p \in Pages, ClosePage(p)
  PROVE  H!Close(p)
<1>1. /\ p \in open /\ open' = open \ {p}
      /\ objects' = [objects EXCEPT ![p] = EMPTY]
      /\ CHANGED' = [CHANGED EXCEPT ![p] = FALSE]
      /\ undo_list' = [undo_list EXCEPT ![p] = <<>>]
      /\ undo_current' = [undo_current EXCEPT ![p] = 0]
      /\ undo_file' = undo_file
  BY DEF ClosePage, filevars
<1>2. undo_list \in [Pages -> Seq(Node)]
  BY DEF TypeOK
<1>3. EntriesFrom(undo_file, <<>>) = <<>>
  BY DEF EntriesFrom
<1>4. Entries' = [Entries EXCEPT ![p] = <<>>]
  <2>1. Entries' = [q \in Pages |-> EntriesFrom(undo_file, undo_list'[q])]
    BY <1>1, EntriesPrimed
  <2> QED BY <1>1, <1>2, <1>3, <2>1, EntriesAre
<1> QED BY <1>1, <1>4 DEF H!Close

LEMMA SavedSaves ==
  ASSUME TypeOK, SavedStep
  PROVE  (\E p \in Pages : H!Saved(p)) \/ UNCHANGED H!hvars
<1>1. /\ UNCHANGED <<open, objects, undo_list, undo_current, undo_file>>
      /\ open \subseteq Pages
  BY DEF SavedStep, listvars, filevars, TypeOK
<1>2. Entries' = Entries
  BY <1>1, EntriesAre, EntriesPrimed
<1>3. CASE UNCHANGED CHANGED
  BY <1>1, <1>2, <1>3 DEF H!hvars
<1>4. ASSUME NEW p \in open, CHANGED' = [CHANGED EXCEPT ![p] = FALSE]
      PROVE  H!Saved(p)
  BY <1>1, <1>2, <1>4 DEF H!Saved
<1> QED BY <1>1, <1>3, <1>4 DEF SavedStep

LEMMA InitStarts ==
  ASSUME Init, Faithful
  PROVE  H!HInit
<1> DEFINE node(c) == [type        |-> "ALL",
                       filename    |-> IF undo_type = "DISK" THEN 0 ELSE NoFile,
                       object_list |-> IF undo_type = "DISK" THEN EMPTY ELSE c,
                       CHANGED     |-> FALSE]
<1>1. PICK p \in Pages, c \in Contents :
        /\ open = {p}
        /\ objects = [q \in Pages |-> IF q = p THEN c ELSE EMPTY]
        /\ CHANGED = [q \in Pages |-> FALSE]
        /\ undo_list = [q \in Pages |-> IF q = p THEN <<node(c)>> ELSE <<>>]
        /\ undo_current = [q \in Pages |-> IF q = p THEN 1 ELSE 0]
        /\ undo_file_index = IF undo_type = "DISK" THEN 1 ELSE 0
        /\ undo_file = [i \in 0 .. undo_file_index - 1 |-> c]
  BY DEF Init
<1>2. /\ node(c).filename = 0 /\ 0 # NoFile /\ ~node(c).CHANGED
      /\ node(c).CHANGED \in BOOLEAN
  BY DEF Faithful, NoFile
<1> HIDE DEF node
<1>3. undo_file[0] = c
  <2>1. undo_file_index = 1 /\ 0 \in 0 .. undo_file_index - 1
    BY <1>1 DEF Faithful
  <2> QED BY <1>1, <2>1
<1>4. RestoredFrom(undo_file, node(c)) = c
  BY <1>2, <1>3, ContentsAssumption DEF RestoredFrom
<1> DEFINE l == <<node(c)>>
<1>5. DOMAIN l = 1 .. 1 /\ l[1] = node(c)
  OBVIOUS
<1>6. SnapshotAt(l, 1) = {1}
  <2>1. HasData(l[1])
    BY <1>2, <1>5 DEF HasData
  <2> HIDE DEF l
  <2> QED BY <2>1, SnapshotHere
<1>7. ContentFrom(undo_file, l, 1) = c
  <2> HIDE DEF l
  <2> QED BY <1>4, <1>5, <1>6, ContentOf
<1>8. EntriesFrom(undo_file, l) = <<H!Blank(c, FALSE)>>
  <2>1. \A i \in DOMAIN l : i = 1
    BY <1>5
  <2>2. l[1].CHANGED = FALSE
    BY <1>2, <1>5
  <2>3. EntriesFrom(undo_file, l) = [i \in 1 .. 1 |-> H!Blank(c, FALSE)]
    <3> HIDE DEF l
    <3> QED BY <1>5, <1>7, <2>1, <2>2 DEF EntriesFrom
  <2>4. \A b : [i \in 1 .. 1 |-> b] = <<b>>
    OBVIOUS
  <2> QED BY <2>3, <2>4, Zenon
<1>9. EntriesFrom(undo_file, <<>>) = <<>>
  BY DEF EntriesFrom
<1>10. Entries = [q \in Pages |-> IF q = p THEN <<H!Blank(c, FALSE)>> ELSE <<>>]
  BY <1>1, <1>8, <1>9, EntriesAre
<1> QED BY <1>1, <1>10 DEF H!HInit

-----------------------------------------------------------------------------
(* The steps that push a node *)

LEMMA PushedEntries ==
  ASSUME UndoInv, UndoInv', NEW p \in Pages, NEW l0, NEW cur0, NEW flag, NEW c, NEW chg,
         NEW node, NEW k, Pushes(p, l0, cur0, flag, c, chg, node, k)
  PROVE  Entries' = [Entries EXCEPT ![p] = EntriesFrom(undo_file', undo_list'[p])]
<1>1. TypeOK /\ TypeOK' /\ undo_list \in [Pages -> Seq(Node)]
  BY DEF UndoInv, TypeOK
<1>2. ASSUME NEW q \in Pages \ {p}
      PROVE  EntriesFrom(undo_file', undo_list'[q]) = EntriesFrom(undo_file, undo_list[q])
  <2>1. SavestateEffect(p, l0, cur0, flag, c, chg, node, k) /\ undo_list'[q] = undo_list[q]
    BY DEF Pushes
  <2>2. \A i \in DOMAIN undo_list[q] :
          RestoredFrom(undo_file', undo_list[q][i]) = RestoredFrom(undo_file, undo_list[q][i])
    <3>1. \A n : Restored(n) = RestoredFrom(undo_file, n)
      BY DEF Restored, RestoredFrom
    <3> QED BY <1>1, <2>1, <3>1, OtherNodes
  <2>3. undo_list[q] \in Seq(Node)
    BY <1>1
  <2> QED BY <2>1, <2>2, <2>3, SameEntries
<1> QED BY <1>2, EntriesAre, EntriesPrimed

(* The node that a step with a snapshot leaves on top. *)
LEMMA SnapshotOnTop ==
  ASSUME UndoInv, Faithful, Faithful', NEW p \in Pages, NEW l0, NEW cur0,
         NEW c \in Contents, NEW chg \in BOOLEAN, NEW node \in Node, NEW k,
         Pushes(p, l0, cur0, "ALL", c, chg, node, k)
  PROVE  HasData(node) /\ RestoredFrom(undo_file', node) = c
<1>1. SavestateEffect(p, l0, cur0, "ALL", c, chg, node, k)
  BY DEF Pushes
<1>2. undo_file_index \in Nat /\ undo_type = "DISK" /\ unwritten' = {}
  BY DEF UndoInv, TypeOK, Faithful
<1> QED BY <1>1, <1>2 DEF SavestateEffect, HasData, NoFile

LEMMA RootStarts ==
  ASSUME UndoInv, UndoInv', Faithful, Faithful', NEW p \in Pages, NEW l0, NEW cur0,
         NEW c \in Contents, NEW chg \in BOOLEAN, NEW node \in Node, NEW k \in Nat,
         cur0 = 0, k \in 0 .. cur0, Pushes(p, l0, cur0, "ALL", c, chg, node, k)
  PROVE  H!Start(p, c, chg)
<1> DEFINE new == undo_list'[p]
<1>1. /\ objects' = [objects EXCEPT ![p] = c]
      /\ CHANGED' = [CHANGED EXCEPT ![p] = chg]
      /\ open' = open \cup {p}
      /\ undo_current \in [Pages -> Nat] /\ undo_current' \in [Pages -> Nat]
      /\ \A q \in Pages \ {p} : undo_current'[q] = undo_current[q]
  BY DEF Pushes, UndoInv, TypeOK
<1>2. /\ k = 0 /\ Len(new) = 1 /\ undo_current'[p] = 1 /\ new[1] = node
      /\ node.CHANGED = chg /\ new \in Seq(Node)
  BY DEF Pushes, SavestateEffect, UndoInv, TypeOK
<1>3. undo_current' = [undo_current EXCEPT ![p] = 1]
  BY <1>1, <1>2
<1>4. HasData(node) /\ RestoredFrom(undo_file', node) = c
  BY SnapshotOnTop
<1> HIDE DEF new
<1>5. ContentFrom(undo_file', new, 1) = c
  <2>1. SnapshotAt(new, 1) = {1}
    BY <1>2, <1>4, SnapshotHere
  <2> QED BY <1>2, <1>4, <2>1, ContentOf
<1>6. EntriesFrom(undo_file', new) = <<H!Blank(c, chg)>>
  <2>1. DOMAIN new = 1 .. 1 /\ \A i \in 1 .. 1 : i = 1
    BY <1>2, LenProperties
  <2>2. EntriesFrom(undo_file', new) = [i \in 1 .. 1 |-> H!Blank(c, chg)]
    BY <1>2, <1>5, <2>1 DEF EntriesFrom
  <2>3. \A b : [i \in 1 .. 1 |-> b] = <<b>>
    OBVIOUS
  <2> QED BY <2>2, <2>3, Zenon
<1>7. Entries' = [Entries EXCEPT ![p] = <<H!Blank(c, chg)>>]
  <2>1. Entries' = [Entries EXCEPT ![p] = EntriesFrom(undo_file', undo_list'[p])]
    BY PushedEntries
  <2> QED BY <1>6, <2>1 DEF new
<1> QED BY <1>1, <1>3, <1>7 DEF H!Start

(* The nodes at the bottom of a list without a snapshot at or below them are
   as many as the topmost of them is high.                                  *)
LEMMA LostAtBottom ==
  ASSUME NEW l, NEW n \in Nat
  PROVE  LET Lost == {i \in 1 .. n : \A j \in 1 .. i : ~HasData(l[j])}
         IN /\ Cardinality(Lost) \in 0 .. n
            /\ \A i \in 1 .. n : i <= Cardinality(Lost) <=> i \in Lost
<1> DEFINE Lost == {i \in 1 .. n : \A j \in 1 .. i : ~HasData(l[j])}
<1>1. /\ Lost \in SUBSET (1 .. n)
      /\ \A i \in Lost : 1 .. i \in SUBSET Lost
  OBVIOUS
<1> HIDE DEF Lost
<1>2. \A m \in Nat : IsFiniteSet(1 .. m) /\ Cardinality(1 .. m) = m
  BY FS_Interval
<1>3. IsFiniteSet(Lost) /\ Cardinality(Lost) <= n /\ Cardinality(Lost) \in Nat
  <2>1. IsFiniteSet(1 .. n) /\ Cardinality(1 .. n) = n
    BY <1>2
  <2>2. IsFiniteSet(Lost) /\ Cardinality(Lost) <= Cardinality(1 .. n)
    BY <1>1, <2>1, FS_Subset
  <2>3. Cardinality(Lost) \in Nat
    BY <2>2, FS_CardinalityType
  <2> QED BY <2>1, <2>2, <2>3
<1>4. ASSUME NEW i \in 1 .. n, i \in Lost PROVE i <= Cardinality(Lost)
  <2>1. Cardinality(1 .. i) <= Cardinality(Lost)
    BY <1>1, <1>3, <1>4, FS_Subset
  <2>2. Cardinality(1 .. i) = i
    BY <1>2
  <2> QED BY <2>1, <2>2
<1>5. ASSUME NEW i \in 1 .. n, i \notin Lost PROVE ~(i <= Cardinality(Lost))
  <2>1. Lost \in SUBSET (1 .. i - 1)
    <3>1. ASSUME NEW m \in Lost, ~(m <= i - 1) PROVE FALSE
      <4>1. m \in 1 .. n /\ i \in 1 .. m
        BY <1>1, <3>1
      <4> QED BY <1>1, <1>5, <4>1
    <3>2. \A m \in Lost : m \in 1 .. n
      BY <1>1
    <3> QED BY <3>1, <3>2
  <2>2. i - 1 \in Nat
    OBVIOUS
  <2>3. IsFiniteSet(1 .. i - 1) /\ Cardinality(1 .. i - 1) = i - 1
    BY <1>2, <2>2
  <2>4. Cardinality(Lost) <= Cardinality(1 .. i - 1)
    BY <2>1, <2>3, FS_Subset
  <2> QED BY <1>3, <2>3, <2>4
<1> QED BY <1>3, <1>4, <1>5 DEF Lost

(* Removing the k oldest nodes takes the snapshot of a node that remains only
   if no snapshot remains at or below it.                                   *)
LEMMA SnapshotShifts ==
  ASSUME NEW old, NEW new, NEW k \in Nat, NEW m \in Nat, NEW i \in 1 .. m,
         \A h \in 1 .. m : new[h] = old[k + h],
         k = 0 \/ \E d \in 1 .. i : HasData(new[d])
  PROVE  /\ \A j \in SnapshotAt(new, i) : k + j \in SnapshotAt(old, k + i)
         /\ \A j \in SnapshotAt(old, k + i) : j - k \in SnapshotAt(new, i)
<1>1. ASSUME NEW j \in SnapshotAt(new, i) PROVE k + j \in SnapshotAt(old, k + i)
  <2>1. j \in 1 .. i /\ HasData(new[j]) /\ \A h \in j + 1 .. i : ~HasData(new[h])
    BY DEF SnapshotAt
  <2>2. k + j \in 1 .. k + i /\ HasData(old[k + j])
    BY <2>1
  <2>3. ASSUME NEW h \in k + j + 1 .. k + i PROVE ~HasData(old[h])
    <3>1. h - k \in j + 1 .. i /\ h - k \in 1 .. m /\ k + (h - k) = h
      BY <2>1
    <3> QED BY <2>1, <3>1
  <2> QED BY <2>2, <2>3 DEF SnapshotAt
<1>2. ASSUME NEW j \in SnapshotAt(old, k + i) PROVE j - k \in SnapshotAt(new, i)
  <2>1. j \in 1 .. k + i /\ HasData(old[j]) /\ \A h \in j + 1 .. k + i : ~HasData(old[h])
    BY DEF SnapshotAt
  <2>2. j - k >= 1
    <3>1. CASE k = 0
      BY <2>1, <3>1
    <3>2. ASSUME NEW d \in 1 .. i, HasData(new[d]) PROVE j - k >= 1
      <4>1. d \in 1 .. m /\ HasData(old[k + d])
        BY <3>2
      <4>2. k + d \notin j + 1 .. k + i
        BY <2>1, <4>1
      <4> QED BY <2>1, <4>2
    <3> QED BY <3>1, <3>2
  <2>3. j - k \in 1 .. i /\ k + (j - k) = j
    BY <2>1, <2>2
  <2>4. HasData(new[j - k])
    BY <2>1, <2>3
  <2>5. ASSUME NEW h \in (j - k) + 1 .. i PROVE ~HasData(new[h])
    <3>1. k + h \in j + 1 .. k + i /\ h \in 1 .. m
      BY <2>1, <2>3
    <3> QED BY <2>1, <3>1
  <2> QED BY <2>3, <2>4, <2>5 DEF SnapshotAt
<1> QED BY <1>1, <1>2

(* The first m nodes of new are those of old after the first k, and what they
   restore from the files g is what they restored from the files f.          *)
Shifted(old, new, k, m, f, g) ==
  /\ \A h \in 1 .. m : new[h] = old[k + h]
  /\ \A h \in 1 .. m : RestoredFrom(g, old[k + h]) = RestoredFrom(f, old[k + h])

(* Nothing was taken, or a snapshot is left at or below i. *)
Covered(new, k, i) == k = 0 \/ \E d \in 1 .. i : HasData(new[d])

LEMMA ContentShifts ==
  ASSUME NEW old, NEW new, NEW k \in Nat, NEW m \in Nat, NEW i \in 1 .. m, NEW f, NEW g,
         Shifted(old, new, k, m, f, g), Covered(new, k, i)
  PROVE  ContentFrom(g, new, i) = ContentFrom(f, old, k + i)
<1> USE DEF Shifted, Covered
<1>1. /\ \A j \in SnapshotAt(new, i) : k + j \in SnapshotAt(old, k + i)
      /\ \A j \in SnapshotAt(old, k + i) : j - k \in SnapshotAt(new, i)
  BY SnapshotShifts
<1>2. i \in Nat /\ k + i \in Nat
  OBVIOUS
<1>3. CASE SnapshotAt(new, i) = {}
  <2>1. SnapshotAt(old, k + i) = {}
    BY <1>1, <1>3
  <2> QED BY <1>2, <1>3, <2>1, ContentOf
<1>4. ASSUME NEW j \in SnapshotAt(new, i)
      PROVE  ContentFrom(g, new, i) = ContentFrom(f, old, k + i)
  <2>1. ContentFrom(g, new, i) = RestoredFrom(g, new[j])
    BY <1>2, ContentOf
  <2>2. ContentFrom(f, old, k + i) = RestoredFrom(f, old[k + j])
    BY <1>1, <1>2, ContentOf
  <2>3. j \in 1 .. m
    BY DEF SnapshotAt
  <2> QED BY <2>1, <2>2, <2>3
<1> QED BY <1>3, <1>4

(* The line of a page, with a new entry on top and without the k oldest. *)
KeptLine(e, cur0, b, k) ==
  LET line == Append(SubSeq(e, 1, cur0), b) IN SubSeq(line, k + 1, Len(line))

LEMMA KeptEntries ==
  ASSUME NEW S, NEW e \in Seq(S), NEW cur0 \in 0 .. Len(e), NEW b \in S,
         NEW k \in 0 .. cur0
  PROVE  /\ Len(KeptLine(e, cur0, b, k)) = cur0 + 1 - k
         /\ DOMAIN KeptLine(e, cur0, b, k) = 1 .. cur0 + 1 - k
         /\ \A i \in 1 .. cur0 - k : KeptLine(e, cur0, b, k)[i] = e[k + i]
         /\ KeptLine(e, cur0, b, k)[cur0 + 1 - k] = b
<1> DEFINE line == Append(SubSeq(e, 1, cur0), b)
           kept == SubSeq(line, k + 1, Len(line))
<1>1. line = Pushed(e, cur0, b) /\ cur0 \in Nat /\ k \in Nat /\ k <= cur0
  BY LenProperties DEF Pushed
<1>2. /\ Pushed(e, cur0, b) \in Seq(S)
      /\ Len(Pushed(e, cur0, b)) = cur0 + 1
      /\ \A i \in 1 .. cur0 : Pushed(e, cur0, b)[i] = e[i]
      /\ Pushed(e, cur0, b)[cur0 + 1] = b
  <2> HIDE DEF line, kept
  <2>1. Pushed(e, cur0, b) \in Seq(S) /\ Len(Pushed(e, cur0, b)) = cur0 + 1
    BY PushedItems
  <2>2. \A i \in 1 .. cur0 : Pushed(e, cur0, b)[i] = e[i]
    BY PushedItems
  <2>3. Pushed(e, cur0, b)[cur0 + 1] = b
    BY PushedItems
  <2> QED BY <2>1, <2>2, <2>3
<1> HIDE DEF line
<1>3. k \in 0 .. Len(line) - 1 /\ Len(line) = cur0 + 1
  <2>1. Len(line) = Len(Pushed(e, cur0, b))
    BY <1>1
  <2>2. Len(line) = cur0 + 1
    BY <1>2, <2>1
  <2> QED BY <1>1, <2>2
<1>4. /\ kept \in Seq(S)
      /\ Len(kept) = Len(line) - k
      /\ \A i \in 1 .. Len(line) - k : kept[i] = line[k + i]
  <2>1. line \in Seq(S)
    BY <1>1, <1>2
  <2> QED BY <1>3, <2>1, TrimmedItems
<1> HIDE DEF kept
<1>5. Len(kept) = cur0 + 1 - k /\ DOMAIN kept = 1 .. cur0 + 1 - k
  BY <1>1, <1>3, <1>4, LenProperties
<1>6. ASSUME NEW i \in 1 .. cur0 - k PROVE kept[i] = e[k + i]
  <2>1. i \in 1 .. Len(line) - k /\ k + i \in 1 .. cur0
    BY <1>1, <1>3
  <2> QED BY <1>1, <1>2, <1>4, <2>1
<1>7. kept[cur0 + 1 - k] = b
  <2>1. cur0 + 1 - k \in 1 .. Len(line) - k /\ k + (cur0 + 1 - k) = cur0 + 1
    BY <1>1, <1>3
  <2> QED BY <1>1, <1>2, <1>4, <2>1
<1>8. KeptLine(e, cur0, b, k) = kept
  BY DEF KeptLine, kept, line
<1> QED BY <1>5, <1>6, <1>7, <1>8

LEMMA KeptOldEntry ==
  ASSUME NEW S, NEW e \in Seq(S), NEW cur0 \in 0 .. Len(e), NEW b \in S,
         NEW k \in 0 .. cur0, NEW i \in 1 .. cur0 - k
  PROVE  KeptLine(e, cur0, b, k)[i] = e[k + i]
BY KeptEntries

(* How many entries at the bottom have no snapshot left, after k were taken. *)
LostOf(new, top, k) ==
  IF k = 0 THEN 0
  ELSE Cardinality({i \in 1 .. top : \A j \in 1 .. i : ~HasData(new[j])})

LEMMA LostEntries ==
  ASSUME NEW new, NEW top \in Nat, NEW k
  PROVE  /\ LostOf(new, top, k) \in 0 .. top
         /\ \A i \in 1 .. top :
              /\ i <= LostOf(new, top, k) => \A j \in 1 .. i : ~HasData(new[j])
              /\ i > LostOf(new, top, k) => k = 0 \/ \E d \in 1 .. i : HasData(new[d])
<1>1. CASE k = 0
  BY <1>1 DEF LostOf
<1>2. CASE k # 0
  <2> DEFINE Lost == {i \in 1 .. top : \A j \in 1 .. i : ~HasData(new[j])}
  <2>1. /\ Cardinality(Lost) \in 0 .. top
        /\ \A i \in 1 .. top : i <= Cardinality(Lost) <=> i \in Lost
    BY LostAtBottom
  <2>2. LostOf(new, top, k) = Cardinality(Lost)
    BY <1>2 DEF LostOf
  <2>3. \A i \in 1 .. top : i \in Lost <=> \A j \in 1 .. i : ~HasData(new[j])
    OBVIOUS
  <2> HIDE DEF Lost
  <2>4. \A i \in 1 .. top : /\ i <= LostOf(new, top, k) => i \in Lost
                           /\ i > LostOf(new, top, k) => i \notin Lost
    BY <2>1, <2>2
  <2> QED BY <2>1, <2>2, <2>3, <2>4
<1> QED BY <1>1, <1>2

(* A savestate on the list of a page records an entry: the k oldest nodes are
   forgotten, and those that are now at the bottom without a snapshot at or
   below them are lost.                                                     *)
LEMMA RecordRecords ==
  ASSUME HistoryInv, HistoryInv', Faithful, Faithful', NEW p \in open,
         NEW l0, NEW cur0, l0 = undo_list[p], cur0 = undo_current[p],
         NEW flag \in {"ALL", "VIEWPORT_ONLY"}, NEW c \in Contents, NEW chg \in BOOLEAN,
         NEW node \in Node, NEW k \in Nat, k \in 0 .. cur0,
         Pushes(p, l0, cur0, flag, c, chg, node, k)
  PROVE  H!Record(p, c, chg)
<1> DEFINE old  == undo_list[p]
           new  == undo_list'[p]
           top  == cur0 + 1 - k
           s    == IF flag = "ALL" THEN c ELSE ContentFrom(undo_file, old, cur0)
           lost == IF k = 0 THEN 0
                   ELSE Cardinality({i \in 1 .. top : \A j \in 1 .. i : ~HasData(new[j])})
           kept == KeptLine(Entries[p], cur0, H!Blank(s, chg), k)
<1>1. /\ p \in Pages /\ UndoInv /\ UndoInv' /\ TypeOK /\ TypeOK' /\ DiskNodes
      /\ undo_type = "DISK" /\ unwritten = {}
      /\ undo_current \in [Pages -> Nat] /\ undo_current' \in [Pages -> Nat]
      /\ objects \in [Pages -> Contents]
  BY DEF HistoryInv, ShownInv, UndoInv, TypeOK, Faithful
<1>2. /\ old \in Seq(Node) /\ new \in Seq(Node)
      /\ DOMAIN old = 1 .. Len(old) /\ Len(old) \in Nat
      /\ cur0 \in 1 .. Len(old) /\ cur0 \in 0 .. Len(old) /\ cur0 \in Nat
      /\ top \in Nat /\ top >= 1
  <2>1. old \in Seq(Node) /\ new \in Seq(Node)
    BY <1>1 DEF TypeOK
  <2>2. cur0 \in DOMAIN old
    BY <1>1 DEF UndoInv, CurrentInList
  <2>3. DOMAIN old = 1 .. Len(old) /\ Len(old) \in Nat
    BY <2>1, LenProperties
  <2> QED BY <2>1, <2>2, <2>3
<1>3. SavestateEffect(p, old, cur0, flag, c, chg, node, k)
  BY DEF Pushes
<1>4. /\ objects' = [objects EXCEPT ![p] = c]
      /\ CHANGED' = [CHANGED EXCEPT ![p] = chg]
      /\ open' = open
      /\ \A q \in Pages \ {p} : undo_current'[q] = undo_current[q]
      /\ flag = "VIEWPORT_ONLY" => c = objects[p]
  BY DEF Pushes
<1>5. /\ undo_current' = [undo_current EXCEPT ![p] = top]
      /\ new[top] = node /\ node.CHANGED = chg
      /\ flag = "VIEWPORT_ONLY" => ~HasData(node)
      /\ Len(new) = top
  BY <1>1, <1>3, <1>4 DEF SavestateEffect
<1>6. /\ DOMAIN new = 1 .. top
      /\ \A i \in 1 .. cur0 - k : k + i \in DOMAIN old /\ new[i] = old[k + i]
      /\ \A i \in 1 .. cur0 - k :
           RestoredFrom(undo_file', old[k + i]) = RestoredFrom(undo_file, old[k + i])
  <2>1. \A i \in DOMAIN old : i \in DOMAIN undo_list[p] /\ old[i] = undo_list[p][i]
    OBVIOUS
  <2>2. \A n : Restored(n) = RestoredFrom(undo_file, n)
    BY DEF Restored, RestoredFrom
  <2>3. /\ l0 \in Seq(Node) /\ cur0 \in 0 .. Len(l0) /\ l0 = old
        /\ SavestateEffect(p, l0, cur0, flag, c, chg, node, k)
        /\ \A i \in DOMAIN l0 : i \in DOMAIN undo_list[p] /\ l0[i] = undo_list[p][i]
    BY <1>2, <1>3, <2>1
  <2>4. /\ DOMAIN undo_list'[p] = 1 .. cur0 + 1 - k
        /\ \A i \in 1 .. cur0 - k :
             LET n == undo_list[p][k + i]
             IN /\ k + i \in DOMAIN undo_list[p]
                /\ n \in Node
                /\ undo_list'[p][i] = n
                /\ RestoredFrom(undo_file', n) = Restored(n)
                /\ n.filename \in unwritten' <=> n.filename \in unwritten
    <3>1. TypeOK /\ TypeOK' /\ p \in Pages
      BY <1>1
    <3>2. /\ l0 \in Seq(Node) /\ cur0 \in 0 .. Len(l0)
          /\ SavestateEffect(p, l0, cur0, flag, c, chg, node, k)
          /\ \A i \in DOMAIN l0 : i \in DOMAIN undo_list[p] /\ l0[i] = undo_list[p][i]
      BY <2>3
    <3> HIDE DEF old, new, top, kept, lost, s
    <3> QED BY <3>1, <3>2, OldNodes
  <2> QED BY <2>2, <2>4, Zenon
<1>7. Entries' = [Entries EXCEPT ![p] = EntriesFrom(undo_file', new)]
  BY <1>1, PushedEntries
<1>8. /\ Entries[p] \in Seq(H!Entry) /\ Len(Entries[p]) = Len(old)
      /\ \A i \in 1 .. Len(old) :
           Entries[p][i] = H!Blank(ContentFrom(undo_file, old, i), old[i].CHANGED)
  <2>1. Entries[p] = EntriesFrom(undo_file, old)
    BY <1>1, EntriesAre
  <2>2. \A i \in 1 .. Len(old) : /\ ContentFrom(undo_file, old, i) \in Contents \cup {Missing}
                               /\ old[i].CHANGED \in BOOLEAN
    <3>1. \A i \in 1 .. Len(old) : old[i] \in Node
      BY <1>2, ElementOfSeq
    <3> QED BY <1>1, <1>2, <3>1, ContentIn DEF Node
  <2> HIDE DEF old
  <2>3. \A i \in 1 .. Len(old) :
          H!Blank(ContentFrom(undo_file, old, i), old[i].CHANGED) \in H!Entry
    BY <2>2 DEF H!Blank, H!Entry
  <2>4. EntriesFrom(undo_file, old)
          = [i \in 1 .. Len(old) |-> H!Blank(ContentFrom(undo_file, old, i), old[i].CHANGED)]
    BY <1>2 DEF EntriesFrom
  <2> QED BY <1>2, <2>1, <2>3, <2>4, IsASeq
<1>9. lost \in 0 .. top
  <2>1. lost = LostOf(new, top, k)
    BY DEF LostOf
  <2> QED BY <1>2, <2>1, LostEntries
<1>9a. ASSUME NEW i \in 1 .. top, i <= lost, NEW j \in 1 .. i
       PROVE  ~HasData(new[j])
  <2>1. lost = LostOf(new, top, k)
    BY DEF LostOf
  <2> HIDE DEF lost, new, top
  <2> QED BY <1>2, <1>9a, <2>1, LostEntries
<1>9b. ASSUME NEW i \in 1 .. top, i > lost
       PROVE  k = 0 \/ \E d \in 1 .. i : HasData(new[d])
  <2>1. lost = LostOf(new, top, k)
    BY DEF LostOf
  <2> HIDE DEF lost, new, top
  <2> QED BY <1>2, <1>9b, <2>1, LostEntries
(* The content of an entry that is not lost is what it was. *)
<1>10. ASSUME NEW i \in 1 .. cur0 - k, k = 0 \/ \E d \in 1 .. i : HasData(new[d])
       PROVE  ContentFrom(undo_file', new, i) = ContentFrom(undo_file, old, k + i)
  <2> DEFINE m == cur0 - k
  <2>1. m \in Nat
    BY <1>2
  <2>2. \A h \in 1 .. m : new[h] = old[k + h]
    BY <1>6
  <2>3. \A h \in 1 .. m : RestoredFrom(undo_file', old[k + h]) = RestoredFrom(undo_file, old[k + h])
    BY <1>6
  <2>4. i \in 1 .. m
    OBVIOUS
  <2>5. Covered(new, k, i)
    BY <1>10 DEF Covered
  <2> HIDE DEF old, new, m
  <2>6. Shifted(old, new, k, m, undo_file, undo_file')
    BY <2>2, <2>3 DEF Shifted
  <2> QED BY <2>1, <2>4, <2>5, <2>6, ContentShifts
(* A trimmed list has a snapshot left. *)
<1>11. k = 0 \/ \E d \in 1 .. top : HasData(new[d])
  <2> SUFFICES ASSUME k # 0 PROVE \E d \in DOMAIN new : HasData(new[d])
    BY <1>6
  <2>1. undo_file_index' \in Nat
    BY <1>1 DEF TypeOK
  <2>2. s_undo_levels(new) >= UndoLevels
    BY <1>2, <1>3, <2>1, TrimmedLevels
  <2>3. s_undo_levels(new) # 0
    <3>1. s_undo_levels(new) \in Int
      BY <1>2, LevelsInRange
    <3> QED BY <2>2, <3>1, LevelsAssumption
  <2>4. Cardinality({}) = 0
    BY FS_EmptySet
  <2>5. {d \in DOMAIN new : HasData(new[d])} # {}
    BY <2>3, <2>4 DEF s_undo_levels
  <2> QED BY <2>5
<1>12. lost < top
  <2>1. CASE k = 0
    BY <1>2, <2>1
  <2>2. CASE k # 0
    <3> HIDE DEF lost, new, top
    <3>1. PICK d \in 1 .. top : HasData(new[d])
      BY <1>11, <2>2
    <3>2. ASSUME top <= lost PROVE FALSE
      <4>1. top \in 1 .. top
        BY <1>2
      <4>2. ~HasData(new[d])
        BY <1>9a, <3>2, <4>1
      <4> QED BY <3>1, <4>2
    <3> QED BY <1>2, <1>9, <3>2
  <2> QED BY <2>1, <2>2
<1>13. ContentFrom(undo_file', new, top) = s
  <2>1. CASE flag = "ALL"
    <3>1. HasData(node) /\ RestoredFrom(undo_file', node) = c
      BY <1>1, <2>1, SnapshotOnTop
    <3> HIDE DEF new, top
    <3>2. SnapshotAt(new, top) = {top}
      BY <1>2, <1>5, <3>1, SnapshotHere
    <3>3. ContentFrom(undo_file', new, top) = RestoredFrom(undo_file', new[top])
      BY <1>2, <3>2, ContentOf
    <3> QED BY <1>5, <2>1, <3>1, <3>3
  <2>2. CASE flag = "VIEWPORT_ONLY"
    <3>0. ~HasData(node) /\ new[top] = node
      BY <1>5, <2>2
    <3>a. top - 1 = cur0 - k /\ k + (cur0 - k) = cur0
      BY <1>2
    <3>1. ~HasData(new[top]) /\ top - 1 = cur0 - k /\ k + (cur0 - k) = cur0
      <4> HIDE DEF new, top
      <4> QED BY <3>0, <3>a
    <3>2. ContentFrom(undo_file', new, top) = ContentFrom(undo_file', new, top - 1)
      <4> HIDE DEF new, top
      <4>1. SnapshotAt(new, top) = SnapshotAt(new, top - 1)
        BY <1>2, <3>1, SnapshotBelow
      <4> QED BY <4>1 DEF ContentFrom
    <3>3. k = 0 \/ \E d \in 1 .. cur0 - k : HasData(new[d])
      <4>1. ASSUME NEW d \in 1 .. top, HasData(new[d]) PROVE d \in 1 .. cur0 - k
        <5>1. d # top
          BY <3>1, <4>1
        <5> QED BY <1>2, <3>1, <5>1
      <4> QED BY <1>11, <4>1
    <3>4. cur0 - k \in 1 .. cur0 - k
      <4>1. CASE k = 0
        BY <1>2, <4>1
      <4>2. CASE k # 0
        BY <1>2, <3>3, <4>2
      <4> QED BY <4>1, <4>2
    <3>5. ContentFrom(undo_file', new, cur0 - k) = ContentFrom(undo_file, old, cur0)
      BY <1>10, <3>1, <3>3, <3>4
    <3> HIDE DEF new, top, old
    <3> QED BY <2>2, <3>1, <3>2, <3>5
  <2> QED BY <2>1, <2>2
<1>14. /\ s \in {c, Missing}
       /\ s = Missing => Entries[p][cur0].content = Missing /\ c = objects[p]
  <2>1. CASE flag = "ALL"
    BY <2>1, ContentsAssumption
  <2>2. CASE flag = "VIEWPORT_ONLY"
    <3>1. c = objects[p] /\ s = ContentFrom(undo_file, old, cur0)
      BY <1>4, <2>2
    <3>2. Entries[p][cur0].content = s
      BY <1>2, <1>8, <3>1, BlankFields
    <3>3. ASSUME NEW j \in SnapshotAt(old, cur0) PROVE s = objects[p]
      <4>1. objects[p] = Restored(old[j])
        BY CurrentShown
      <4>2. ContentFrom(undo_file, old, cur0) = RestoredFrom(undo_file, old[j])
        BY <1>2, ContentOf
      <4> QED BY <3>1, <4>1, <4>2 DEF Restored, RestoredFrom
    <3>4. SnapshotAt(old, cur0) = {} => s = Missing
      BY <1>2, <3>1, ContentOf
    <3> QED BY <3>1, <3>2, <3>3, <3>4
  <2> QED BY <2>1, <2>2
<1>15. /\ Len(kept) = top /\ DOMAIN kept = 1 .. top
       /\ \A i \in 1 .. cur0 - k : kept[i] = Entries[p][k + i]
       /\ kept[top] = H!Blank(s, chg)
  <2>1. H!Blank(s, chg) \in H!Entry
    <3>1. s \in Contents \cup {Missing}
      BY <1>14
    <3> HIDE DEF s
    <3> QED BY <3>1 DEF H!Blank, H!Entry
  <2>2. Entries[p] \in Seq(H!Entry) /\ cur0 \in 0 .. Len(Entries[p])
    BY <1>2, <1>8
  <2> DEFINE e == Entries[p]
             b == H!Blank(s, chg)
  <2>3. e \in Seq(H!Entry) /\ cur0 \in 0 .. Len(e) /\ b \in H!Entry /\ k \in 0 .. cur0
    BY <2>1, <2>2
  <2>4. kept = KeptLine(e, cur0, b, k)
    OBVIOUS
  <2> HIDE DEF s, e, b, kept, old, new, lost
  <2>5. Len(KeptLine(e, cur0, b, k)) = cur0 + 1 - k
    BY <2>3, KeptEntries
  <2>6. DOMAIN KeptLine(e, cur0, b, k) = 1 .. cur0 + 1 - k
    BY <2>3, KeptEntries
  <2>7. \A i \in 1 .. cur0 - k : KeptLine(e, cur0, b, k)[i] = e[k + i]
    <3> SUFFICES ASSUME NEW i \in 1 .. cur0 - k
                 PROVE  KeptLine(e, cur0, b, k)[i] = e[k + i]
      OBVIOUS
    <3> QED BY <2>3, KeptOldEntry
  <2>8. KeptLine(e, cur0, b, k)[cur0 + 1 - k] = b
    BY <2>3, KeptEntries
  <2> QED BY <2>4, <2>5, <2>6, <2>7, <2>8 DEF e, b
<1>16. EntriesFrom(undo_file', new)
         = [i \in DOMAIN kept |-> IF i <= lost THEN H!Blank(Missing, kept[i].modified)
                                  ELSE kept[i]]
  <2>1. ASSUME NEW i \in 1 .. top
        PROVE  H!Blank(ContentFrom(undo_file', new, i), new[i].CHANGED)
                 = IF i <= lost THEN H!Blank(Missing, kept[i].modified) ELSE kept[i]
    <3> HIDE DEF lost, kept, new, old, top, s
    <3>1. CASE i <= lost
      <4>1. i # top /\ i \in 1 .. cur0 - k
        BY <1>2, <1>9, <1>12, <3>1 DEF top
      <4>2. \A j \in 1 .. i : ~HasData(new[j])
        BY <1>9a, <3>1
      <4>3. ContentFrom(undo_file', new, i) = Missing
        <5>1. SnapshotAt(new, i) = {}
          BY <4>2 DEF SnapshotAt
        <5> QED BY <1>2, <5>1, ContentOf
      <4>4. kept[i].modified = new[i].CHANGED
        <5>1. k + i \in 1 .. Len(old) /\ new[i] = old[k + i]
          BY <1>2, <1>6, <4>1
        <5>2. kept[i] = H!Blank(ContentFrom(undo_file, old, k + i), old[k + i].CHANGED)
          BY <1>8, <1>15, <4>1, <5>1
        <5> QED BY <5>1, <5>2, BlankFields
      <4> QED BY <3>1, <4>3, <4>4
    <3>2. CASE ~(i <= lost) /\ i \in 1 .. cur0 - k
      <4>1. k + i \in 1 .. Len(old) /\ new[i] = old[k + i]
        BY <1>2, <1>6, <3>2
      <4>2. kept[i] = H!Blank(ContentFrom(undo_file, old, k + i), old[k + i].CHANGED)
        BY <1>8, <1>15, <3>2, <4>1
      <4>3. i > lost
        BY <1>2, <1>9, <3>2
      <4>4. ContentFrom(undo_file', new, i) = ContentFrom(undo_file, old, k + i)
        <5>1. k = 0 \/ \E d \in 1 .. i : HasData(new[d])
          BY <1>9b, <4>3
        <5> QED BY <1>10, <3>2, <5>1
      <4> QED BY <3>2, <4>1, <4>2, <4>4
    <3>3. CASE ~(i <= lost) /\ i = top
      BY <1>5, <1>13, <1>15, <3>3
    <3>4. i \in 1 .. cur0 - k \/ i = top
      BY <1>2 DEF top
    <3> QED BY <3>1, <3>2, <3>3, <3>4
  <2> HIDE DEF lost, kept, new, top
  <2> QED BY <1>6, <1>15, <2>1 DEF EntriesFrom
<1>17. k \in 0 .. cur0 /\ lost \in 0 .. cur0
  <2> HIDE DEF lost, old, new
  <2> QED BY <1>2, <1>9, <1>12
<1> DEFINE Kept(drop, x) ==
             LET ln == Append(SubSeq(Entries[p], 1, undo_current[p]), H!Blank(x, chg))
             IN  SubSeq(ln, drop + 1, Len(ln))
<1>18. kept = Kept(k, s)
  BY DEF KeptLine
<1>19. \E drop \in 0 .. undo_current[p], lst \in 0 .. undo_current[p], x \in {c, Missing} :
         /\ x = Missing => Entries[p][undo_current[p]].content = Missing /\ c = objects[p]
         /\ lst < Len(Kept(drop, x))
         /\ Entries' = [Entries EXCEPT ![p] =
                          [i \in DOMAIN Kept(drop, x) |->
                             IF i <= lst THEN H!Blank(Missing, Kept(drop, x)[i].modified)
                                         ELSE Kept(drop, x)[i]]]
         /\ undo_current' = [undo_current EXCEPT ![p] = Len(Kept(drop, x))]
  <2> HIDE DEF kept, Kept, lost, s, new, top
  <2> QED BY <1>5, <1>7, <1>12, <1>14, <1>15, <1>16, <1>17, <1>18
<1> QED BY <1>4, <1>19 DEF H!Record

-----------------------------------------------------------------------------
(* The refinement *)

LEMMA InitHistory == Init => HistoryInv
BY InitShown, InitGrowth DEF HistoryInv, GrowthInv

LEMMA NextHistory ==
  ASSUME HistoryInv, HistoryInv', Faithful, Faithful', [Next]_vars
  PROVE  [H!HNext]_H!hvars
<1>1. /\ UndoInv /\ UndoInv' /\ TypeOK /\ open \subseteq Pages
      /\ PushStep \/ CallbackStep \/ SavedStep \/ \E p \in Pages : ClosePage(p)
  BY StepCases DEF HistoryInv, ShownInv, UndoInv, TypeOK
<1>2. CASE PushStep
  <2>1. PICK p \in Pages, l0 \in Seq(Node), cur0 \in Nat, flag \in {"ALL", "VIEWPORT_ONLY"},
             c \in Contents, chg \in BOOLEAN, node \in Node, k \in Nat :
          /\ cur0 \in 0 .. Len(l0) /\ k \in 0 .. cur0
          /\ Pushes(p, l0, cur0, flag, c, chg, node, k)
    BY <1>2 DEF PushStep
  <2>2. CASE p \in open /\ l0 = undo_list[p] /\ cur0 = undo_current[p]
    <3>1. H!Record(p, c, chg)
      BY <2>1, <2>2, RecordRecords
    <3> QED BY <2>1, <3>1 DEF H!HNext
  <2>3. CASE cur0 = 0 /\ flag = "ALL"
    <3>1. H!Start(p, c, chg)
      BY <1>1, <2>1, <2>3, RootStarts
    <3> QED BY <2>1, <3>1 DEF H!HNext
  <2> QED BY <2>1, <2>2, <2>3 DEF Pushes
<1>3. CASE CallbackStep
  <2>1. PICK p \in open : \E to \in {undo_current[p] - 1, undo_current[p] + 1} :
                            o_undo_callback(p, to)
    BY <1>3 DEF CallbackStep
  <2>2. \E to \in {undo_current[p] - 1, undo_current[p] + 1} : H!GoTo(p, to)
    BY <2>1, CallbackGoes
  <2> QED BY <1>1, <2>2 DEF H!HNext
<1>4. CASE SavedStep
  BY <1>1, <1>4, SavedSaves DEF H!HNext
<1>5. CASE \E p \in Pages : ClosePage(p)
  BY <1>1, <1>5, CloseCloses DEF H!HNext
<1> QED BY <1>1, <1>2, <1>3, <1>4, <1>5

LEMMA HistoryInvariant == Spec => []HistoryInv
<1>1. Spec => []ShownInv
  BY InitShown, NextShown, PTL DEF Spec
<1>2. Spec => []GrowthInv
  BY InitGrowth, NextGrowth, PTL DEF Spec
<1>3. ShownInv /\ GrowthInv => HistoryInv
  BY DEF HistoryInv, GrowthInv
<1> QED BY <1>1, <1>2, <1>3, PTL

(* While snapshots go to files and every file could be written, undo and redo
   walk a line of entries and show exactly what was recorded: any number of
   pages, levels and operations (o_undo.c:79-252, 366-500).                 *)
THEOREM FaithfulUndoImplementsHistory == Spec /\ []Faithful => ImplementsHistory
<1>1. Init /\ Faithful => H!HInit
  BY InitStarts
<1>2. HistoryInv /\ HistoryInv' /\ Faithful /\ Faithful' /\ [Next]_vars => [H!HNext]_H!hvars
  BY NextHistory
<1> QED BY <1>1, <1>2, HistoryInvariant, PTL DEF Spec, ImplementsHistory, H!HSpec

(* Where snapshots can only be files and no write can fail, every behaviour is
   faithful.                                                                 *)
LEMMA AlwaysFaithful ==
  ASSUME UndoTypes = {"DISK"}, MaxFailures = 0
  PROVE  Spec => []Faithful
<1>1. Init => Faithful
  BY DEF Init, Faithful
<1>2. Faithful /\ UndoInv /\ [Next]_vars => Faithful'
  <2> SUFFICES ASSUME Faithful, UndoInv, [Next]_vars PROVE Faithful'
    OBVIOUS
  <2>1. /\ PushStep \/ CallbackStep \/ SavedStep \/ \E p \in Pages : ClosePage(p)
        /\ undo_type' = undo_type
    BY StepCases DEF config
  <2>2. unwritten' = unwritten \/ Cardinality(unwritten) < MaxFailures
    <3>1. CASE PushStep
      BY <3>1 DEF PushStep, Pushes, SavestateEffect
    <3>2. CASE CallbackStep
      BY <3>2 DEF CallbackStep, o_undo_callback, filevars
    <3>3. CASE SavedStep \/ \E p \in Pages : ClosePage(p)
      BY <3>3 DEF SavedStep, ClosePage, filevars
    <3> QED BY <2>1, <3>1, <3>2, <3>3
  <2>3. ~(Cardinality(unwritten) < MaxFailures)
    BY FS_EmptySet DEF Faithful
  <2> QED BY <2>1, <2>2, <2>3 DEF Faithful
<1> QED BY <1>1, <1>2, UndoInvariant, PTL DEF Spec

(* So, where snapshots are files that are written, undo implements History: the
   user walks the line of what was recorded (o_undo.c:79-252, 366-500).       *)
THEOREM UndoImplementsHistory ==
  ASSUME UndoTypes = {"DISK"}, MaxFailures = 0
  PROVE  Spec => ImplementsHistory
BY AlwaysFaithful, FaithfulUndoImplementsHistory, PTL
=============================================================================
