------------------------ MODULE AutoscanRegistryProofs ------------------------
(***************************************************************************)
(* Theorems about the autoscan register, for any directories, any          *)
(* configuration and any bounds: the type invariant, the distinct scan ids *)
(* of the watch list, and, when requests come one after the other, the     *)
(* rows that never overlap.                                                *)
(***************************************************************************)
EXTENDS MCAutoscanRegistry, FiniteSetTheorems, WellFoundedInduction, TLAPS

-------------------------------------------------------------------------------
(* Type correctness.                                                       *)

SetPCs == {"find", "check", "addcheck", "insert", "scan", "replace", "drop", "rescan"}
CopyPCs == {"drop", "rescan", "update", "write"}

\* what a request holds refers to objects, and an idle worker holds nothing
RefsInRange ==
    \A w \in Workers :
        /\ worker[w].pc # "idle" => worker[w].dir \in DOMAIN ads
        /\ worker[w].orig # NoDir => worker[w].orig \in DOMAIN ads
        /\ worker[w].pc = "replace" => worker[w].orig # NoDir
        /\ worker[w].pc \in CopyPCs => worker[w].copy \in DOMAIN ads
        /\ worker[w].pc = "idle" => worker[w] = Free

TInv ==
    /\ TypeOK
    /\ IsFiniteSet(rows)
    /\ RefsInRange
    /\ phase # "up" => \A w \in Workers : worker[w] = Free

USE PathsAssumption

\* The objects stay a sequence of objects when one of them changes, and when
\* one is made.
LEMMA PutType ==
    ASSUME NEW a \in Seq(ADs), NEW d \in DOMAIN a
    PROVE  /\ \A id \in Nat \cup {INVALID} : [a EXCEPT ![d].scanID = id] \in Seq(ADs)
           /\ \A row \in Nat : [a EXCEPT ![d].row = row] \in Seq(ADs)
           /\ \A x \in ADs : [a EXCEPT ![d] = x] \in Seq(ADs)
           /\ \A x \in ADs : Append(a, x) \in Seq(ADs)
<1>1. a[d] \in ADs
  OBVIOUS
<1>2. \A x \in ADs : [a EXCEPT ![d] = x] \in Seq(ADs)
  OBVIOUS
<1>3. \A id \in Nat \cup {INVALID} : [a[d] EXCEPT !.scanID = id] \in ADs
  BY <1>1 DEF ADs
<1>4. \A row \in Nat : [a[d] EXCEPT !.row = row] \in ADs
  BY <1>1 DEF ADs
<1>5. \A id \in Nat \cup {INVALID} : [a EXCEPT ![d].scanID = id] = [a EXCEPT ![d] = [a[d] EXCEPT !.scanID = id]]
  OBVIOUS
<1>6. \A row \in Nat : [a EXCEPT ![d].row = row] = [a EXCEPT ![d] = [a[d] EXCEPT !.row = row]]
  OBVIOUS
<1>7. \A id \in Nat \cup {INVALID} : [a EXCEPT ![d].scanID = id] \in Seq(ADs)
  BY <1>2, <1>3, <1>5
<1>8. \A row \in Nat : [a EXCEPT ![d].row = row] \in Seq(ADs)
  BY <1>2, <1>4, <1>6
<1>9. \A x \in ADs : Append(a, x) \in Seq(ADs)
  OBVIOUS
<1> QED
  BY <1>2, <1>7, <1>8, <1>9

\* Removing one element of a sequence leaves a sequence, one shorter.
LEMMA WithoutSeq ==
    ASSUME NEW S, NEW l \in Seq(S), NEW k \in DOMAIN l
    PROVE  /\ Without(l, k) \in Seq(S)
           /\ Len(Without(l, k)) = Len(l) - 1
           /\ \A i \in 1 .. Len(l) - 1 :
                 Without(l, k)[i] = IF i < k THEN l[i] ELSE l[i + 1]
BY DEF Without

\* The watch list holds references when Add or Remove has changed it.
LEMMA AddType ==
    ASSUME TypeOK, NEW d \in DOMAIN ads, NEW index \in Nat, Add(ads, d, index)
    PROVE  /\ ads' \in Seq(ADs) /\ DOMAIN ads' = DOMAIN ads
           /\ list' \in Seq(DOMAIN ads') /\ nextIndex' \in Nat
<1>1. ads \in Seq(ADs) /\ list \in Seq(DOMAIN ads) /\ nextIndex \in Nat /\ ads[d] \in ADs
  BY DEF TypeOK
<1>2. [ads EXCEPT ![d].scanID = index] \in Seq(ADs)
  BY <1>1, PutType
<1>3. DOMAIN [ads EXCEPT ![d].scanID = index] = DOMAIN ads
  BY <1>1
<1>4. \/ ads' = ads /\ list' = list /\ nextIndex' = nextIndex
      \/ /\ ads' = [ads EXCEPT ![d].scanID = index] /\ list' = Append(list, d)
         /\ nextIndex' = IF index < nextIndex THEN nextIndex ELSE index + 1
  BY DEF Add
<1>5. Append(list, d) \in Seq(DOMAIN ads) /\ index + 1 \in Nat
  BY <1>1
<1>6. CASE ads' = ads /\ list' = list /\ nextIndex' = nextIndex
  BY <1>1, <1>6
<1>7. CASE /\ ads' = [ads EXCEPT ![d].scanID = index] /\ list' = Append(list, d)
          /\ nextIndex' = IF index < nextIndex THEN nextIndex ELSE index + 1
  <2>1. DOMAIN ads' = DOMAIN ads /\ ads' \in Seq(ADs)
    BY <1>2, <1>3, <1>7
  <2>2. list' \in Seq(DOMAIN ads') /\ nextIndex' \in Nat
    BY <1>1, <1>5, <1>7, <2>1
  <2> QED
    BY <2>1, <2>2
<1> QED
  BY <1>4, <1>6, <1>7

LEMMA RemoveType ==
    ASSUME TypeOK, NEW d \in DOMAIN ads, Remove(d)
    PROVE  /\ ads' \in Seq(ADs) /\ DOMAIN ads' = DOMAIN ads
           /\ list' \in Seq(DOMAIN ads')
<1>1. ads \in Seq(ADs) /\ list \in Seq(DOMAIN ads) /\ ads[d] \in ADs
  BY DEF TypeOK
<1>2. [ads EXCEPT ![d].scanID = INVALID] \in Seq(ADs)
  BY <1>1, PutType
<1>3. DOMAIN [ads EXCEPT ![d].scanID = INVALID] = DOMAIN ads
  BY <1>1
<1>4. \/ ads' = ads /\ list' = list
      \/ /\ ads' = [ads EXCEPT ![d].scanID = INVALID]
         /\ \E k \in DOMAIN list : list' = Without(list, k)
  BY DEF Remove, IsFirst
<1>5. \A k \in DOMAIN list : Without(list, k) \in Seq(DOMAIN ads)
  BY <1>1, WithoutSeq
<1> QED
  BY <1>1, <1>2, <1>3, <1>4, <1>5

\* A worker that moves on keeps what it holds; one that finishes holds nothing.
LEMMA GotoRefs ==
    ASSUME TypeOK, RefsInRange, NEW w \in Workers, worker[w].pc # "idle",
           NEW pc \in PCs, pc # "idle", Goto(w, pc),
           pc = "replace" => worker[w].orig # NoDir,
           pc \in CopyPCs => worker[w].copy \in DOMAIN ads,
           DOMAIN ads \subseteq DOMAIN ads'
    PROVE  RefsInRange' /\ worker' \in [Workers -> WorkerStates]
<1>1. worker \in [Workers -> WorkerStates] /\ worker[w] \in WorkerStates
  BY DEF TypeOK
<1>2. worker' \in [Workers -> WorkerStates]
  BY <1>1 DEF Goto, WorkerStates
<1>3. /\ worker'[w].pc = pc /\ worker'[w].dir = worker[w].dir
      /\ worker'[w].orig = worker[w].orig /\ worker'[w].copy = worker[w].copy
      /\ \A v \in Workers \ {w} : worker'[v] = worker[v]
  BY <1>1 DEF Goto, WorkerStates
<1> QED
  BY <1>2, <1>3 DEF RefsInRange

LEMMA FinishRefs ==
    ASSUME TypeOK, RefsInRange, NEW w \in Workers, Finish(w),
           DOMAIN ads \subseteq DOMAIN ads'
    PROVE  RefsInRange' /\ worker' \in [Workers -> WorkerStates]
<1>1. worker \in [Workers -> WorkerStates]
  BY DEF TypeOK
<1>2. Free \in WorkerStates
  BY DEF Free, WorkerStates, PCs, NoDir
<1>3. worker'[w] = Free /\ \A v \in Workers \ {w} : worker'[v] = worker[v]
  BY <1>1 DEF Finish
<1>4. worker' \in [Workers -> WorkerStates]
  BY <1>1, <1>2 DEF Finish
<1>5. Free.pc = "idle" /\ Free.orig = NoDir
  BY DEF Free
<1> QED
  BY <1>3, <1>4, <1>5 DEF RefsInRange, CopyPCs

\* The entry of a path, and the effect of the notification, have their types.
LEMMA ListedType ==
    ASSUME TypeOK, NEW path
    PROVE  ListedAt(path) \subseteq DOMAIN ads
<1>1. \A k \in DOMAIN list : list[k] \in DOMAIN ads
  BY DEF TypeOK
<1> QED
  BY <1>1 DEF ListedAt

LEMMA NotifyType ==
    ASSUME NEW path \in Paths, NEW id, Notify(path, id),
           ads' \in Seq(ADs), list' \in Seq(DOMAIN ads')
    PROVE  fired' \subseteq Notices
<1>1. CASE id + 1 \in DOMAIN list'
  <2>1. list'[id + 1] \in DOMAIN ads' /\ ads'[list'[id + 1]] \in ADs
    BY <1>1
  <2>2. ads'[list'[id + 1]].path \in Paths
    BY <2>1 DEF ADs
  <2> QED
    BY <1>1, <2>2 DEF Notify, Scanned, Notices
<1>2. CASE id + 1 \notin DOMAIN list'
  BY <1>2 DEF Notify, Scanned, Notices
<1> QED
  BY <1>1, <1>2

LEMMA ScanDirType ==
    ASSUME TypeOK, NEW d \in DOMAIN ads, ScanDir(d)
    PROVE  /\ ads' \in Seq(ADs) /\ DOMAIN ads' = DOMAIN ads
           /\ list' \in Seq(DOMAIN ads') /\ nextIndex' \in Nat
           /\ fired' \subseteq Notices
<1>1. ads[d] \in ADs /\ nextIndex \in Nat /\ fired \subseteq Notices
  BY DEF TypeOK
<1>2. (IF ads[d].scanID = INVALID THEN FreshIndex ELSE ads[d].scanID) \in Nat
  BY <1>1 DEF ADs, FreshIndex
<1>3. /\ ads' \in Seq(ADs) /\ DOMAIN ads' = DOMAIN ads
      /\ list' \in Seq(DOMAIN ads') /\ nextIndex' \in Nat
  BY <1>2, AddType DEF ScanDir
<1>4. ads[d].path \in Paths
  BY <1>1 DEF ADs
<1>5. fired' \subseteq Notices
  BY <1>1, <1>3, <1>4, NotifyType DEF ScanDir
<1> QED
  BY <1>3, <1>5

\* The rows of the autoscan table keep their type, and stay finitely many.
LEMMA WrittenType ==
    ASSUME rows \subseteq Rows, IsFiniteSet(rows), NEW ad \in ADs
    PROVE  WrittenRows(ad) \subseteq Rows /\ IsFiniteSet(WrittenRows(ad))
<1> DEFINE old == {r \in rows : r.id = ad.row}
<1>1. old # {} => Row(ad.row, ad) \in Rows
  BY DEF Rows, Row, ADs
<1>2. IsFiniteSet(rows \ old)
  BY FS_Subset
<1>3. IsFiniteSet({Row(ad.row, ad)}) /\ IsFiniteSet({})
  BY FS_Singleton, FS_EmptySet
<1>4. IsFiniteSet((rows \ old) \cup {Row(ad.row, ad)})
  BY <1>2, <1>3, FS_AddElement
<1>5. WrittenRows(ad) = (rows \ old) \cup (IF old = {} THEN {} ELSE {Row(ad.row, ad)})
  BY DEF WrittenRows
<1>6. CASE old = {}
  BY <1>2, <1>5, <1>6
<1>7. CASE old # {}
  BY <1>1, <1>4, <1>5, <1>7
<1> QED
  BY <1>6, <1>7

\* The initial state.
LEMMA InitTInv == Init => TInv
<1> SUFFICES ASSUME Init PROVE TInv
  OBVIOUS
<1>1. Free \in WorkerStates
  BY DEF Free, WorkerStates, PCs, NoDir
<1>2. TypeOK
  BY <1>1 DEF Init, TypeOK
<1>3. IsFiniteSet(rows)
  BY FS_EmptySet DEF Init
<1>4. RefsInRange
  BY DEF Init, RefsInRange, Free, CopyPCs, NoDir
<1>5. \A w \in Workers : worker[w] = Free
  BY DEF Init
<1> QED
  BY <1>2, <1>3, <1>4, <1>5 DEF TInv

\* A start of the server makes a list of the rows and the configuration.
LEMMA StartTInv ==
    ASSUME TInv, Start
    PROVE  /\ TInv'
           /\ \A i \in DOMAIN list' :
                 list'[i] = i /\ ads'[i].scanID = i - 1 /\ i - 1 < nextIndex'
<1>1. \A mode : \A f \in RowsOf(mode) : f \in Seq(rows)
  <2> SUFFICES ASSUME NEW mode, NEW f \in RowsOf(mode) PROVE f \in Seq(rows)
    OBVIOUS
  <2> DEFINE S == {r \in rows : r.mode = mode}
  <2>1. IsFiniteSet(S)
    BY FS_Subset DEF TInv
  <2>2. Cardinality(S) \in Nat
    BY <2>1, FS_CardinalityType
  <2>3. f \in [1 .. Cardinality(S) -> S]
    BY DEF RowsOf, Orders
  <2> HIDE DEF S
  <2>4. f \in Seq(S)
    BY <2>2, <2>3
  <2>5. S \subseteq rows
    BY DEF S
  <2> QED
    BY <2>4, <2>5
<1>2. \A mode \in Modes : ConfigOf(mode) \in Seq(Setting)
  BY DEF ConfigOf
<1>3. PICK timed \in RowsOf("timed"), manual \in RowsOf("manual") :
        LET fromRows == timed \o manual
            all == fromRows \o ConfigOf("timed") \o ConfigOf("manual")
            known(i) == i <= Len(fromRows)
        IN /\ ads' = [i \in DOMAIN all |->
                          AD(all[i], ~known(i), i - 1,
                             IF known(i) THEN fromRows[i].id ELSE NoRow, i)]
           /\ list' = [i \in DOMAIN all |-> i]
           /\ nextIndex' = Len(all)
           /\ subs' = {Sub(all[i].path, i - 1) : i \in {j \in DOMAIN all : all[j].mode = "timed"}}
  BY DEF Start
<1> DEFINE fromRows == timed \o manual
           all == fromRows \o ConfigOf("timed") \o ConfigOf("manual")
           row(i) == IF i <= Len(fromRows) THEN fromRows[i].id ELSE NoRow
<1>4. fromRows \in Seq(Rows)
  <2>1. timed \in Seq(rows) /\ manual \in Seq(rows)
    BY <1>1
  <2>2. timed \in Seq(Rows) /\ manual \in Seq(Rows)
    BY <2>1 DEF TInv, TypeOK
  <2> QED
    BY <2>2
<1>5. ConfigOf("timed") \in Seq(Setting) /\ ConfigOf("manual") \in Seq(Setting)
  BY <1>2 DEF Modes
<1> DEFINE Parameters == Rows \cup Setting
<1>6. all \in Seq(Parameters)
  <2>1. fromRows \in Seq(Parameters) /\ ConfigOf("timed") \in Seq(Parameters)
        /\ ConfigOf("manual") \in Seq(Parameters)
    BY <1>4, <1>5
  <2> QED
    BY <2>1
<1>7. \A p \in Parameters : p.path \in Paths /\ p.mode \in Modes /\ p.recursive \in BOOLEAN
  BY DEF Rows, Setting
<1> HIDE DEF Parameters, all
<1>8. \A i \in DOMAIN all : row(i) \in Nat
  <2>2. \A i \in DOMAIN all : i \in Nat /\ i >= 1
    BY <1>6
  <2>3. Len(fromRows) \in Nat
    BY <1>4
  <2>1. \A i \in 1 .. Len(fromRows) : fromRows[i].id \in Nat
    <3> HIDE DEF fromRows
    <3>1. \A i \in 1 .. Len(fromRows) : fromRows[i] \in Rows
      BY <1>4
    <3> QED
      BY <3>1 DEF Rows
  <2> HIDE DEF fromRows
  <2> QED
    BY <2>1, <2>2, <2>3 DEF NoRow
<1>9. ads' \in Seq(ADs) /\ DOMAIN ads' = DOMAIN all
  <2>1. ads' = [i \in DOMAIN all |-> AD(all[i], ~(i <= Len(fromRows)), i - 1, row(i), i)]
    BY <1>3 DEF all
  <2>2. \A i \in DOMAIN all : AD(all[i], ~(i <= Len(fromRows)), i - 1, row(i), i) \in ADs
    <3> SUFFICES ASSUME NEW i \in DOMAIN all
                 PROVE  AD(all[i], ~(i <= Len(fromRows)), i - 1, row(i), i) \in ADs
      OBVIOUS
    <3>1. i \in Nat /\ i - 1 \in Nat /\ all[i] \in Parameters
      BY <1>6
    <3>2. row(i) \in Nat
      BY <1>8
    <3> HIDE DEF row
    <3> QED
      BY <1>7, <3>1, <3>2 DEF AD, ADs
  <2> HIDE DEF row
  <2>3. DOMAIN all = 1 .. Len(all) /\ Len(all) \in Nat
    BY <1>6
  <2> QED
    BY <2>1, <2>2, <2>3
<1>10. list' \in Seq(DOMAIN ads') /\ nextIndex' \in Nat
  BY <1>3, <1>6, <1>9 DEF all
<1>11. subs' \subseteq Subs
  <2>1. \A i \in DOMAIN all : Sub(all[i].path, i - 1) \in Subs
    BY <1>6, <1>7 DEF Sub, Subs, NoDir
  <2> QED
    BY <1>3, <2>1 DEF all
<1>12. UNCHANGED <<rows, flags, worker, saved, requests>> /\ phase' = "up" /\ fired' = {}
       /\ starts' \in 0 .. MaxStarts
  BY DEF Start, TInv, TypeOK
<1>13. TypeOK'
  BY <1>9, <1>10, <1>11, <1>12 DEF TInv, TypeOK
<1>14. RefsInRange'
  <2>1. \A w \in Workers : worker'[w] = Free
    BY <1>12 DEF TInv, Start
  <2>2. Free.pc = "idle" /\ Free.orig = NoDir
    BY DEF Free
  <2> QED
    BY <2>1, <2>2 DEF RefsInRange, CopyPCs
<1>15. \A i \in DOMAIN list' : list'[i] = i /\ ads'[i].scanID = i - 1 /\ i - 1 < nextIndex'
  <2>1. list' = [i \in DOMAIN all |-> i] /\ nextIndex' = Len(all)
    BY <1>3 DEF all
  <2>2. \A i \in DOMAIN all : i - 1 < Len(all)
    BY <1>6
  <2>3. ads' = [i \in DOMAIN all |-> AD(all[i], ~(i <= Len(fromRows)), i - 1, row(i), i)]
    BY <1>3 DEF all
  <2>4. \A i \in DOMAIN all : ads'[i].scanID = i - 1
    BY <2>3 DEF AD
  <2> QED
    BY <2>1, <2>2, <2>4
<1> QED
  BY <1>12, <1>13, <1>14, <1>15 DEF TInv

\* A request keeps the type invariant at each of its steps.
LEMMA WebTInv ==
    ASSUME TInv, NEW w \in Workers, WebStep(w)
    PROVE  TInv'
<1> USE DEF TInv
<1> DEFINE d == worker[w].dir
           c == worker[w].copy
           o == worker[w].orig
<1>1. /\ ads \in Seq(ADs) /\ list \in Seq(DOMAIN ads) /\ nextIndex \in Nat
      /\ worker \in [Workers -> WorkerStates] /\ worker[w] \in WorkerStates
      /\ flags \subseteq Paths /\ rows \subseteq Rows /\ subs \subseteq Subs
  BY DEF TypeOK
<1>2. phase = "up"
  <2>1. CASE worker[w].pc # "idle"
    <3>1. Free.pc = "idle"
      BY DEF Free
    <3> QED
      BY <2>1, <3>1
  <2>2. CASE worker[w].pc = "idle"
    <3>1. \/ \E path \in Paths, via \in Via : RequestRemove(w, path, via)
          \/ \E s \in Setting, via \in Via : RequestSet(w, s, via)
      BY <2>2 DEF WebStep, Unlist, Unrow, Unflag, Unsubscribe, FindOriginal,
                  CheckOverlapping, AddFlag, InsertRow, ScanNew, Replace, DropOld, ScanCopy,
                  UpdateFlags, WriteRow
    <3> QED
      BY <3>1 DEF RequestRemove, RequestSet, Idle
  <2> QED
    BY <2>1, <2>2
<1>3. worker[w].pc # "idle" => d \in DOMAIN ads /\ ads[d] \in ADs
  BY <1>1 DEF RefsInRange
<1>4. worker[w].pc \in CopyPCs => c \in DOMAIN ads /\ ads[c] \in ADs
  BY <1>1 DEF RefsInRange
<1>5. ASSUME NEW ad \in ADs
      PROVE  /\ Append(ads, ad) \in Seq(ADs) /\ DOMAIN ads \subseteq DOMAIN Append(ads, ad)
             /\ Len(ads) + 1 \in DOMAIN Append(ads, ad) /\ Len(ads) + 1 \in Nat
  BY <1>1
<1>6. \A ref \in DOMAIN ads : ref \in Nat /\ ref # NoDir
  BY <1>1 DEF NoDir
<1>7. ASSUME DOMAIN ads \subseteq DOMAIN ads'
      PROVE  list \in Seq(DOMAIN ads')
  BY <1>1, <1>7
<1>8. ASSUME NEW path \in Paths, NEW via \in Via, RequestRemove(w, path, via)
      PROVE  TInv'
  <2>0. requests' \in 0 .. MaxRequests
    BY <1>8 DEF RequestRemove, Idle, TypeOK
  <2>1. CASE UNCHANGED <<worker, ads>>
    BY <1>8, <2>1 DEF RequestRemove, Idle, TypeOK, RefsInRange
  <2>2. CASE \E ref \in ListedAt(path) :
                /\ worker' = [worker EXCEPT ![w].pc = "unlist", ![w].dir = ref]
                /\ ads' = ads
    <3>1. PICK ref \in DOMAIN ads :
              /\ worker' = [worker EXCEPT ![w].pc = "unlist", ![w].dir = ref]
              /\ ads' = ads
      BY <2>2, ListedType
    <3>2. worker' \in [Workers -> WorkerStates]
      BY <1>1, <1>6, <3>1 DEF WorkerStates, PCs
    <3>3. RefsInRange'
      BY <1>1, <3>1 DEF RefsInRange, CopyPCs, WorkerStates, PCs
    <3>4. ads' \in Seq(ADs) /\ list \in Seq(DOMAIN ads')
      BY <1>1, <3>1
    <3> QED
      BY <1>2, <1>8, <2>0, <3>2, <3>3, <3>4 DEF RequestRemove, TypeOK
  <2>3. CASE \E r \in rows :
                /\ ads' = Append(ads, AD(r, FALSE, INVALID, r.id, Len(ads) + 1))
                /\ worker' = [worker EXCEPT ![w].pc = "unlist", ![w].dir = Len(ads) + 1]
    <3>1. PICK r \in rows :
                /\ ads' = Append(ads, AD(r, FALSE, INVALID, r.id, Len(ads) + 1))
                /\ worker' = [worker EXCEPT ![w].pc = "unlist", ![w].dir = Len(ads) + 1]
      BY <2>3
    <3>2. AD(r, FALSE, INVALID, r.id, Len(ads) + 1) \in ADs
      BY <1>1 DEF AD, ADs, Rows
    <3>3. ads' \in Seq(ADs) /\ DOMAIN ads \subseteq DOMAIN ads' /\ Len(ads) + 1 \in DOMAIN ads'
          /\ Len(ads) + 1 \in Nat
      BY <1>5, <3>1, <3>2
    <3>4. worker' \in [Workers -> WorkerStates]
      BY <1>1, <3>1, <3>3 DEF WorkerStates, PCs
    <3>5. RefsInRange'
      BY <1>1, <3>1, <3>3 DEF RefsInRange, CopyPCs, WorkerStates, PCs
    <3> QED
      BY <1>2, <1>7, <1>8, <3>3, <3>4, <3>5 DEF RequestRemove, Idle, TypeOK
  <2> QED
    BY <1>8, <2>1, <2>2, <2>3 DEF RequestRemove
<1>9. ASSUME NEW s \in Setting, NEW via \in Via, RequestSet(w, s, via)
      PROVE  TInv'
  <2>1. PICK scanID \in Nat \cup {INVALID} :
            ads' = Append(ads, AD(s, FALSE, scanID, NoRow, Len(ads) + 1))
    <3>1. \A ref \in DOMAIN ads : ads[ref] \in ADs
      BY <1>1
    <3>2. \A ref \in DOMAIN ads : ads[ref].scanID \in Nat \cup {INVALID}
      BY <3>1 DEF ADs
    <3> DEFINE known == IF via = "fs" THEN ListedAt(s.path) ELSE {}
    <3>3. PICK scanID \in IF known = {} THEN {INVALID} ELSE {ads[ref].scanID : ref \in known} :
              ads' = Append(ads, AD(s, FALSE, scanID, NoRow, Len(ads) + 1))
      BY <1>9 DEF RequestSet
    <3>4. known \subseteq DOMAIN ads
      BY ListedType
    <3> HIDE DEF known
    <3>5. scanID \in Nat \cup {INVALID}
      BY <3>2, <3>3, <3>4
    <3> QED
      BY <3>3, <3>5
  <2>2. AD(s, FALSE, scanID, NoRow, Len(ads) + 1) \in ADs
    BY <1>1 DEF AD, ADs, Setting, NoRow
  <2>3. ads' \in Seq(ADs) /\ DOMAIN ads \subseteq DOMAIN ads' /\ Len(ads) + 1 \in DOMAIN ads'
        /\ Len(ads) + 1 \in Nat
    BY <1>5, <2>1, <2>2
  <2>4. worker' = [worker EXCEPT ![w].pc = "find", ![w].dir = Len(ads) + 1]
    BY <1>9 DEF RequestSet
  <2>5. worker' \in [Workers -> WorkerStates]
    BY <1>1, <2>3, <2>4 DEF WorkerStates, PCs
  <2>6. RefsInRange'
    BY <1>1, <2>3, <2>4 DEF RefsInRange, CopyPCs, WorkerStates, PCs
  <2>7. requests' \in 0 .. MaxRequests
    BY <1>9 DEF RequestSet, Idle, TypeOK
  <2>8. UNCHANGED <<phase, list, nextIndex, subs, rows, flags, saved, fired, starts>>
    BY <1>9 DEF RequestSet
  <2>9. list \in Seq(DOMAIN ads')
    BY <1>7, <2>3
  <2> QED
    BY <1>2, <2>3, <2>5, <2>6, <2>7, <2>8, <2>9 DEF TypeOK
<1>10. ASSUME Unlist(w) PROVE TInv'
  <2>1. ads' \in Seq(ADs) /\ DOMAIN ads' = DOMAIN ads /\ list' \in Seq(DOMAIN ads')
    BY <1>3, <1>10, RemoveType DEF Unlist
  <2>2. RefsInRange' /\ worker' \in [Workers -> WorkerStates]
    BY <1>10, <2>1, GotoRefs DEF Unlist, PCs, CopyPCs
  <2> QED
    BY <1>2, <1>10, <2>1, <2>2 DEF Unlist, TypeOK, counts
<1>11. ASSUME Unrow(w) PROVE TInv'
  <2>1. PICK gone \in SUBSET rows :
            /\ rows' = rows \ gone
            /\ worker' = [worker EXCEPT ![w].pc = "unflag", ![w].flag = {r.path : r \in gone}]
    BY <1>11 DEF Unrow
  <2>2. {r.path : r \in gone} \in SUBSET Paths
    BY <1>1 DEF Rows
  <2>3. worker' \in [Workers -> WorkerStates]
    BY <1>1, <2>1, <2>2 DEF WorkerStates, PCs
  <2>4. ads' = ads /\ worker[w].pc = "unrow"
    BY <1>11 DEF Unrow, memory
  <2>5. RefsInRange'
    BY <1>1, <2>1, <2>4 DEF RefsInRange, CopyPCs, WorkerStates, PCs
  <2>6. IsFiniteSet(rows')
    BY <2>1, FS_Subset
  <2> QED
    BY <1>2, <1>11, <2>1, <2>3, <2>5, <2>6 DEF Unrow, TypeOK, memory, counts
<1>12. ASSUME Unflag(w) PROVE TInv'
  <2>1. RefsInRange' /\ worker' \in [Workers -> WorkerStates]
    BY <1>12, GotoRefs DEF Unflag, memory, PCs, CopyPCs
  <2> QED
    BY <1>2, <1>12, <2>1 DEF Unflag, TypeOK, memory, counts
<1>13. ASSUME Unsubscribe(w) PROVE TInv'
  <2>1. RefsInRange' /\ worker' \in [Workers -> WorkerStates]
    BY <1>13, FinishRefs DEF Unsubscribe
  <2>2. subs' \subseteq Subs
    BY <1>1, <1>13 DEF Unsubscribe, StillSubscribed
  <2> QED
    BY <1>2, <1>13, <2>1, <2>2 DEF Unsubscribe, TypeOK, counts
<1>14. ASSUME FindOriginal(w) PROVE TInv'
  <2>1. CASE Goto(w, "check") /\ ads' = ads
    <3>1. RefsInRange' /\ worker' \in [Workers -> WorkerStates]
      BY <1>14, <2>1, GotoRefs DEF FindOriginal, PCs, CopyPCs
    <3> QED
      BY <1>2, <1>14, <2>1, <3>1 DEF FindOriginal, TypeOK, counts
  <2>2. CASE \E ref \in ListedAt(ads[d].path) :
                /\ worker' = [worker EXCEPT ![w].pc = "check", ![w].orig = ref]
                /\ ads' = [ads EXCEPT ![d].row = ads[ref].row]
    <3>1. PICK ref \in DOMAIN ads :
                /\ worker' = [worker EXCEPT ![w].pc = "check", ![w].orig = ref]
                /\ ads' = [ads EXCEPT ![d].row = ads[ref].row]
      BY <2>2, ListedType
    <3>2. d \in DOMAIN ads /\ ads[ref].row \in Nat
      <4>1. d \in DOMAIN ads /\ ads[ref] \in ADs
        BY <1>1, <1>3, <1>14 DEF FindOriginal
      <4> QED
        BY <4>1 DEF ADs
    <3> HIDE DEF d
    <3>3. ads' \in Seq(ADs) /\ DOMAIN ads' = DOMAIN ads
      BY <1>1, <3>1, <3>2, PutType
    <3>4. worker' \in [Workers -> WorkerStates]
      BY <1>1, <1>6, <3>1 DEF WorkerStates, PCs
    <3>5. RefsInRange'
      BY <1>1, <1>14, <3>1, <3>3 DEF FindOriginal, RefsInRange, CopyPCs, WorkerStates, PCs
    <3> QED
      BY <1>2, <1>7, <1>14, <3>3, <3>4, <3>5 DEF FindOriginal, TypeOK, counts
  <2> QED
    BY <1>14, <2>1, <2>2 DEF FindOriginal
<1>15. ASSUME CheckOverlapping(w) PROVE TInv'
  <2>1. ads' = ads
    BY <1>15 DEF CheckOverlapping, memory
  <2>2. RefsInRange' /\ worker' \in [Workers -> WorkerStates]
    BY <1>15, <2>1, GotoRefs, FinishRefs DEF CheckOverlapping, PCs, CopyPCs
  <2> QED
    BY <1>2, <1>15, <2>2 DEF CheckOverlapping, TypeOK, memory, counts
<1>16. ASSUME AddFlag(w) PROVE TInv'
  <2>1. ads' = ads
    BY <1>16 DEF AddFlag, memory
  <2>2. RefsInRange' /\ worker' \in [Workers -> WorkerStates]
    BY <1>16, <2>1, GotoRefs, FinishRefs DEF AddFlag, PCs, CopyPCs
  <2>3. flags' \subseteq Paths
    BY <1>1, <1>3, <1>16 DEF AddFlag, ADs
  <2> QED
    BY <1>2, <1>16, <2>2, <2>3 DEF AddFlag, TypeOK, memory, counts
<1>17. ASSUME InsertRow(w) PROVE TInv'
  <2>1. CASE Finish(w) /\ UNCHANGED <<rows, ads>>
    <3>1. RefsInRange' /\ worker' \in [Workers -> WorkerStates]
      BY <1>17, <2>1, FinishRefs
    <3> QED
      BY <1>2, <1>17, <2>1, <3>1 DEF InsertRow, TypeOK, counts
  <2>2. CASE \E id \in 1 .. MaxRequests :
               /\ rows' = rows \cup {Row(id, ads[d])}
               /\ ads' = [ads EXCEPT ![d].row = id]
               /\ Goto(w, "scan")
    <3>0. 1 .. MaxRequests \subseteq Nat
      OBVIOUS
    <3>1. PICK id \in Nat :
               /\ rows' = rows \cup {Row(id, ads[d])}
               /\ ads' = [ads EXCEPT ![d].row = id]
               /\ Goto(w, "scan")
      BY <2>2, <3>0
    <3>2. d \in DOMAIN ads /\ ads[d] \in ADs
      BY <1>3, <1>17 DEF InsertRow
    <3>3. Row(id, ads[d]) \in Rows
      BY <3>2 DEF Row, Rows, ADs
    <3>4. rows' \subseteq Rows /\ IsFiniteSet(rows')
      BY <1>1, <3>1, <3>3, FS_AddElement
    <3>5. ads' \in Seq(ADs) /\ DOMAIN ads' = DOMAIN ads
      BY <1>1, <3>1, <3>2, PutType
    <3>6. RefsInRange' /\ worker' \in [Workers -> WorkerStates]
      BY <1>17, <3>1, <3>5, GotoRefs DEF InsertRow, PCs, CopyPCs
    <3> QED
      BY <1>2, <1>7, <1>17, <3>4, <3>5, <3>6 DEF InsertRow, TypeOK, counts
  <2> QED
    BY <1>17, <2>1, <2>2 DEF InsertRow
<1>18. ASSUME ScanNew(w) PROVE TInv'
  <2>1. /\ ads' \in Seq(ADs) /\ DOMAIN ads' = DOMAIN ads
        /\ list' \in Seq(DOMAIN ads') /\ nextIndex' \in Nat /\ fired' \subseteq Notices
    BY <1>3, <1>18, ScanDirType DEF ScanNew
  <2>2. RefsInRange' /\ worker' \in [Workers -> WorkerStates]
    BY <1>18, <2>1, FinishRefs DEF ScanNew
  <2> QED
    BY <1>2, <1>18, <2>1, <2>2 DEF ScanNew, TypeOK, counts
<1>19. ASSUME Replace(w) PROVE TInv'
  <2>1. o \in DOMAIN ads /\ ads[o] \in ADs /\ ads[d] \in ADs
    BY <1>1, <1>3, <1>19 DEF Replace, RefsInRange
  <2>2. [ads[o] EXCEPT !.recursive = ads[d].recursive] \in ADs
    BY <2>1 DEF ADs
  <2>3. ads' = Append(ads, [ads[o] EXCEPT !.recursive = ads[d].recursive])
        /\ worker' = [worker EXCEPT ![w].pc = "drop", ![w].copy = Len(ads) + 1]
        /\ worker[w].pc = "replace"
    BY <1>19 DEF Replace
  <2>4. ads' \in Seq(ADs) /\ DOMAIN ads \subseteq DOMAIN ads' /\ Len(ads) + 1 \in DOMAIN ads'
        /\ Len(ads) + 1 \in Nat
    BY <1>5, <2>2, <2>3
  <2>5. worker' \in [Workers -> WorkerStates]
    BY <1>1, <2>3, <2>4 DEF WorkerStates, PCs
  <2>6. RefsInRange'
    BY <1>1, <2>3, <2>4 DEF RefsInRange, CopyPCs, WorkerStates, PCs
  <2>7. subs' \subseteq Subs
    BY <1>1, <1>19 DEF Replace, StillSubscribed
  <2> QED
    BY <1>2, <1>7, <1>19, <2>4, <2>5, <2>6, <2>7 DEF Replace, TypeOK, counts
<1>20. ASSUME DropOld(w) PROVE TInv'
  <2>1. ads' \in Seq(ADs) /\ DOMAIN ads' = DOMAIN ads /\ list' \in Seq(DOMAIN ads')
    BY <1>1, <1>3, <1>20, RemoveType DEF DropOld
  <2>2. RefsInRange' /\ worker' \in [Workers -> WorkerStates]
    BY <1>4, <1>20, <2>1, GotoRefs DEF DropOld, PCs, CopyPCs
  <2> QED
    BY <1>2, <1>20, <2>1, <2>2 DEF DropOld, TypeOK, counts
<1>21. ASSUME ScanCopy(w) PROVE TInv'
  <2>1. /\ ads' \in Seq(ADs) /\ DOMAIN ads' = DOMAIN ads
        /\ list' \in Seq(DOMAIN ads') /\ nextIndex' \in Nat /\ fired' \subseteq Notices
    BY <1>4, <1>21, ScanDirType DEF ScanCopy, CopyPCs
  <2>2. RefsInRange' /\ worker' \in [Workers -> WorkerStates]
    BY <1>4, <1>21, <2>1, GotoRefs DEF ScanCopy, PCs, CopyPCs
  <2> QED
    BY <1>2, <1>21, <2>1, <2>2 DEF ScanCopy, TypeOK, counts
<1>22. ASSUME UpdateFlags(w) PROVE TInv'
  <2> DEFINE new == [ads[c] EXCEPT !.mode = ads[d].mode]
  <2>1. c \in DOMAIN ads /\ ads[c] \in ADs /\ ads[d] \in ADs
    BY <1>3, <1>4, <1>22 DEF UpdateFlags, CopyPCs
  <2>2. new \in ADs
    BY <2>1 DEF ADs
  <2>3. /\ ads' = [ads EXCEPT ![c] = new]
        /\ \/ Finish(w) /\ flags' = flags
           \/ Goto(w, "write") /\ flags' = NewFlags(new)
    BY <1>22 DEF UpdateFlags
  <2>4. ads' \in Seq(ADs) /\ DOMAIN ads' = DOMAIN ads
    <3> HIDE DEF new
    <3> QED
      BY <1>1, <2>1, <2>2, <2>3, PutType
  <2>5. RefsInRange' /\ worker' \in [Workers -> WorkerStates]
    BY <1>22, <2>1, <2>3, <2>4, GotoRefs, FinishRefs DEF UpdateFlags, PCs, CopyPCs
  <2>6. new.path \in Paths
    BY <2>2 DEF ADs
  <2>7. flags' \subseteq Paths
    <3> HIDE DEF new
    <3> QED
      BY <1>1, <2>3, <2>6 DEF NewFlags
  <2> QED
    BY <1>2, <1>7, <1>22, <2>4, <2>5, <2>7 DEF UpdateFlags, TypeOK, counts
<1>23. ASSUME WriteRow(w) PROVE TInv'
  <2>1. ads' = ads /\ ads[c] \in ADs
    BY <1>4, <1>23 DEF WriteRow, memory, CopyPCs
  <2>2. RefsInRange' /\ worker' \in [Workers -> WorkerStates]
    BY <1>23, <2>1, FinishRefs DEF WriteRow
  <2>3. rows' \subseteq Rows /\ IsFiniteSet(rows')
    BY <1>1, <1>23, <2>1, WrittenType DEF WriteRow
  <2> QED
    BY <1>2, <1>23, <2>2, <2>3 DEF WriteRow, TypeOK, memory, counts
<1> QED
  BY <1>8, <1>9, <1>10, <1>11, <1>12, <1>13, <1>14, <1>15, <1>16, <1>17, <1>18, <1>19,
     <1>20, <1>21, <1>22, <1>23 DEF WebStep

\* The timer, the end of the server and a crash keep the type invariant.
LEMMA SystemTInv ==
    ASSUME TInv, TimerNotify \/ Shutdown \/ SaveNext \/ Stop \/ Crash
    PROVE  TInv'
<1> USE DEF TInv
<1>1. /\ ads \in Seq(ADs) /\ list \in Seq(DOMAIN ads)
      /\ flags \subseteq Paths /\ rows \subseteq Rows /\ subs \subseteq Subs /\ saved \in Nat
  BY DEF TypeOK
<1>2. CASE TimerNotify
  <2>1. PICK s \in subs : fired' = {[due |-> s.path, scanned |-> Scanned(list, ads, s.id)]}
    BY <1>2 DEF TimerNotify
  <2>2. s.path \in Paths
    BY <1>1 DEF Subs
  <2>3. Scanned(list, ads, s.id) \in Paths \cup {"none"}
    <3>1. CASE s.id + 1 \in DOMAIN list
      <4>1. ads[list[s.id + 1]] \in ADs
        BY <1>1, <3>1
      <4> QED
        BY <3>1, <4>1 DEF Scanned, ADs
    <3> QED
      BY <3>1 DEF Scanned
  <2>4. fired' \subseteq Notices
    BY <2>1, <2>2, <2>3 DEF Notices
  <2>5. UNCHANGED <<phase, ads, list, nextIndex, subs, rows, flags, worker, saved, counts>>
    BY <1>2 DEF TimerNotify
  <2> QED
    BY <2>4, <2>5 DEF TypeOK, RefsInRange, counts
<1>3. CASE Shutdown
  <2>1. UNCHANGED <<memory, rows, flags, worker, counts>> /\ phase' = "closing" /\ saved' = 0
    BY <1>3 DEF Shutdown
  <2>2. \A w \in Workers : worker[w] = Free
    BY <1>3 DEF Shutdown, RefsInRange
  <2> QED
    BY <2>1, <2>2 DEF TypeOK, RefsInRange, memory, counts
<1>4. CASE SaveNext
  <2> DEFINE ad == ads[list[saved + 1]]
  <2>1. ad \in ADs
    <3>1. saved + 1 \in DOMAIN list
      BY <1>1, <1>4 DEF SaveNext
    <3> QED
      BY <1>1, <3>1
  <2>2. /\ UNCHANGED <<memory, worker, counts>> /\ phase = "closing"
        /\ \/ phase' = "aborted" /\ UNCHANGED <<rows, flags, saved>>
           \/ /\ flags' = NewFlags(ad) /\ rows' = WrittenRows(ad)
              /\ saved' = saved + 1 /\ phase' = phase
    BY <1>4 DEF SaveNext
  <2> HIDE DEF ad
  <2>3. rows' \subseteq Rows /\ IsFiniteSet(rows')
    BY <1>1, <2>1, <2>2, WrittenType
  <2>4. ad.path \in Paths
    BY <2>1 DEF ADs
  <2>5. flags' \subseteq Paths
    BY <1>1, <2>2, <2>4 DEF NewFlags
  <2>6. saved' \in Nat /\ phase' \in {"aborted", "closing"}
    BY <1>1, <2>2
  <2> QED
    BY <2>2, <2>3, <2>5, <2>6 DEF TypeOK, RefsInRange, memory, counts
<1>5. CASE Stop
  <2>1. UNCHANGED <<memory, rows, flags, worker, saved, counts>> /\ phase' = "down"
        /\ phase = "closing"
    BY <1>5 DEF Stop
  <2> QED
    BY <2>1 DEF TypeOK, RefsInRange, memory, counts
<1>6. CASE Crash
  <2>1. /\ UNCHANGED <<memory, rows, flags, saved, counts>> /\ phase' = "down"
        /\ worker' = [w \in Workers |-> Free]
    BY <1>6 DEF Crash
  <2>2. Free \in WorkerStates /\ Free.pc = "idle" /\ Free.orig = NoDir
    BY DEF Free, WorkerStates, PCs, NoDir
  <2>3. TypeOK'
    BY <2>1, <2>2 DEF TypeOK, memory, counts
  <2>4. RefsInRange'
    BY <2>1, <2>2 DEF RefsInRange, CopyPCs
  <2> QED
    BY <2>1, <2>3, <2>4 DEF memory
<1> QED
  BY <1>2, <1>3, <1>4, <1>5, <1>6

LEMMA StepTInv == TInv /\ [Next]_vars => TInv'
<1> SUFFICES ASSUME TInv, [Next]_vars PROVE TInv'
  OBVIOUS
<1>1. CASE UNCHANGED vars
  BY <1>1 DEF vars, TInv, TypeOK, RefsInRange
<1> QED
  BY <1>1, StartTInv, WebTInv, SystemTInv DEF Next

\* Every variable always holds a value of its kind, and every reference of the
\* watch list and of a request is to an existing AutoscanDirectory.
THEOREM TypeCorrect == Spec => []TypeOK
<1>1. TInv => TypeOK
  BY DEF TInv
<1> QED
  BY <1>1, InitTInv, StepTInv, PTL DEF Spec

-------------------------------------------------------------------------------
(* Distinct scan ids.                                                      *)

\* the object a request will add to the watch list; no other refers to it yet
NewPCs == {"find", "check", "addcheck", "insert", "scan"}
OwnedBy(w) == IF worker[w].pc \in NewPCs THEN {worker[w].dir}
              ELSE IF worker[w].pc \in {"drop", "rescan"} THEN {worker[w].copy}
              ELSE {}
OwnInv ==
    \A v, w \in Workers :
        /\ OwnedBy(w) \subseteq DOMAIN ads
        /\ \A i \in DOMAIN list : list[i] \notin OwnedBy(w)
        /\ v # w => OwnedBy(v) \cap OwnedBy(w) = {}

\* the entries of a list have distinct ids, all below the next index
IDs(a, l, n) ==
    \A i, j \in DOMAIN l :
        /\ a[l[i]].scanID # INVALID /\ a[l[i]].scanID < n
        /\ a[l[i]].scanID = a[l[j]].scanID => i = j

SInv == IDs(ads, list, nextIndex) /\ OwnInv

\* A list that keeps its entries, and their ids, keeps the ids distinct.
LEMMA SameIDs ==
    ASSUME TypeOK, IDs(ads, list, nextIndex), UNCHANGED <<list, nextIndex>>,
           \A ref \in DOMAIN ads : ads'[ref].scanID = ads[ref].scanID
    PROVE  IDs(ads', list', nextIndex')
<1>1. \A i \in DOMAIN list : list[i] \in DOMAIN ads
  BY DEF TypeOK
<1> QED
  BY <1>1 DEF IDs

\* EditHelper::_add gives the new entry an id no other entry has.
LEMMA AddIDs ==
    ASSUME TypeOK, IDs(ads, list, nextIndex), NEW d \in DOMAIN ads,
           \A i \in DOMAIN list : list[i] # d,
           NEW index \in Nat, index = ads[d].scanID \/ index = nextIndex,
           Add(ads, d, index)
    PROVE  /\ IDs(ads', list', nextIndex')
           /\ \A i \in DOMAIN list' : list'[i] = d \/ \E j \in DOMAIN list : list'[i] = list[j]
<1>1. /\ ads \in Seq(ADs) /\ list \in Seq(DOMAIN ads) /\ nextIndex \in Nat
      /\ \A i \in DOMAIN list : list[i] \in DOMAIN ads /\ ads[list[i]] \in ADs
  BY DEF TypeOK
<1>2. \A i \in DOMAIN list : ads[list[i]].scanID \in Nat \cup {INVALID}
  BY <1>1 DEF ADs
<1>3. CASE ads' = ads /\ UNCHANGED <<list, nextIndex>>
  BY <1>3
<1>4. CASE /\ ads' = [ads EXCEPT ![d].scanID = index]
           /\ list' = Append(list, d)
           /\ nextIndex' = IF index < nextIndex THEN nextIndex ELSE index + 1
           /\ \A i \in DOMAIN list : ads[list[i]].scanID # ads[d].scanID
  <2>1. ads'[d].scanID = index /\ \A i \in DOMAIN list : ads'[list[i]] = ads[list[i]]
    <3>1. ads[d] \in ADs
      BY <1>1
    <3> QED
      BY <1>1, <1>4, <3>1 DEF ADs
  <2>2. /\ DOMAIN list' = DOMAIN list \cup {Len(list) + 1}
        /\ Len(list) + 1 \notin DOMAIN list
        /\ list'[Len(list) + 1] = d /\ \A i \in DOMAIN list : list'[i] = list[i]
    BY <1>1, <1>4
  <2>3. index < nextIndex' /\ \A x \in Nat : x < nextIndex => x < nextIndex'
    BY <1>1, <1>4
  <2>4. \A i \in DOMAIN list : /\ ads[list[i]].scanID # INVALID /\ ads[list[i]].scanID < nextIndex
                              /\ ads[list[i]].scanID # index
    BY <1>1, <1>2, <1>4 DEF IDs, INVALID
  <2>5. index # INVALID
    BY DEF INVALID
  <2>6. \A i \in DOMAIN list : ads[list[i]].scanID \in Nat /\ ads[list[i]].scanID < nextIndex'
    BY <1>2, <2>3, <2>4
  <2>7. \A i, j \in DOMAIN list : ads[list[i]].scanID = ads[list[j]].scanID => i = j
    BY DEF IDs
  <2>8. IDs(ads', list', nextIndex')
    BY <2>1, <2>2, <2>3, <2>4, <2>5, <2>6, <2>7 DEF IDs
  <2> QED
    BY <2>2, <2>8
<1> QED
  BY <1>3, <1>4 DEF Add, IsListed

\* EditHelper::remove invalidates an object only when it takes it off the list.
LEMMA RemoveIDs ==
    ASSUME TypeOK, IDs(ads, list, nextIndex), NEW d \in DOMAIN ads, Remove(d)
    PROVE  /\ IDs(ads', list', nextIndex)
           /\ \A i \in DOMAIN list' : \E j \in DOMAIN list : list'[i] = list[j]
<1>1. ads \in Seq(ADs) /\ list \in Seq(DOMAIN ads) /\ nextIndex \in Nat
  BY DEF TypeOK
<1>2. CASE UNCHANGED <<list, ads>>
  BY <1>2
<1>3. CASE /\ \E k \in DOMAIN list : ads[list[k]].scanID = ads[d].scanID /\ list' = Without(list, k)
           /\ ads' = [ads EXCEPT ![d].scanID = INVALID]
  <2>1. PICK k \in DOMAIN list : ads[list[k]].scanID = ads[d].scanID /\ list' = Without(list, k)
    BY <1>3
  <2> DEFINE at(i) == IF i < k THEN i ELSE i + 1
  <2>2. /\ DOMAIN list' = 1 .. Len(list) - 1
        /\ \A i \in DOMAIN list' : /\ i \in Int /\ at(i) \in DOMAIN list /\ at(i) # k
                                   /\ list'[i] = list[at(i)]
    <3>1. Without(list, k) = [i \in 1 .. Len(list) - 1 |-> IF i < k THEN list[i] ELSE list[i + 1]]
      BY DEF Without
    <3>2. DOMAIN list = 1 .. Len(list) /\ Len(list) \in Nat
      BY <1>1
    <3> QED
      BY <2>1, <3>1, <3>2
  <2>3. \A i, j \in DOMAIN list' : at(i) = at(j) => i = j
    <3>1. k \in Int /\ \A i \in DOMAIN list' : i \in Int
      BY <1>1, <2>2
    <3> QED
      BY <3>1
  <2> HIDE DEF at
  <2>4. \A i \in DOMAIN list' : list'[i] # d
    BY <2>1, <2>2 DEF IDs
  <2>5. \A i \in DOMAIN list' : ads'[list'[i]] = ads[list[at(i)]]
    BY <1>1, <1>3, <2>2, <2>4
  <2>6. IDs(ads', list', nextIndex)
    BY <2>2, <2>3, <2>5 DEF IDs
  <2> QED
    BY <2>2, <2>6
<1> QED
  BY <1>2, <1>3 DEF Remove, IsFirst

\* A step of w leaves objects owned once: w may drop the one it owns, give it
\* to the list, or own a new one.
LEMMA OwnStep ==
    ASSUME TypeOK, OwnInv, NEW w \in Workers,
           \A v \in Workers \ {w} : worker'[v] = worker[v],
           DOMAIN ads \subseteq DOMAIN ads', OwnedBy(w)' \subseteq DOMAIN ads',
           \A ref \in OwnedBy(w)' : ref \in OwnedBy(w) \/ ref \notin DOMAIN ads,
           \A i \in DOMAIN list' : \/ list'[i] \in OwnedBy(w) \ OwnedBy(w)'
                                   \/ \E j \in DOMAIN list : list'[i] = list[j]
    PROVE  OwnInv'
<1>1. \A j \in DOMAIN list : list[j] \in DOMAIN ads
  BY DEF TypeOK
<1>2. \A v \in Workers \ {w} : OwnedBy(v)' = OwnedBy(v)
  BY DEF OwnedBy
<1>3. \A v \in Workers : OwnedBy(v) \subseteq DOMAIN ads
  BY DEF OwnInv
<1>4. \A i \in DOMAIN list' : list'[i] \notin OwnedBy(w)'
  BY <1>1 DEF OwnInv
<1>5. \A v \in Workers \ {w} : OwnedBy(v) \cap OwnedBy(w)' = {}
  BY <1>3 DEF OwnInv
<1>6. \A v \in Workers \ {w} : \A i \in DOMAIN list' : list'[i] \notin OwnedBy(v)
  BY DEF OwnInv
<1>7. \A u, v \in Workers : u # v => OwnedBy(u)' \cap OwnedBy(v)' = {}
  BY <1>2, <1>5 DEF OwnInv
<1>8. \A v \in Workers : OwnedBy(v)' \subseteq DOMAIN ads'
  BY <1>2, <1>3
<1>9. \A v \in Workers : \A i \in DOMAIN list' : list'[i] \notin OwnedBy(v)'
  BY <1>2, <1>4, <1>6
<1> QED
  BY <1>7, <1>8, <1>9 DEF OwnInv

LEMMA GotoOwned ==
    ASSUME TypeOK, NEW w \in Workers, NEW pc \in PCs, Goto(w, pc)
    PROVE  /\ \A v \in Workers \ {w} : worker'[v] = worker[v]
           /\ OwnedBy(w)' = IF pc \in NewPCs THEN {worker[w].dir}
                            ELSE IF pc \in {"drop", "rescan"} THEN {worker[w].copy} ELSE {}
<1>1. worker \in [Workers -> WorkerStates] /\ worker[w] \in WorkerStates
  BY DEF TypeOK
<1>2. /\ worker'[w].pc = pc /\ worker'[w].dir = worker[w].dir /\ worker'[w].copy = worker[w].copy
      /\ \A v \in Workers \ {w} : worker'[v] = worker[v]
  BY <1>1 DEF Goto, WorkerStates
<1> QED
  BY <1>2 DEF OwnedBy

LEMMA FinishOwned ==
    ASSUME TypeOK, NEW w \in Workers, Finish(w)
    PROVE  (\A v \in Workers \ {w} : worker'[v] = worker[v]) /\ OwnedBy(w)' = {}
<1>1. worker'[w] = Free /\ \A v \in Workers \ {w} : worker'[v] = worker[v]
  BY DEF TypeOK, Finish
<1>2. Free.pc = "idle"
  BY DEF Free
<1> QED
  BY <1>1, <1>2 DEF OwnedBy, NewPCs

\* A step that leaves the list and the ids alone.
LEMMA QuietStep ==
    ASSUME TypeOK, SInv, NEW w \in Workers, UNCHANGED <<list, nextIndex>>,
           \A v \in Workers \ {w} : worker'[v] = worker[v],
           DOMAIN ads \subseteq DOMAIN ads', OwnedBy(w)' \subseteq DOMAIN ads',
           \A ref \in OwnedBy(w)' : ref \in OwnedBy(w) \/ ref \notin DOMAIN ads,
           \A ref \in DOMAIN ads : ads'[ref].scanID = ads[ref].scanID
    PROVE  SInv'
BY SameIDs, OwnStep DEF SInv

\* Objects keep their ids when one is made or a field other than the id is set.
LEMMA KeepIDs ==
    ASSUME NEW a \in Seq(ADs)
    PROVE  /\ \A x \in ADs : /\ DOMAIN Append(a, x) = DOMAIN a \cup {Len(a) + 1}
                             /\ Len(a) + 1 \notin DOMAIN a
                             /\ \A ref \in DOMAIN a : Append(a, x)[ref] = a[ref]
           /\ \A d \in DOMAIN a : \A row \in Nat :
                 /\ DOMAIN [a EXCEPT ![d].row = row] = DOMAIN a
                 /\ \A ref \in DOMAIN a : [a EXCEPT ![d].row = row][ref].scanID = a[ref].scanID
<1>1. \A x \in ADs : /\ DOMAIN Append(a, x) = DOMAIN a \cup {Len(a) + 1}
                     /\ Len(a) + 1 \notin DOMAIN a
                     /\ \A ref \in DOMAIN a : Append(a, x)[ref] = a[ref]
  OBVIOUS
<1>2. ASSUME NEW d \in DOMAIN a, NEW row \in Nat
      PROVE  /\ DOMAIN [a EXCEPT ![d].row = row] = DOMAIN a
             /\ \A ref \in DOMAIN a : [a EXCEPT ![d].row = row][ref].scanID = a[ref].scanID
  <2>1. a[d] \in ADs
    OBVIOUS
  <2>2. [a[d] EXCEPT !.row = row].scanID = a[d].scanID
    BY <2>1 DEF ADs
  <2>3. [a EXCEPT ![d].row = row] = [a EXCEPT ![d] = [a[d] EXCEPT !.row = row]]
    OBVIOUS
  <2> QED
    BY <2>2, <2>3
<1> QED
  BY <1>1, <1>2

LEMMA WebSInv ==
    ASSUME TInv, SInv, NEW w \in Workers, WebStep(w)
    PROVE  SInv'
<1> USE DEF TInv
<1> DEFINE d == worker[w].dir
           c == worker[w].copy
<1>1. /\ ads \in Seq(ADs) /\ worker \in [Workers -> WorkerStates]
      /\ worker[w] \in WorkerStates /\ rows \subseteq Rows /\ nextIndex \in Nat
  BY DEF TypeOK
<1>2. worker[w].pc # "idle" => d \in DOMAIN ads /\ ads[d] \in ADs
  BY <1>1 DEF RefsInRange
<1>3. worker[w].pc \in CopyPCs => c \in DOMAIN ads /\ ads[c] \in ADs
  BY <1>1 DEF RefsInRange
<1>4. ASSUME ads' = ads, UNCHANGED <<list, nextIndex>>,
             \A v \in Workers \ {w} : worker'[v] = worker[v],
             OwnedBy(w)' \subseteq OwnedBy(w)
      PROVE  SInv'
  <2>1. OwnedBy(w) \subseteq DOMAIN ads
    BY DEF SInv, OwnInv
  <2> QED
    BY <1>4, <2>1, QuietStep
<1>5. ASSUME NEW x \in ADs, ads' = Append(ads, x), UNCHANGED <<list, nextIndex>>,
             \A v \in Workers \ {w} : worker'[v] = worker[v],
             OwnedBy(w)' \subseteq {Len(ads) + 1}
      PROVE  SInv'
  BY <1>1, <1>5, KeepIDs, QuietStep
<1>6. ASSUME NEW path \in Paths, NEW via \in Via, RequestRemove(w, path, via)
      PROVE  SInv'
  <2>1. (\A v \in Workers \ {w} : worker'[v] = worker[v]) /\ OwnedBy(w)' = {}
    <3>1. \/ worker' = worker
          \/ \E ref : worker' = [worker EXCEPT ![w].pc = "unlist", ![w].dir = ref]
      BY <1>6 DEF RequestRemove
    <3>2. worker[w].pc = "idle"
      BY <1>6 DEF RequestRemove, Idle
    <3>3. /\ \A v \in Workers \ {w} : worker'[v] = worker[v]
          /\ worker'[w].pc \in {"idle", "unlist"}
      BY <1>1, <3>1, <3>2 DEF WorkerStates
    <3> QED
      BY <3>3 DEF OwnedBy, NewPCs
  <2>2. \/ ads' = ads
        \/ \E r \in rows : ads' = Append(ads, AD(r, FALSE, INVALID, r.id, Len(ads) + 1))
    BY <1>6 DEF RequestRemove
  <2>3. \A r \in rows : AD(r, FALSE, INVALID, r.id, Len(ads) + 1) \in ADs
    BY <1>1 DEF AD, ADs, Rows
  <2>4. UNCHANGED <<list, nextIndex>>
    BY <1>6 DEF RequestRemove
  <2> QED
    BY <1>4, <1>5, <2>1, <2>2, <2>3, <2>4
<1>7. ASSUME NEW s \in Setting, NEW via \in Via, RequestSet(w, s, via)
      PROVE  SInv'
  <2>1. worker' = [worker EXCEPT ![w].pc = "find", ![w].dir = Len(ads) + 1]
        /\ UNCHANGED <<list, nextIndex>>
    BY <1>7 DEF RequestSet
  <2>2. Len(ads) + 1 \in Nat
    BY <1>1
  <2>3. (\A v \in Workers \ {w} : worker'[v] = worker[v]) /\ OwnedBy(w)' = {Len(ads) + 1}
    <3>1. worker'[w].pc = "find" /\ worker'[w].dir = Len(ads) + 1
          /\ \A v \in Workers \ {w} : worker'[v] = worker[v]
      BY <1>1, <2>1, <2>2 DEF WorkerStates
    <3> QED
      BY <3>1 DEF OwnedBy, NewPCs
  <2>4. \E x \in ADs : ads' = Append(ads, x)
    <3>1. \A ref \in DOMAIN ads : ads[ref] \in ADs
      BY <1>1
    <3>2. \A ref \in DOMAIN ads : ads[ref].scanID \in Nat \cup {INVALID}
      BY <3>1 DEF ADs
    <3> DEFINE known == IF via = "fs" THEN ListedAt(s.path) ELSE {}
    <3>3. PICK scanID \in IF known = {} THEN {INVALID} ELSE {ads[ref].scanID : ref \in known} :
              ads' = Append(ads, AD(s, FALSE, scanID, NoRow, Len(ads) + 1))
      BY <1>7 DEF RequestSet
    <3>4. known \subseteq DOMAIN ads
      BY ListedType
    <3> HIDE DEF known
    <3>5. scanID \in Nat \cup {INVALID}
      BY <3>2, <3>3, <3>4
    <3>6. AD(s, FALSE, scanID, NoRow, Len(ads) + 1) \in ADs
      BY <2>2, <3>5 DEF AD, ADs, Setting, NoRow
    <3> QED
      BY <3>3, <3>6
  <2> QED
    BY <1>5, <2>1, <2>3, <2>4
<1>8. ASSUME Unlist(w) \/ (DropOld(w) /\ ads[d].scanID # INVALID) PROVE SInv'
  <2>1. d \in DOMAIN ads /\ Remove(d) /\ nextIndex' = nextIndex
    BY <1>2, <1>8 DEF Unlist, DropOld
  <2>2. /\ IDs(ads', list', nextIndex')
        /\ \A i \in DOMAIN list' : \E j \in DOMAIN list : list'[i] = list[j]
    BY <2>1, RemoveIDs DEF SInv
  <2>3. DOMAIN ads' = DOMAIN ads
    BY <2>1, RemoveType
  <2>4. (\A v \in Workers \ {w} : worker'[v] = worker[v]) /\ OwnedBy(w)' \subseteq OwnedBy(w)
    BY <1>8, GotoOwned DEF Unlist, DropOld, PCs, NewPCs, OwnedBy
  <2>5. OwnedBy(w) \subseteq DOMAIN ads
    BY DEF SInv, OwnInv
  <2>6. OwnInv'
    BY <2>2, <2>3, <2>4, <2>5, OwnStep DEF SInv
  <2> QED
    BY <2>2, <2>6 DEF SInv
<1>9. ASSUME DropOld(w), ads[d].scanID = INVALID PROVE SInv'
  BY <1>4, <1>9, GotoOwned DEF DropOld, PCs, NewPCs, OwnedBy
<1>10. ASSUME Unrow(w) PROVE SInv'
  <2>1. /\ \A v \in Workers \ {w} : worker'[v] = worker[v]
        /\ worker'[w].pc = "unflag"
    BY <1>1, <1>10 DEF Unrow, WorkerStates
  <2>2. OwnedBy(w)' = {}
    BY <2>1 DEF OwnedBy, NewPCs
  <2> QED
    BY <1>4, <1>10, <2>1, <2>2 DEF Unrow, memory
<1>11. ASSUME Unflag(w) PROVE SInv'
  BY <1>4, <1>11, GotoOwned DEF Unflag, memory, PCs, NewPCs
<1>12. ASSUME Unsubscribe(w) PROVE SInv'
  BY <1>4, <1>12, FinishOwned DEF Unsubscribe
<1>13. ASSUME FindOriginal(w) PROVE SInv'
  <2>1. d \in DOMAIN ads /\ OwnedBy(w) = {d}
    BY <1>2, <1>13 DEF FindOriginal, OwnedBy, NewPCs
  <2>2. CASE Goto(w, "check") /\ ads' = ads
    BY <1>4, <1>13, <2>1, <2>2, GotoOwned DEF FindOriginal, PCs, NewPCs
  <2>3. CASE \E ref \in ListedAt(ads[d].path) :
                /\ worker' = [worker EXCEPT ![w].pc = "check", ![w].orig = ref]
                /\ ads' = [ads EXCEPT ![d].row = ads[ref].row]
    <3>1. PICK ref \in DOMAIN ads :
                /\ worker' = [worker EXCEPT ![w].pc = "check", ![w].orig = ref]
                /\ ads' = [ads EXCEPT ![d].row = ads[ref].row]
      BY <2>3, ListedType
    <3>2. ads[ref].row \in Nat
      <4>1. ads[ref] \in ADs
        BY <1>1
      <4> QED
        BY <4>1 DEF ADs
    <3>3. worker'[w].pc = "check" /\ worker'[w].dir = worker[w].dir
          /\ \A v \in Workers \ {w} : worker'[v] = worker[v]
      BY <1>1, <3>1 DEF WorkerStates
    <3>4. OwnedBy(w)' = {d}
      BY <3>3 DEF OwnedBy, NewPCs
    <3>5. UNCHANGED <<list, nextIndex>>
      BY <1>13 DEF FindOriginal
    <3> HIDE DEF d
    <3>6. /\ DOMAIN ads' = DOMAIN ads
          /\ \A e \in DOMAIN ads : ads'[e].scanID = ads[e].scanID
      BY <1>1, <2>1, <3>1, <3>2, KeepIDs
    <3> QED
      BY <2>1, <3>3, <3>4, <3>5, <3>6, QuietStep
  <2> QED
    BY <1>13, <2>2, <2>3 DEF FindOriginal
<1>14. ASSUME CheckOverlapping(w) PROVE SInv'
  <2>1. OwnedBy(w) = {d} /\ UNCHANGED memory
    BY <1>14 DEF CheckOverlapping, OwnedBy, NewPCs
  <2>2. Finish(w) \/ Goto(w, "addcheck") \/ Goto(w, "replace")
    BY <1>14 DEF CheckOverlapping
  <2> QED
    BY <1>4, <2>1, <2>2, GotoOwned, FinishOwned DEF memory, PCs, NewPCs
<1>15. ASSUME AddFlag(w) PROVE SInv'
  <2>1. OwnedBy(w) = {d} /\ UNCHANGED memory
    BY <1>15 DEF AddFlag, OwnedBy, NewPCs
  <2>2. Finish(w) \/ Goto(w, "insert")
    BY <1>15 DEF AddFlag
  <2> QED
    BY <1>4, <2>1, <2>2, GotoOwned, FinishOwned DEF memory, PCs, NewPCs
<1>16. ASSUME InsertRow(w) PROVE SInv'
  <2>1. d \in DOMAIN ads /\ OwnedBy(w) = {d} /\ UNCHANGED <<list, nextIndex>>
    BY <1>2, <1>16 DEF InsertRow, OwnedBy, NewPCs
  <2>2. CASE Finish(w) /\ ads' = ads
    BY <1>4, <2>1, <2>2, FinishOwned
  <2>3. CASE \E id \in 1 .. MaxRequests : ads' = [ads EXCEPT ![d].row = id] /\ Goto(w, "scan")
    <3>1. 1 .. MaxRequests \subseteq Nat
      OBVIOUS
    <3>2. PICK id \in Nat : ads' = [ads EXCEPT ![d].row = id] /\ Goto(w, "scan")
      BY <2>3, <3>1
    <3>3. (\A v \in Workers \ {w} : worker'[v] = worker[v]) /\ OwnedBy(w)' = {d}
      BY <3>2, GotoOwned DEF PCs, NewPCs
    <3> HIDE DEF d
    <3>4. /\ DOMAIN ads' = DOMAIN ads
          /\ \A e \in DOMAIN ads : ads'[e].scanID = ads[e].scanID
      BY <1>1, <2>1, <3>2, KeepIDs
    <3> QED
      BY <2>1, <3>3, <3>4, QuietStep
  <2> QED
    BY <1>16, <2>2, <2>3 DEF InsertRow
<1>17. ASSUME NEW ref \in DOMAIN ads, ScanDir(ref), OwnedBy(w) = {ref}, OwnedBy(w)' = {},
              \A v \in Workers \ {w} : worker'[v] = worker[v]
       PROVE  SInv'
  <2> DEFINE index == IF ads[ref].scanID = INVALID THEN FreshIndex ELSE ads[ref].scanID
  <2>1. Add(ads, ref, index)
    BY <1>17 DEF ScanDir
  <2>2. index \in Nat /\ (index = ads[ref].scanID \/ index = nextIndex)
    <3>1. ads[ref] \in ADs
      BY <1>1
    <3> QED
      BY <1>1, <3>1 DEF ADs, FreshIndex
  <2>3. \A i \in DOMAIN list : list[i] # ref
    BY <1>17 DEF SInv, OwnInv
  <2> HIDE DEF index
  <2>4. /\ IDs(ads', list', nextIndex')
        /\ \A i \in DOMAIN list' : list'[i] = ref \/ \E j \in DOMAIN list : list'[i] = list[j]
    BY <2>1, <2>2, <2>3, AddIDs DEF SInv
  <2>5. DOMAIN ads' = DOMAIN ads
    BY <1>17, ScanDirType
  <2>6. OwnInv'
    BY <1>17, <2>4, <2>5, OwnStep DEF SInv
  <2> QED
    BY <2>4, <2>6 DEF SInv
<1>18. ASSUME ScanNew(w) PROVE SInv'
  <2>1. d \in DOMAIN ads /\ OwnedBy(w) = {d}
    BY <1>2, <1>18 DEF ScanNew, OwnedBy, NewPCs
  <2> QED
    BY <1>17, <1>18, <2>1, FinishOwned DEF ScanNew
<1>19. ASSUME ScanCopy(w) PROVE SInv'
  <2>1. c \in DOMAIN ads /\ OwnedBy(w) = {c}
    BY <1>3, <1>19 DEF ScanCopy, OwnedBy, NewPCs, CopyPCs
  <2> QED
    BY <1>17, <1>19, <2>1, GotoOwned DEF ScanCopy, PCs, NewPCs
<1>20. ASSUME Replace(w) PROVE SInv'
  <2> DEFINE x == [ads[worker[w].orig] EXCEPT !.recursive = ads[d].recursive]
  <2>1. worker' = [worker EXCEPT ![w].pc = "drop", ![w].copy = Len(ads) + 1]
        /\ ads' = Append(ads, x) /\ UNCHANGED <<list, nextIndex>>
    BY <1>20 DEF Replace
  <2>2. x \in ADs
    <3>1. ads[worker[w].orig] \in ADs /\ ads[d] \in ADs
      BY <1>1, <1>2, <1>20 DEF Replace, RefsInRange
    <3> QED
      BY <3>1 DEF ADs
  <2>3. Len(ads) + 1 \in Nat
    BY <1>1
  <2>4. worker'[w].pc = "drop" /\ worker'[w].copy = Len(ads) + 1
        /\ \A v \in Workers \ {w} : worker'[v] = worker[v]
    BY <1>1, <2>1, <2>3 DEF WorkerStates
  <2>5. OwnedBy(w)' = {Len(ads) + 1}
    BY <2>4 DEF OwnedBy, NewPCs
  <2> HIDE DEF x
  <2> QED
    BY <1>5, <2>1, <2>2, <2>4, <2>5
<1>21. ASSUME UpdateFlags(w) PROVE SInv'
  <2> DEFINE new == [ads[c] EXCEPT !.mode = ads[d].mode]
  <2>1. c \in DOMAIN ads /\ ads[c] \in ADs /\ ads[d] \in ADs /\ OwnedBy(w) = {}
    BY <1>2, <1>3, <1>21 DEF UpdateFlags, OwnedBy, NewPCs, CopyPCs
  <2>2. new.scanID = ads[c].scanID
    BY <2>1 DEF ADs
  <2>3. ads' = [ads EXCEPT ![c] = new] /\ (Finish(w) \/ Goto(w, "write"))
        /\ UNCHANGED <<list, nextIndex>>
    BY <1>21 DEF UpdateFlags
  <2>4. (\A v \in Workers \ {w} : worker'[v] = worker[v]) /\ OwnedBy(w)' = {}
    BY <2>3, GotoOwned, FinishOwned DEF PCs, NewPCs
  <2> HIDE DEF new
  <2>5. DOMAIN ads' = DOMAIN ads /\ \A ref \in DOMAIN ads : ads'[ref].scanID = ads[ref].scanID
    BY <1>1, <2>1, <2>2, <2>3
  <2> QED
    BY <2>3, <2>4, <2>5, QuietStep
<1>22. ASSUME WriteRow(w) PROVE SInv'
  BY <1>4, <1>22, FinishOwned DEF WriteRow, memory
<1> QED
  BY <1>6, <1>7, <1>8, <1>9, <1>10, <1>11, <1>12, <1>13, <1>14, <1>15, <1>16, <1>18,
     <1>19, <1>20, <1>21, <1>22 DEF WebStep

LEMMA StepSInv == TInv /\ SInv /\ [Next]_vars => SInv'
<1> SUFFICES ASSUME TInv, SInv, [Next]_vars PROVE SInv'
  OBVIOUS
<1>0. UNCHANGED <<ads, list, nextIndex, worker>> => SInv'
  <2> SUFFICES ASSUME UNCHANGED <<ads, list, nextIndex, worker>> PROVE SInv'
    OBVIOUS
  <2>1. IDs(ads', list', nextIndex')
    BY DEF SInv
  <2>2. \A w \in Workers : OwnedBy(w)' = OwnedBy(w)
    BY DEF OwnedBy
  <2>3. OwnInv'
    BY <2>2 DEF SInv, OwnInv
  <2> QED
    BY <2>1, <2>3 DEF SInv
<1>1. CASE UNCHANGED vars
  BY <1>0, <1>1 DEF vars
<1>2. Free.pc = "idle"
  BY DEF Free
<1>3. CASE Start
  <2>1. \A w \in Workers : OwnedBy(w)' = {}
    BY <1>2, <1>3 DEF Start, TInv, OwnedBy, NewPCs
  <2>3. list' \in Seq(DOMAIN ads') /\ nextIndex' \in Nat
    BY StartTInv, <1>3 DEF TInv, TypeOK
  <2>4. DOMAIN list' \subseteq Nat \ {0} /\ ads' \in Seq(ADs)
    BY <2>3, StartTInv, <1>3 DEF TInv, TypeOK
  <2>5. \A i \in DOMAIN list' : list'[i] = i /\ ads'[i].scanID = i - 1 /\ i - 1 < nextIndex'
    BY StartTInv, <1>3
  <2>6. IDs(ads', list', nextIndex')
    BY <2>4, <2>5 DEF IDs, INVALID
  <2> QED
    BY <2>1, <2>6 DEF SInv, OwnInv
<1>4. CASE Crash
  <2>1. UNCHANGED memory /\ \A w \in Workers : worker'[w] = Free
    BY <1>4 DEF Crash
  <2>2. \A w \in Workers : OwnedBy(w)' = {}
    BY <1>2, <2>1 DEF OwnedBy, NewPCs
  <2> QED
    BY <2>1, <2>2 DEF SInv, IDs, OwnInv, memory
<1>5. CASE TimerNotify \/ Shutdown \/ SaveNext \/ Stop
  <2>1. UNCHANGED <<ads, list, nextIndex, worker>>
    BY <1>5 DEF TimerNotify, Shutdown, SaveNext, Stop, memory
  <2> QED
    BY <1>0, <2>1
<1> QED
  BY <1>1, <1>3, <1>4, <1>5, WebSInv DEF Next

LEMMA InitSInv == Init => SInv
<1> SUFFICES ASSUME Init PROVE SInv
  OBVIOUS
<1>1. \A w \in Workers : OwnedBy(w) = {}
  BY DEF Init, OwnedBy, NewPCs, Free
<1> QED
  BY <1>1 DEF Init, SInv, IDs, OwnInv

\* Entries of the watch list always have distinct, valid scan ids, with any
\* number of requests under way at once: EditHelper::remove takes off the entry
\* that was meant, and EditHelper::_add refuses only what is already listed.
THEOREM ScanIDs == Spec => []ScanIDsUnique
<1>1. SInv => ScanIDsUnique
  BY DEF SInv, IDs, ScanIDsUnique
<1> QED
  BY <1>1, InitTInv, InitSInv, StepTInv, StepSInv, PTL DEF Spec

-------------------------------------------------------------------------------
(* Rows that do not overlap, when requests come one after the other.       *)

\* what the check found still holds when the row is inserted or written; the
\* row that the check leaves out is none for a directory that gets a new one
CheckedInv ==
    \A w \in Workers :
        /\ worker[w].pc = "find" => worker[w].orig = NoDir
        /\ (worker[w].pc \in NewPCs \ {"scan"} /\ worker[w].orig = NoDir) => ads[worker[w].dir].row = NoRow
        /\ worker[w].pc \in {"addcheck", "insert"} => worker[w].orig = NoDir
        /\ worker[w].pc = "insert" => ~Overlaps(rows, ads[worker[w].dir], NoRow)
        /\ worker[w].pc = "write" =>
              ~Overlaps(rows, ads[worker[w].copy], ads[worker[w].copy].row)

OInv == NoOverlap /\ CheckedInv

\* A row that was checked can be added, or can replace the row left out.
LEMMA AddedApart ==
    ASSUME NoOverlap, NEW ad, NEW id, NEW rest \in SUBSET rows,
           \A r \in rest : ~Overlaps({r}, ad, NoRow), rows' = rest \cup {Row(id, ad)}
    PROVE  NoOverlap'
<1>1. \A r \in rest : /\ r.path # ad.path
                      /\ ~(ad.recursive /\ ad.path \in UpTo(r.path))
                      /\ ~(r.recursive /\ r.path \in UpTo(ad.path))
  BY DEF Overlaps
<1>2. Row(id, ad).path = ad.path /\ Row(id, ad).recursive = ad.recursive
  BY DEF Row
<1> QED
  BY <1>1, <1>2 DEF NoOverlap

LEMMA WrittenApart ==
    ASSUME NoOverlap, NEW ad, ~Overlaps(rows, ad, ad.row), rows' = WrittenRows(ad)
    PROVE  NoOverlap'
<1> DEFINE old == {r \in rows : r.id = ad.row}
<1>1. CASE old = {}
  <2>1. rows' = rows
    BY <1>1 DEF WrittenRows
  <2> QED
    BY <2>1 DEF NoOverlap
<1>2. CASE old # {}
  <2>1. rows' = (rows \ old) \cup {Row(ad.row, ad)}
    BY <1>2 DEF WrittenRows
  <2>2. \A r \in rows \ old : ~Overlaps({r}, ad, NoRow)
    BY DEF Overlaps
  <2> QED
    BY <2>1, <2>2, AddedApart
<1> QED
  BY <1>1, <1>2

LEMMA WebOInv ==
    ASSUME TInv, OInv, NEW w \in Workers, WebStep(w),
           \A v \in Workers \ {w} : worker'[v].pc = "idle"
    PROVE  OInv'
<1> USE DEF TInv
<1> DEFINE d == worker[w].dir
           c == worker[w].copy
<1>1. /\ ads \in Seq(ADs) /\ worker \in [Workers -> WorkerStates] /\ worker[w] \in WorkerStates
      /\ \A v \in Workers : v = w \/ worker'[v].pc = "idle"
  BY DEF TypeOK
<1>2. worker[w].pc # "idle" => d \in DOMAIN ads /\ ads[d] \in ADs
  BY <1>1 DEF RefsInRange
<1>3. worker[w].pc \in CopyPCs => c \in DOMAIN ads /\ ads[c] \in ADs
  BY <1>1 DEF RefsInRange
<1>4. ASSUME rows' = rows, worker'[w].pc \notin NewPCs \cup {"write"}
      PROVE  OInv'
  BY <1>1, <1>4 DEF OInv, NoOverlap, CheckedInv, NewPCs
<1>5. \A pc \in PCs : Goto(w, pc) =>
          /\ worker'[w].pc = pc /\ worker'[w].dir = worker[w].dir
          /\ worker'[w].orig = worker[w].orig /\ worker'[w].copy = worker[w].copy
  BY <1>1 DEF Goto, WorkerStates
<1>6. Finish(w) => worker'[w].pc = "idle"
  BY <1>1 DEF Finish, Free
<1>7. ASSUME NEW path \in Paths, NEW via \in Via, RequestRemove(w, path, via)
      PROVE  OInv'
  <2>1. \/ worker' = worker
        \/ \E ref : worker' = [worker EXCEPT ![w].pc = "unlist", ![w].dir = ref]
    BY <1>7 DEF RequestRemove
  <2>2. worker[w].pc = "idle" /\ rows' = rows
    BY <1>7 DEF RequestRemove, Idle
  <2>3. worker'[w].pc \in {"idle", "unlist"}
    BY <1>1, <2>1, <2>2 DEF WorkerStates
  <2> QED
    BY <1>4, <2>2, <2>3 DEF NewPCs
<1>8. ASSUME NEW s \in Setting, NEW via \in Via, RequestSet(w, s, via)
      PROVE  OInv'
  <2>1. worker' = [worker EXCEPT ![w].pc = "find", ![w].dir = Len(ads) + 1]
        /\ rows' = rows /\ worker[w].pc = "idle"
        /\ \E scanID : ads' = Append(ads, AD(s, FALSE, scanID, NoRow, Len(ads) + 1))
    BY <1>8 DEF RequestSet, Idle
  <2>2. Len(ads) + 1 \in Nat /\ worker[w].orig = NoDir
    BY <1>1, <2>1 DEF RefsInRange, Free
  <2>3. worker'[w].pc = "find" /\ worker'[w].dir = Len(ads) + 1 /\ worker'[w].orig = NoDir
    BY <1>1, <2>1, <2>2 DEF WorkerStates
  <2>4. ads'[Len(ads) + 1].row = NoRow
    BY <1>1, <2>1 DEF AD
  <2> QED
    BY <1>1, <2>1, <2>3, <2>4 DEF OInv, NoOverlap, CheckedInv, NewPCs
<1>9. ASSUME Unlist(w) \/ Unflag(w) \/ DropOld(w) \/ ScanCopy(w) PROVE OInv'
  <2>1. /\ rows' = rows
        /\ Goto(w, "unrow") \/ Goto(w, "unsubscribe") \/ Goto(w, "rescan") \/ Goto(w, "update")
    BY <1>9 DEF Unlist, Unflag, DropOld, ScanCopy
  <2> QED
    BY <1>4, <1>5, <2>1 DEF PCs, NewPCs
<1>10. ASSUME Unsubscribe(w) \/ ScanNew(w) PROVE OInv'
  <2>1. Finish(w) /\ rows' = rows
    BY <1>10 DEF Unsubscribe, ScanNew
  <2> QED
    BY <1>4, <1>6, <2>1 DEF NewPCs
<1>11. ASSUME Unrow(w) PROVE OInv'
  <2>1. worker'[w].pc = "unflag" /\ rows' \subseteq rows
    BY <1>1, <1>11 DEF Unrow, WorkerStates
  <2> QED
    BY <1>1, <2>1 DEF OInv, NoOverlap, CheckedInv, NewPCs
<1>12. ASSUME FindOriginal(w) PROVE OInv'
  <2>1. worker[w].pc = "find" /\ rows' = rows
    BY <1>12 DEF FindOriginal
  <2>2. CASE Goto(w, "check") /\ ads' = ads
    <3>1. /\ worker'[w].pc = "check" /\ worker'[w].dir = worker[w].dir
          /\ worker'[w].orig = worker[w].orig
      BY <1>5, <2>2 DEF PCs
    <3> QED
      BY <1>1, <2>1, <2>2, <3>1 DEF OInv, NoOverlap, CheckedInv, NewPCs
  <2>3. CASE \E ref \in ListedAt(ads[d].path) :
                worker' = [worker EXCEPT ![w].pc = "check", ![w].orig = ref]
    <3>1. PICK ref \in DOMAIN ads : worker' = [worker EXCEPT ![w].pc = "check", ![w].orig = ref]
      BY <2>3, ListedType
    <3>2. worker'[w].pc = "check" /\ worker'[w].orig = ref /\ ref # NoDir
      BY <1>1, <3>1 DEF WorkerStates, NoDir
    <3> QED
      BY <1>1, <2>1, <3>2 DEF OInv, NoOverlap, CheckedInv, NewPCs
  <2> QED
    BY <1>12, <2>2, <2>3 DEF FindOriginal
<1>13. ASSUME CheckOverlapping(w) PROVE OInv'
  <2>1. worker[w].pc = "check" /\ ads' = ads /\ rows' = rows
    BY <1>13 DEF CheckOverlapping, memory
  <2>2. \/ Finish(w) \/ Goto(w, "replace")
        \/ Goto(w, "addcheck") /\ worker[w].orig = NoDir
    BY <1>13 DEF CheckOverlapping
  <2>3. CASE Finish(w) \/ Goto(w, "replace")
    BY <1>4, <1>5, <1>6, <2>1, <2>3 DEF PCs, NewPCs
  <2>4. CASE Goto(w, "addcheck") /\ worker[w].orig = NoDir
    <3>1. /\ worker'[w].pc = "addcheck" /\ worker'[w].dir = worker[w].dir
          /\ worker'[w].orig = worker[w].orig
      BY <1>5, <2>4 DEF PCs
    <3> QED
      BY <1>1, <2>1, <2>4, <3>1 DEF OInv, NoOverlap, CheckedInv, NewPCs
  <2> QED
    BY <2>2, <2>3, <2>4
<1>14. ASSUME AddFlag(w) PROVE OInv'
  <2>1. worker[w].pc = "addcheck" /\ ads' = ads /\ rows' = rows
    BY <1>14 DEF AddFlag, memory
  <2>2. \/ Finish(w)
        \/ Goto(w, "insert") /\ ~Overlaps(rows, ads[d], ads[d].row)
    BY <1>14 DEF AddFlag
  <2>3. CASE Finish(w)
    BY <1>4, <1>6, <2>1, <2>3 DEF NewPCs
  <2>4. CASE Goto(w, "insert") /\ ~Overlaps(rows, ads[d], ads[d].row)
    <3>1. /\ worker'[w].pc = "insert" /\ worker'[w].dir = worker[w].dir
          /\ worker'[w].orig = worker[w].orig
      BY <1>5, <2>4 DEF PCs
    <3>2. worker[w].orig = NoDir /\ ads[d].row = NoRow
      BY <2>1 DEF OInv, CheckedInv, NewPCs
    <3>3. ~Overlaps(rows, ads[d], NoRow)
      BY <2>4, <3>2
    <3>4. ~Overlaps(rows', ads'[worker'[w].dir], NoRow)
      BY <2>1, <3>1, <3>3
    <3>5. ads'[worker'[w].dir].row = NoRow
      BY <2>1, <3>1, <3>2
    <3> QED
      BY <1>1, <2>1, <3>1, <3>2, <3>4, <3>5 DEF OInv, NoOverlap, CheckedInv, NewPCs
  <2> QED
    BY <2>2, <2>3, <2>4
<1>15. ASSUME InsertRow(w) PROVE OInv'
  <2>1. worker[w].pc = "insert" /\ ~Overlaps(rows, ads[d], NoRow)
    BY <1>15 DEF InsertRow, OInv, CheckedInv
  <2>2. CASE Finish(w) /\ rows' = rows
    BY <1>4, <1>6, <2>2 DEF NewPCs
  <2>3. CASE Goto(w, "scan") /\ \E id : rows' = rows \cup {Row(id, ads[d])}
    <3>1. \A r \in rows : ~Overlaps({r}, ads[d], NoRow)
      BY <2>1 DEF Overlaps
    <3>2. NoOverlap'
      BY <2>3, <3>1, AddedApart DEF OInv
    <3>3. worker'[w].pc = "scan"
      BY <1>5, <2>3 DEF PCs
    <3> QED
      BY <1>1, <3>2, <3>3 DEF OInv, CheckedInv, NewPCs
  <2> QED
    BY <1>15, <2>2, <2>3 DEF InsertRow
<1>16. ASSUME Replace(w) PROVE OInv'
  <2>1. worker' = [worker EXCEPT ![w].pc = "drop", ![w].copy = Len(ads) + 1] /\ rows' = rows
    BY <1>16 DEF Replace
  <2>2. worker'[w].pc = "drop"
    BY <1>1, <2>1 DEF WorkerStates
  <2> QED
    BY <1>4, <2>1, <2>2 DEF NewPCs
<1>17. ASSUME UpdateFlags(w) PROVE OInv'
  <2> DEFINE new == [ads[c] EXCEPT !.mode = ads[d].mode]
  <2>1. c \in DOMAIN ads /\ rows' = rows
    BY <1>3, <1>17 DEF UpdateFlags, CopyPCs
  <2>2. /\ ads' = [ads EXCEPT ![c] = new]
        /\ Finish(w) \/ (Goto(w, "write") /\ ~Overlaps(rows, new, new.row))
    BY <1>17 DEF UpdateFlags
  <2>3. CASE Finish(w)
    BY <1>4, <1>6, <2>1, <2>3 DEF NewPCs
  <2>4. CASE Goto(w, "write") /\ ~Overlaps(rows, new, new.row)
    <3> HIDE DEF new
    <3>1. worker'[w].pc = "write" /\ worker'[w].copy = c
      BY <1>5, <2>4 DEF PCs
    <3>2. ads'[worker'[w].copy] = new
      BY <2>1, <2>2, <3>1
    <3>3. ~Overlaps(rows', ads'[worker'[w].copy], ads'[worker'[w].copy].row)
      BY <2>1, <2>4, <3>2
    <3> QED
      BY <1>1, <2>1, <3>1, <3>3 DEF OInv, NoOverlap, CheckedInv, NewPCs
  <2> QED
    BY <2>2, <2>3, <2>4
<1>18. ASSUME WriteRow(w) PROVE OInv'
  <2>1. ~Overlaps(rows, ads[c], ads[c].row) /\ worker'[w].pc = "idle"
    BY <1>6, <1>18 DEF WriteRow, OInv, CheckedInv
  <2>2. rows' = rows \/ rows' = WrittenRows(ads[c])
    BY <1>18 DEF WriteRow
  <2>3. NoOverlap'
    <3>1. CASE rows' = rows
      BY <3>1 DEF OInv, NoOverlap
    <3>2. CASE rows' = WrittenRows(ads[c])
      BY <2>1, <3>2, WrittenApart DEF OInv
    <3> QED
      BY <2>2, <3>1, <3>2
  <2> QED
    BY <1>1, <2>1, <2>3 DEF OInv, CheckedInv, NewPCs
<1> QED
  BY <1>7, <1>8, <1>9, <1>10, <1>11, <1>12, <1>13, <1>14, <1>15, <1>16, <1>17, <1>18 DEF WebStep

\* A request moves its own worker only; one that ends at once changes nothing.
LEMMA WebFrame ==
    ASSUME TInv, NEW w \in Workers, WebStep(w)
    PROVE  /\ \A v \in Workers \ {w} : worker'[v] = worker[v]
           /\ worker[w].pc = "idle" /\ worker'[w].pc = "idle" =>
                 UNCHANGED <<phase, memory, rows, flags, worker, saved, starts>>
<1> DEFINE pc == worker[w].pc
<1>1. worker \in [Workers -> WorkerStates] /\ worker[w] \in WorkerStates
  BY DEF TInv, TypeOK
<1>2. ASSUME NEW path \in Paths, NEW via \in Via, RequestRemove(w, path, via)
      PROVE  /\ \A v \in Workers \ {w} : worker'[v] = worker[v]
             /\ worker'[w].pc = "idle" =>
                   UNCHANGED <<phase, memory, rows, flags, worker, saved, starts>>
  <2>1. CASE UNCHANGED <<worker, ads>>
    BY <1>2, <2>1 DEF RequestRemove, memory
  <2>2. CASE \E ref : worker' = [worker EXCEPT ![w].pc = "unlist", ![w].dir = ref]
    <3>1. worker'[w].pc = "unlist" /\ \A v \in Workers \ {w} : worker'[v] = worker[v]
      BY <1>1, <2>2 DEF WorkerStates
    <3> QED
      BY <3>1
  <2> QED
    BY <1>2, <2>1, <2>2 DEF RequestRemove
<1>3. ASSUME NEW s \in Setting, NEW via \in Via, RequestSet(w, s, via)
      PROVE  (\A v \in Workers \ {w} : worker'[v] = worker[v]) /\ worker'[w].pc = "find"
  <2>1. worker' = [worker EXCEPT ![w].pc = "find", ![w].dir = Len(ads) + 1]
    BY <1>3 DEF RequestSet
  <2> QED
    BY <1>1, <2>1 DEF WorkerStates
<1>4. ASSUME pc # "idle"
      PROVE  \A v \in Workers \ {w} : worker'[v] = worker[v]
  <2>1. ASSUME NEW x, worker' = [worker EXCEPT ![w] = x]
        PROVE  \A v \in Workers \ {w} : worker'[v] = worker[v]
    BY <1>1, <2>1
  <2>2. \E x : worker' = [worker EXCEPT ![w] = x]
    BY <1>4, <1>1 DEF WebStep, RequestRemove, RequestSet, Idle, Unlist, Unrow, Unflag,
          Unsubscribe, FindOriginal, CheckOverlapping, AddFlag, InsertRow, ScanNew, Replace,
          DropOld, ScanCopy, UpdateFlags, WriteRow, Goto, Finish
  <2> QED
    BY <2>1, <2>2
<1>5. pc = "idle" => \/ \E path \in Paths, via \in Via : RequestRemove(w, path, via)
                     \/ \E s \in Setting, via \in Via : RequestSet(w, s, via)
  BY DEF WebStep, Unlist, Unrow, Unflag, Unsubscribe, FindOriginal, CheckOverlapping, AddFlag,
         InsertRow, ScanNew, Replace, DropOld, ScanCopy, UpdateFlags, WriteRow
<1> QED
  BY <1>2, <1>3, <1>4, <1>5

\* Requests come one after the other.
OneAtATime ==
    \A v, w \in Workers : v = w \/ worker[v].pc = "idle" \/ worker[w].pc = "idle"

\* The step of a request when they do: it is the one under way, or ends at once.
LEMMA WebAlone ==
    ASSUME TInv, NEW w \in Workers, WebStep(w), OneAtATime, OneAtATime'
    PROVE  \/ \A v \in Workers \ {w} : worker[v].pc = "idle" /\ worker'[v].pc = "idle"
           \/ UNCHANGED <<phase, memory, rows, flags, worker, saved, starts>>
BY WebFrame DEF OneAtATime

LEMMA StepOInv ==
    ASSUME OneAtATime, OneAtATime'
    PROVE  TInv /\ OInv /\ [Next]_vars => OInv'
<1> SUFFICES ASSUME TInv, OInv, [Next]_vars PROVE OInv'
  OBVIOUS
<1>1. ASSUME \A w \in Workers : worker'[w] = Free, NoOverlap'
      PROVE  OInv'
  BY <1>1 DEF OInv, CheckedInv, Free, NewPCs
<1>2. CASE UNCHANGED vars
  BY <1>2 DEF vars, OInv, NoOverlap, CheckedInv
<1>3. CASE Start \/ Crash
  <2>1. rows' = rows /\ \A w \in Workers : worker'[w] = Free
    BY <1>3 DEF Start, Crash, TInv
  <2> QED
    BY <1>1, <2>1 DEF OInv, NoOverlap
<1>4. CASE TimerNotify \/ Shutdown \/ Stop
  <2>1. UNCHANGED <<ads, rows, worker>>
    BY <1>4 DEF TimerNotify, Shutdown, Stop, memory
  <2> QED
    BY <2>1 DEF OInv, NoOverlap, CheckedInv
<1>5. CASE SaveNext
  <2> DEFINE ad == ads[list[saved + 1]]
  <2>1. \/ rows' = rows
        \/ ~Overlaps(rows, ad, ad.row) /\ rows' = WrittenRows(ad)
    BY <1>5 DEF SaveNext
  <2>2. \A w \in Workers : worker'[w] = Free
    BY <1>5 DEF SaveNext, TInv
  <2> HIDE DEF ad
  <2>3. NoOverlap'
    <3>1. CASE rows' = rows
      BY <3>1 DEF OInv, NoOverlap
    <3>2. CASE ~Overlaps(rows, ad, ad.row) /\ rows' = WrittenRows(ad)
      BY <3>2, WrittenApart DEF OInv
    <3> QED
      BY <2>1, <3>1, <3>2
  <2> QED
    BY <1>1, <2>2, <2>3
<1>6. CASE \E w \in Workers : WebStep(w)
  <2>1. PICK w \in Workers : WebStep(w)
    BY <1>6
  <2>2. CASE UNCHANGED <<phase, memory, rows, flags, worker, saved, starts>>
    BY <2>2 DEF memory, OInv, NoOverlap, CheckedInv
  <2> QED
    BY <2>1, <2>2, WebAlone, WebOInv
<1> QED
  BY <1>2, <1>3, <1>4, <1>5, <1>6 DEF Next

LEMMA InitOInv == Init => OInv
<1> SUFFICES ASSUME Init PROVE OInv
  OBVIOUS
<1>1. rows = {} /\ \A w \in Workers : worker[w].pc = "idle"
  BY DEF Init, Free
<1> QED
  BY <1>1 DEF OInv, NoOverlap, CheckedInv, NewPCs

\* When requests come one after the other, no recursive autoscan of the database
\* ever covers another and no container has two, through any requests, restarts
\* and crashes: the check of _checkOverlappingAutoscans is not stale when the
\* row is inserted or written.  With two under way it may be.
THEOREM OneRequestNoOverlap == Spec /\ []OneAtATime => []NoOverlap
<1>1. OInv => NoOverlap
  BY DEF OInv
<1>2. TInv /\ OInv /\ OneAtATime /\ OneAtATime' /\ [Next]_vars => OInv'
  BY StepOInv
<1> QED
  BY <1>1, <1>2, InitOInv, InitTInv, StepTInv, PTL DEF Spec

-------------------------------------------------------------------------------
(* A restart finds what the watch list had, when requests come one after   *)
(* the other and none has named a watched directory by the id of its       *)
(* container.  In between the calls of a request the list and the table    *)
(* differ by the row the request is about, and by nothing else.  A         *)
(* directory of the configuration is on the list and has no row.           *)

\* every row has a key of its own, and the flag of its container
KeysInv ==
    /\ \A r, q \in rows : r.id = q.id => r = q
    /\ \A r \in rows : r.id # NoRow
Flagged == misled = "no" => RowFlagged
RowsInv == KeysInv /\ Flagged

Listed == {list[i] : i \in DOMAIN list}
Kept == {ref \in Listed : ~ads[ref].persistent}
RowOf(ref) == Row(ads[ref].row, ads[ref])
Entries == {RowOf(ref) : ref \in Kept}
OneEntryEach == \A x, y \in Kept : ads[x].row = ads[y].row => x = y
Rowless == \A ref \in DOMAIN ads : ads[ref].persistent => ads[ref].row = NoRow

\* the row the list does not have, and the one it has instead
TheRow(ref) == IF ads[ref].persistent THEN {} ELSE {RowOf(ref)}
Stale(w) ==
    IF worker[w].pc \in {"unrow", "scan"} THEN TheRow(worker[w].dir)
    ELSE IF worker[w].pc \in {"rescan", "update", "write"} THEN TheRow(worker[w].orig)
    ELSE {}
Fresh(w) == IF worker[w].pc \in {"update", "write"} THEN TheRow(worker[w].copy) ELSE {}
Mirrors(stale, fresh) == stale \subseteq rows /\ Entries = (rows \ stale) \cup fresh

\* what a request that removes a directory relies on
Removes(w) ==
    /\ worker[w].pc = "unlist" => worker[w].dir \in Listed
    /\ worker[w].pc = "unflag" => \A r \in rows : r.path \notin worker[w].flag

\* what a request that finds no directory on the list relies on
Unknown(d) == ads[d].scanID = INVALID
Adds(w) ==
    /\ worker[w].pc = "find" =>
          \E path \in Paths :
             /\ path = ads[worker[w].dir].path
             /\ \/ \E e \in ListedAt(path) : ads[e].scanID = ads[worker[w].dir].scanID
                \/ Unknown(worker[w].dir) /\ \A e \in Listed : ads[e].path # path
    /\ worker[w].pc \in NewPCs => ~ads[worker[w].dir].persistent
    /\ (worker[w].pc \in NewPCs \ {"find"} /\ worker[w].orig = NoDir) => Unknown(worker[w].dir)
    /\ worker[w].pc = "scan" => worker[w].orig = NoDir
    /\ worker[w].pc = "insert" => ads[worker[w].dir].path \in flags

\* what a request that changes a directory of the list relies on
Alike(d, o) == ads[d].path = ads[o].path /\ ads[d].row = ads[o].row
ChangePCs == {"replace", "drop", "rescan", "update"}
Changes(w) ==
    /\ (worker[w].pc \in {"check", "replace", "drop"} /\ worker[w].orig # NoDir) =>
          worker[w].orig \in Listed /\ ads[worker[w].dir].scanID = ads[worker[w].orig].scanID
    /\ (worker[w].pc \in ChangePCs \cup {"check"} /\ worker[w].orig # NoDir) =>
          Alike(worker[w].dir, worker[w].orig)
    /\ worker[w].pc \in ChangePCs \cup {"write"} => worker[w].orig # NoDir
    /\ worker[w].pc \in ChangePCs => ~Overlaps(rows, ads[worker[w].dir], ads[worker[w].dir].row)
    /\ worker[w].pc \in CopyPCs =>
          /\ Alike(worker[w].copy, worker[w].orig)
          /\ ads[worker[w].copy].persistent = ads[worker[w].orig].persistent
          /\ worker[w].copy \notin {worker[w].dir, worker[w].orig}
    /\ worker[w].pc \in CopyPCs \ {"write"} =>
          ads[worker[w].copy].recursive = ads[worker[w].dir].recursive
    /\ worker[w].pc = "drop" => ads[worker[w].copy].scanID = ads[worker[w].orig].scanID
    /\ worker[w].pc = "rescan" =>
          /\ ads[worker[w].copy].scanID # INVALID
          /\ \A e \in Listed : ads[e].scanID # ads[worker[w].copy].scanID
    /\ worker[w].pc \in {"update", "write"} => worker[w].copy \in Listed

Holds(w) == Removes(w) /\ Adds(w) /\ Changes(w)

KInv ==
    /\ RowsInv /\ Rowless
    /\ \A w \in Workers : Holds(w)
    /\ phase \in {"up", "closing"} =>
          /\ OneEntryEach
          /\ AllIdle => Entries = rows
          /\ \A w \in Workers : worker[w].pc # "idle" => Mirrors(Stale(w), Fresh(w))

\* a request that misleads is not forgotten
Remembers == misled' = "no" => misled = "no"

\* The invariant, when only the request of w may be under way.
At(w) == RowsInv /\ Rowless /\ Holds(w) /\ OneEntryEach /\ Mirrors(Stale(w), Fresh(w))

LEMMA IdleHolds == ASSUME NEW w \in Workers, worker[w].pc = "idle"
                   PROVE  Holds(w) /\ Stale(w) = {} /\ Fresh(w) = {}
BY DEF Holds, Removes, Adds, Changes, ChangePCs, CopyPCs, NewPCs, Stale, Fresh

LEMMA IdleMirrors == Entries = rows <=> Mirrors({}, {})
BY DEF Mirrors

LEMMA FocusAt ==
    ASSUME TInv, KInv, phase = "up", NEW w \in Workers, \A v \in Workers \ {w} : worker[v].pc = "idle"
    PROVE  At(w)
<1>1. CASE worker[w].pc = "idle"
  BY <1>1, IdleHolds, IdleMirrors DEF KInv, At, AllIdle
<1>2. CASE worker[w].pc # "idle"
  BY <1>2 DEF KInv, At
<1> QED
  BY <1>1, <1>2

\* The same after a step.  (A lemma about w cannot be used with primes.)
LEMMA AtFocus ==
    ASSUME NEW w \in Workers, \A v \in Workers \ {w} : worker'[v].pc = "idle", At(w)'
    PROVE  KInv'
<1>1. ASSUME NEW v \in Workers, worker'[v].pc = "idle"
      PROVE  Holds(v)' /\ Stale(v)' = {} /\ Fresh(v)' = {}
  BY <1>1 DEF Holds, Removes, Adds, Changes, ChangePCs, CopyPCs, NewPCs, Stale, Fresh
<1>2. \A v \in Workers : Holds(v)'
  BY <1>1 DEF At
<1>3. AllIdle' => Entries' = rows'
  BY <1>1 DEF AllIdle, At, Mirrors
<1>4. \A v \in Workers : worker'[v].pc # "idle" => Mirrors(Stale(v), Fresh(v))'
  BY DEF At
<1> QED
  BY <1>2, <1>3, <1>4 DEF KInv, At

\* The watch list as a set: one entry comes, or one goes.
LEMMA AddListed ==
    ASSUME TypeOK, NEW d \in DOMAIN ads, NEW index \in Nat, Add(ads, d, index),
           \A e \in Listed : ads[e].scanID # ads[d].scanID
    PROVE  Listed' = Listed \cup {d} /\ ads' = [ads EXCEPT ![d].scanID = index]
<1>1. \A i \in DOMAIN list : ads[list[i]].scanID # ads[d].scanID
  BY DEF Listed
<1>2. list' = Append(list, d) /\ ads' = [ads EXCEPT ![d].scanID = index]
  BY <1>1 DEF Add, IsListed
<1>3. /\ DOMAIN list' = DOMAIN list \cup {Len(list) + 1}
      /\ list'[Len(list) + 1] = d /\ \A i \in DOMAIN list : list'[i] = list[i]
  BY <1>2, SMTT(30) DEF TypeOK
<1> QED
  BY <1>2, <1>3 DEF Listed

LEMMA RemoveListed ==
    ASSUME TypeOK, IDs(ads, list, nextIndex), NEW d \in DOMAIN ads, Remove(d),
           NEW e \in Listed, ads[e].scanID = ads[d].scanID
    PROVE  Listed' = Listed \ {e} /\ ads' = [ads EXCEPT ![d].scanID = INVALID]
<1>1. PICK i \in DOMAIN list : list[i] = e
  BY DEF Listed
<1>2. /\ \E k \in DOMAIN list : ads[list[k]].scanID = ads[d].scanID /\ list' = Without(list, k)
      /\ ads' = [ads EXCEPT ![d].scanID = INVALID]
  BY <1>1 DEF Remove, IsListed, IsFirst
<1>3. list' = Without(list, i)
  BY <1>1, <1>2 DEF IDs
<1>4. list \in Seq(DOMAIN ads) /\ i \in 1 .. Len(list) /\ Len(list) \in Nat
  BY <1>1 DEF TypeOK
<1>5. /\ DOMAIN list' = 1 .. Len(list) - 1
      /\ \A j \in 1 .. Len(list) - 1 : list'[j] = IF j < i THEN list[j] ELSE list[j + 1]
  BY <1>3 DEF Without
<1>6. \A j \in 1 .. Len(list) : list[j] = e => j = i
  BY <1>1, <1>4 DEF IDs
<1>7. ASSUME NEW j \in DOMAIN list' PROVE list'[j] \in Listed \ {e}
  <2>1. CASE j < i
    BY <1>4, <1>5, <1>6, <1>7, <2>1 DEF Listed
  <2>2. CASE ~(j < i)
    <3>1. list'[j] = list[j + 1] /\ j + 1 \in 1 .. Len(list) /\ j + 1 # i
      BY <1>4, <1>5, <1>7, <2>2
    <3> QED
      BY <1>4, <1>6, <3>1 DEF Listed
  <2> QED
    BY <2>1, <2>2
<1>8. ASSUME NEW j \in 1 .. Len(list), j # i PROVE \E k \in DOMAIN list' : list'[k] = list[j]
  <2>1. CASE j < i
    BY <1>4, <1>5, <2>1
  <2>2. CASE j > i
    <3>1. j - 1 \in DOMAIN list' /\ ~(j - 1 < i) /\ (j - 1) + 1 = j
      BY <1>4, <1>5, <2>2
    <3> QED
      BY <1>5, <3>1
  <2> QED
    BY <1>4, <1>8, <2>1, <2>2
<1>9. Listed' = {list'[j] : j \in DOMAIN list'} /\ Listed = {list[j] : j \in 1 .. Len(list)}
  BY <1>4 DEF Listed
<1>10. Listed' \subseteq Listed \ {e}
  BY <1>7, <1>9
<1>11. Listed \ {e} \subseteq Listed'
  BY <1>1, <1>8, <1>9
<1> QED
  BY <1>2, <1>10, <1>11

\* The first entry of a path is found whenever there is one.
LEMMA ListedAtFinds ==
    ASSUME TypeOK, NEW path, ListedAt(path) = {}
    PROVE  \A e \in Listed : ads[e].path # path
<1> DEFINE S == {j \in DOMAIN list : ads[list[j]].path = path}
<1>1. S \subseteq Nat
  BY DEF TypeOK
<1>2. CASE S = {}
  BY <1>2 DEF Listed
<1>3. CASE S # {}
  <2>1. IsWellFoundedOn(OpToRel(<, Nat), Nat)
    BY NatLessThanWellFounded
  <2> HIDE DEF S
  <2>2. PICK k \in S : \A m \in S : ~ (<<m, k>> \in OpToRel(<, Nat))
    BY <1>1, <1>3, <2>1, WFMin
  <2>3. OpToRel(<, Nat) = {p \in Nat \X Nat : p[1] < p[2]}
    BY Zenon DEF OpToRel
  <2>4. \A m \in S : <<m, k>> \notin {p \in Nat \X Nat : p[1] < p[2]}
    BY <2>2, <2>3, Zenon
  <2>5. \A m \in S : ~(m < k)
    BY <1>1, <2>4
  <2>6. \A i \in 1 .. k - 1 : i \in DOMAIN list /\ i < k
    <3>1. DOMAIN list = 1 .. Len(list) /\ Len(list) \in Nat
      BY DEF TypeOK
    <3>2. k \in DOMAIN list
      BY <2>2 DEF S
    <3> QED
      BY <3>1, <3>2
  <2>7. list[k] \in ListedAt(path)
    BY <2>2, <2>5, <2>6 DEF S, ListedAt, IsFirst
  <2> QED
    BY <2>7
<1> QED
  BY <1>2, <1>3

LEMMA ListedAtListed ==
    ASSUME NEW path, NEW ref \in ListedAt(path)
    PROVE  ref \in Listed /\ ads[ref].path = path
BY DEF ListedAt, Listed, IsFirst

LEMMA ListedRefs == TypeOK => Listed \subseteq DOMAIN ads
BY DEF TypeOK, Listed

\* There is one first entry of a path, and it stays while the list does.
LEMMA FirstOnce ==
    ASSUME TypeOK, NEW path, NEW x \in ListedAt(path), NEW y \in ListedAt(path)
    PROVE  x = y
<1> DEFINE Has(e) == ads[e].path = path
<1>1. PICK j \in DOMAIN list : x = list[j] /\ Has(list[j]) /\ \A k \in 1 .. j - 1 : ~Has(list[k])
  BY DEF ListedAt, IsFirst
<1>2. PICK k \in DOMAIN list : y = list[k] /\ Has(list[k]) /\ \A m \in 1 .. k - 1 : ~Has(list[m])
  BY DEF ListedAt, IsFirst
<1> HIDE DEF Has
<1>3. DOMAIN list = 1 .. Len(list) /\ Len(list) \in Nat
  BY DEF TypeOK
<1>4. j \notin 1 .. k - 1 /\ k \notin 1 .. j - 1
  BY <1>1, <1>2
<1>5. j = k
  BY <1>3, <1>4
<1> QED
  BY <1>1, <1>2, <1>5

LEMMA ListedAtSame ==
    ASSUME TypeOK, list' = list, NEW path, \A e \in Listed : ads'[e].path = ads[e].path
    PROVE  ListedAt(path)' = ListedAt(path)
<1>1. \A k \in DOMAIN list : ads'[list[k]].path = ads[list[k]].path
  BY DEF Listed
<1>2. DOMAIN list = 1 .. Len(list) /\ Len(list) \in Nat
  BY DEF TypeOK
<1>3. \A j \in DOMAIN list : \A k \in 1 .. j - 1 : k \in DOMAIN list
  BY <1>2
<1> DEFINE First(j) == ads[list[j]].path = path /\ \A k \in 1 .. j - 1 : ads[list[k]].path # path
<1>4. \A j \in DOMAIN list : First(j)' <=> First(j)
  BY <1>1, <1>3
<1>5. ListedAt(path) = {list[k] : k \in {j \in DOMAIN list : First(j)}}
  BY DEF ListedAt, IsFirst
<1>6. ListedAt(path)' = {list[k] : k \in {j \in DOMAIN list : First(j)'}}
  BY DEF ListedAt, IsFirst
<1> HIDE DEF First
<1> QED
  BY <1>4, <1>5, <1>6

\* Steps that leave the list, its objects and the rows alone.
LEMMA QuietAt ==
    ASSUME NEW w \in Workers, At(w), Stale(w) = {}, Fresh(w) = {},
           list' = list, rows' = rows, \A e \in Listed : ads'[e] = ads[e],
           Flagged', Rowless', Holds(w)', Stale(w)' = {}, Fresh(w)' = {}
    PROVE  At(w)'
<1>1. Listed' = Listed
  BY DEF Listed
<1>2. Kept' = Kept /\ \A e \in Kept : RowOf(e)' = RowOf(e)
  BY <1>1 DEF RowOf, Kept
<1>3. Entries' = Entries
  BY <1>2 DEF Entries
<1>4. OneEntryEach'
  BY <1>2 DEF At, OneEntryEach, Kept
<1>5. RowsInv'
  BY DEF At, RowsInv, KeysInv
<1> QED
  BY <1>3, <1>4, <1>5 DEF At, Mirrors

\* A worker that goes on to another call, or ends its request.
LEMMA GoesTo ==
    ASSUME TypeOK, NEW w \in Workers, NEW pc \in PCs, Goto(w, pc)
    PROVE  /\ worker'[w].pc = pc /\ worker'[w].dir = worker[w].dir
           /\ worker'[w].orig = worker[w].orig /\ worker'[w].copy = worker[w].copy
           /\ worker'[w].flag = worker[w].flag
BY DEF TypeOK, Goto, WorkerStates

LEMMA Ends ==
    ASSUME TypeOK, NEW w \in Workers, Finish(w)
    PROVE  Holds(w)' /\ Stale(w)' = {} /\ Fresh(w)' = {}
<1>1. worker'[w].pc = "idle"
  BY DEF TypeOK, Finish, Free
<1> QED
  BY <1>1 DEF Holds, Removes, Adds, Changes, ChangePCs, CopyPCs, NewPCs, Stale, Fresh

\* A request to remove a directory of the watch list.
LEMMA RemoveAt ==
    ASSUME TInv, SInv, OInv, NEW w \in Workers, At(w), ~Misleads, Remembers,
           \/ \E path \in Paths, via \in Via : RequestRemove(w, path, via)
           \/ Unlist(w) \/ Unrow(w) \/ Unflag(w) \/ Unsubscribe(w)
    PROVE  At(w)'
<1> USE DEF TInv
<1> DEFINE d == worker[w].dir
<1>1. /\ ads \in Seq(ADs) /\ list \in Seq(DOMAIN ads) /\ rows \subseteq Rows
      /\ worker \in [Workers -> WorkerStates] /\ worker[w] \in WorkerStates
      /\ Listed \subseteq DOMAIN ads
  BY ListedRefs DEF TypeOK
<1>2. ASSUME NEW path \in Paths, NEW via \in Via, RequestRemove(w, path, via)
      PROVE  At(w)'
  <2>0. via # "fs" => \A r \in rows : r.path # path
    <3> SUFFICES ASSUME via # "fs", NEW r \in rows, r.path = path PROVE FALSE
      OBVIOUS
    <3>1. ListedAt(path) = {}
      BY <1>2 DEF Misleads
    <3>2. worker[w].pc = "idle"
      BY <1>2 DEF RequestRemove, Idle
    <3>3. Entries = rows
      BY <3>2, IdleHolds DEF At, Mirrors
    <3>4. PICK e \in Listed : RowOf(e) = r
      BY <3>3 DEF Entries, Kept
    <3>5. ads[e].path = path
      BY <3>4 DEF RowOf, Row
    <3> QED
      BY <3>1, <3>5, ListedAtFinds
  <2>1. worker[w].pc = "idle" /\ list' = list /\ rows' = rows /\ flags' = flags /\ ads' = ads
    BY <1>2, <2>0 DEF RequestRemove, Idle
  <2>2. Stale(w) = {} /\ Fresh(w) = {} /\ Holds(w)
    BY <2>1, IdleHolds
  <2>3. Flagged' /\ Rowless'
    BY <2>1 DEF At, RowsInv, KeysInv, Flagged, RowFlagged, Remembers, Rowless
  <2>4. CASE worker' = worker
    <3>1. worker'[w].pc = "idle"
      BY <2>1, <2>4
    <3>2. Stale(w)' = {} /\ Fresh(w)' = {} /\ Holds(w)'
      BY <3>1 DEF Holds, Removes, Adds, Changes, ChangePCs, CopyPCs, NewPCs, Stale, Fresh
    <3> QED
      BY <2>1, <2>2, <2>3, <3>2, QuietAt
  <2>5. CASE \E ref \in ListedAt(path) :
                worker' = [worker EXCEPT ![w].pc = "unlist", ![w].dir = ref]
    <3>1. PICK ref \in Listed : worker' = [worker EXCEPT ![w].pc = "unlist", ![w].dir = ref]
      BY <2>5, ListedAtListed
    <3>2. worker'[w].pc = "unlist" /\ worker'[w].dir = ref
      BY <1>1, <3>1 DEF WorkerStates
    <3>3. ref \in Listed'
      BY <2>1 DEF Listed
    <3>4. Stale(w)' = {} /\ Fresh(w)' = {} /\ Holds(w)'
      BY <3>2, <3>3 DEF Holds, Removes, Adds, Changes, ChangePCs, CopyPCs, NewPCs, Stale, Fresh
    <3> QED
      BY <2>1, <2>2, <2>3, <3>4, QuietAt
  <2>7. via = "fs" => worker' = worker \/ \E ref \in ListedAt(path) :
                worker' = [worker EXCEPT ![w].pc = "unlist", ![w].dir = ref]
    BY <1>2 DEF RequestRemove
  <2>8. via # "fs" => worker' = worker
    BY <1>2, <2>0 DEF RequestRemove
  <2> QED
    BY <2>4, <2>5, <2>7, <2>8
<1>3. CASE Unlist(w)
  <2>1. /\ worker[w].pc = "unlist" /\ Remove(d) /\ Goto(w, "unrow")
        /\ rows' = rows /\ flags' = flags /\ d \in Listed
    BY <1>3 DEF Unlist, At, Holds, Removes
  <2>2. /\ worker'[w].pc = "unrow" /\ worker'[w].dir = d
    BY <2>1, GoesTo DEF PCs
  <2>3. Listed' = Listed \ {d} /\ ads' = [ads EXCEPT ![d].scanID = INVALID]
    BY <1>1, <2>1, RemoveListed DEF SInv
  <2>4. \A ref \in DOMAIN ads : RowOf(ref)' = RowOf(ref) /\ ads'[ref].persistent = ads[ref].persistent
                                /\ ads'[ref].row = ads[ref].row
    <3>1. \A ref \in DOMAIN ads : ads[ref] \in ADs
      BY <1>1
    <3> QED
      BY <1>1, <2>3, <3>1 DEF RowOf, Row, ADs
  <2>5. Entries = rows
    BY <2>1 DEF At, Stale, Fresh, Mirrors
  <2>6. \A x, y \in Kept : RowOf(x) = RowOf(y) => x = y
    BY DEF At, OneEntryEach, RowOf, Row
  <2>7. Kept' = Kept \ {d} /\ Entries' = {RowOf(ref) : ref \in Kept \ {d}}
    <3>1. Kept' = Kept \ {d}
      BY <1>1, <2>3, <2>4 DEF Kept
    <3>2. \A ref \in Kept \ {d} : RowOf(ref)' = RowOf(ref)
      BY <1>1, <2>4 DEF Kept
    <3> QED
      BY <3>1, <3>2 DEF Entries
  <2>8. Entries' = rows \ TheRow(d) /\ TheRow(d) \subseteq rows
    <3>1. CASE ads[d].persistent
      <4>1. Kept \ {d} = Kept
        BY <3>1 DEF Kept
      <4> QED
        BY <2>5, <2>7, <3>1, <4>1 DEF Entries, TheRow
    <3>2. CASE ~ads[d].persistent
      <4>1. d \in Kept
        BY <2>1, <3>2 DEF Kept
      <4>2. RowOf(d) \in rows
        BY <2>5, <4>1 DEF Entries
      <4>3. {RowOf(ref) : ref \in Kept \ {d}} = Entries \ {RowOf(d)}
        BY <2>6, <4>1 DEF Entries
      <4> QED
        BY <2>5, <2>7, <3>2, <4>2, <4>3 DEF TheRow
    <3> QED
      BY <3>1, <3>2
  <2>9. Stale(w)' = TheRow(d) /\ Fresh(w)' = {}
    <3>1. TheRow(worker[w].dir)' = TheRow(d)
      BY <1>1, <2>1, <2>2, <2>4 DEF TheRow
    <3> QED
      BY <2>2, <3>1 DEF Stale, Fresh
  <2>10. Mirrors(Stale(w), Fresh(w))'
    BY <2>1, <2>8, <2>9 DEF Mirrors
  <2>11. OneEntryEach' /\ Rowless' /\ RowsInv'
    <3>1. OneEntryEach'
      BY <1>1, <2>4, <2>7 DEF At, OneEntryEach, Kept
    <3>2. DOMAIN ads' = DOMAIN ads
      BY <2>3
    <3>3. Rowless'
      BY <2>4, <3>2 DEF At, Rowless
    <3>4. RowsInv'
      BY <2>1 DEF At, RowsInv, KeysInv, Flagged, RowFlagged, Remembers
    <3> QED
      BY <3>1, <3>3, <3>4
  <2>12. Holds(w)'
    BY <2>2 DEF Holds, Removes, Adds, Changes, ChangePCs, CopyPCs, NewPCs
  <2> QED
    BY <2>10, <2>11, <2>12 DEF At
<1>4. CASE Unrow(w)
  <2> DEFINE gone == {r \in rows : r.id = ads[d].row}
  <2>1. /\ worker[w].pc = "unrow" /\ rows' = rows \ gone
        /\ worker' = [worker EXCEPT ![w].pc = "unflag", ![w].flag = {r.path : r \in gone}]
        /\ list' = list /\ ads' = ads /\ flags' = flags
    BY <1>4 DEF Unrow, memory
  <2>2. TheRow(d) \subseteq rows /\ Entries = rows \ TheRow(d)
    BY <2>1 DEF At, Stale, Fresh, Mirrors
  <2>3. RowOf(d).id = ads[d].row
    BY DEF RowOf, Row
  <2>4. gone = TheRow(d)
    <3>1. CASE ads[d].persistent
      <4>1. d \in DOMAIN ads
        BY <2>1 DEF RefsInRange
      <4>2. ads[d].row = NoRow
        BY <3>1, <4>1 DEF At, Rowless
      <4> QED
        BY <3>1, <4>2 DEF At, RowsInv, KeysInv, TheRow
    <3>2. CASE ~ads[d].persistent
      <4>1. TheRow(d) = {RowOf(d)} /\ RowOf(d) \in rows
        BY <2>2, <3>2 DEF TheRow
      <4> QED
        BY <2>3, <4>1 DEF At, RowsInv, KeysInv
    <3> QED
      BY <3>1, <3>2
  <2>5. worker'[w].pc = "unflag" /\ worker'[w].flag = {r.path : r \in gone}
    BY <1>1, <2>1 DEF WorkerStates
  <2> HIDE DEF gone
  <2>6. Entries' = rows'
    <3>1. Entries' = Entries
      BY <2>1 DEF Entries, RowOf, Kept, Listed
    <3> QED
      BY <2>1, <2>2, <2>4, <3>1
  <2>7. \A r \in rows' : r.path \notin {q.path : q \in gone}
    BY <2>1, <2>2, <2>4 DEF OInv, NoOverlap
  <2>8. Holds(w)' /\ Stale(w)' = {} /\ Fresh(w)' = {}
    BY <2>5, <2>7 DEF Holds, Removes, Adds, Changes, ChangePCs, CopyPCs, NewPCs, Stale, Fresh
  <2>9. RowsInv' /\ Rowless' /\ OneEntryEach'
    BY <2>1 DEF At, RowsInv, KeysInv, Flagged, RowFlagged, Remembers, Rowless, OneEntryEach, Kept, Listed
  <2>10. Mirrors({}, {})'
    BY <2>6 DEF Mirrors
  <2> QED
    BY <2>8, <2>9, <2>10 DEF At
<1>5. CASE Unflag(w)
  <2>1. /\ worker[w].pc = "unflag" /\ Goto(w, "unsubscribe") /\ flags' = flags \ worker[w].flag
        /\ list' = list /\ rows' = rows /\ ads' = ads
    BY <1>5 DEF Unflag, memory
  <2>2. Flagged'
    BY <2>1 DEF At, RowsInv, KeysInv, Flagged, RowFlagged, Remembers, Holds, Removes
  <2>3. worker'[w].pc = "unsubscribe"
    BY <2>1, GoesTo DEF PCs
  <2>4. Holds(w)' /\ Stale(w)' = {} /\ Fresh(w)' = {}
    BY <2>3 DEF Holds, Removes, Adds, Changes, ChangePCs, CopyPCs, NewPCs, Stale, Fresh
  <2>5. Stale(w) = {} /\ Fresh(w) = {} /\ Rowless'
    BY <2>1 DEF Stale, Fresh, At, Rowless
  <2> QED
    BY <2>1, <2>2, <2>4, <2>5, QuietAt
<1>6. CASE Unsubscribe(w)
  <2>1. /\ worker[w].pc = "unsubscribe" /\ Finish(w)
        /\ list' = list /\ rows' = rows /\ ads' = ads /\ flags' = flags
    BY <1>6 DEF Unsubscribe
  <2>2. Stale(w) = {} /\ Fresh(w) = {} /\ Rowless' /\ Flagged'
    BY <2>1 DEF Stale, Fresh, At, Rowless, RowsInv, KeysInv, Flagged, RowFlagged, Remembers
  <2> QED
    BY <2>1, <2>2, Ends, QuietAt
<1> QED
  BY <1>2, <1>3, <1>4, <1>5, <1>6

\* A request for a directory the watch list does not have.
LEMMA AddAt ==
    ASSUME TInv, SInv, OInv, NEW w \in Workers, At(w), ~Misleads, Remembers,
           \/ \E s \in Setting, via \in Via : RequestSet(w, s, via)
           \/ FindOriginal(w) \/ CheckOverlapping(w) \/ AddFlag(w) \/ InsertRow(w) \/ ScanNew(w)
    PROVE  At(w)'
<1> USE DEF TInv
<1> DEFINE d == worker[w].dir
<1>1. /\ ads \in Seq(ADs) /\ list \in Seq(DOMAIN ads) /\ rows \subseteq Rows
      /\ worker \in [Workers -> WorkerStates] /\ worker[w] \in WorkerStates
      /\ Listed \subseteq DOMAIN ads
  BY ListedRefs DEF TypeOK
<1>2. worker[w].pc \in NewPCs => d \in DOMAIN ads /\ ads[d] \in ADs /\ d \notin Listed
  <2>1. worker[w].pc \in NewPCs => d \in DOMAIN ads /\ ads[d] \in ADs
    BY <1>1 DEF RefsInRange, NewPCs
  <2>2. worker[w].pc \in NewPCs => d \notin Listed
    BY DEF SInv, OwnInv, OwnedBy, Listed
  <2> QED
    BY <2>1, <2>2
<1>3. ASSUME NEW s \in Setting, NEW via \in Via, RequestSet(w, s, via)
      PROVE  At(w)'
  <2> DEFINE new == Len(ads) + 1
  <2>1. /\ worker[w].pc = "idle" /\ list' = list /\ rows' = rows /\ flags' = flags
        /\ worker' = [worker EXCEPT ![w].pc = "find", ![w].dir = Len(ads) + 1]
    BY <1>3 DEF RequestSet, Idle
  <2>2. PICK scanID : /\ ads' = Append(ads, AD(s, FALSE, scanID, NoRow, Len(ads) + 1))
                      /\ \/ ListedAt(s.path) = {} /\ scanID = INVALID
                         \/ \E ref \in ListedAt(s.path) : scanID = ads[ref].scanID
    <3>1. s.path \in Paths
      BY DEF Setting
    <3>2. via # "fs" => ListedAt(s.path) = {}
      BY <1>3, <3>1 DEF Misleads
    <3> QED
      BY <1>3, <3>2 DEF RequestSet
  <2>3. Stale(w) = {} /\ Fresh(w) = {}
    BY <2>1, IdleHolds
  <2>4. worker'[w].pc = "find" /\ worker'[w].dir = new
    BY <1>1, <2>1 DEF WorkerStates
  <2>5. /\ ads'[new] = AD(s, FALSE, scanID, NoRow, new)
        /\ \A ref \in DOMAIN ads : ads'[ref] = ads[ref]
        /\ DOMAIN ads' = DOMAIN ads \cup {new}
    <3>1. scanID \in Nat \cup {INVALID}
      <4>1. CASE \E ref \in ListedAt(s.path) : scanID = ads[ref].scanID
        <5>1. PICK ref \in Listed : scanID = ads[ref].scanID
          BY <4>1, ListedAtListed
        <5>2. ads[ref] \in ADs
          BY <1>1
        <5> QED
          BY <5>1, <5>2 DEF ADs
      <4> QED
        BY <2>2, <4>1
    <3>2. PICK x : x = AD(s, FALSE, scanID, NoRow, new)
      OBVIOUS
    <3>3. x \in ADs
      BY <1>1, <3>1, <3>2 DEF AD, ADs, Setting, NoRow
    <3>4. ads' = Append(ads, x)
      BY <2>2, <3>2
    <3>5. /\ Append(ads, x)[new] = x
          /\ \A ref \in DOMAIN ads : Append(ads, x)[ref] = ads[ref]
          /\ DOMAIN Append(ads, x) = DOMAIN ads \cup {new}
      BY <1>1, <3>3
    <3> QED
      BY <3>2, <3>4, <3>5
  <2>6. ads'[new].path = s.path /\ ads'[new].scanID = scanID /\ ~ads'[new].persistent
    BY <2>5 DEF AD
  <2>7. Rowless' /\ Flagged'
    BY <2>1, <2>5, <2>6 DEF At, Rowless, RowsInv, KeysInv, Flagged, RowFlagged, Remembers
  <2>8. Listed' = Listed /\ \A e \in Listed : ads'[e] = ads[e]
    BY <1>1, <2>1, <2>5 DEF Listed
  <2> HIDE DEF new
  <2>9. \/ \E e \in ListedAt(s.path) : e \in Listed /\ ads[e].scanID = scanID
        \/ scanID = INVALID /\ \A e \in Listed : ads[e].path # s.path
    BY <2>2, ListedAtFinds, ListedAtListed
  <2>10. Adds(w)'
    <3>1. ListedAt(s.path)' = ListedAt(s.path)
      BY <1>1, <2>1, <2>8, ListedAtSame
    <3>2. s.path \in Paths
      BY DEF Setting
    <3>3. ads'[worker'[w].dir].path = s.path /\ ads'[worker'[w].dir].scanID = scanID
      BY <2>4, <2>6
    <3>4. \/ \E e \in ListedAt(s.path)' : ads'[e].scanID = ads'[worker'[w].dir].scanID
          \/ /\ Unknown(worker[w].dir)'
             /\ \A e \in Listed' : ads'[e].path # s.path
      BY <2>8, <2>9, <3>1, <3>3 DEF Unknown
    <3> QED
      BY <2>4, <2>6, <3>2, <3>3, <3>4 DEF Adds
  <2>11. Holds(w)' /\ Stale(w)' = {} /\ Fresh(w)' = {}
    BY <2>4, <2>10 DEF Holds, Removes, Changes, ChangePCs, CopyPCs, Stale, Fresh
  <2> QED
    BY <2>1, <2>3, <2>7, <2>8, <2>11, QuietAt
<1>4. CASE FindOriginal(w)
  <2>1. /\ worker[w].pc = "find" /\ worker[w].orig = NoDir /\ list' = list /\ rows' = rows
        /\ flags' = flags /\ Stale(w) = {} /\ Fresh(w) = {}
    BY <1>4 DEF FindOriginal, OInv, CheckedInv, Stale, Fresh
  <2>2. \/ \E e \in ListedAt(ads[d].path) : ads[e].scanID = ads[d].scanID
        \/ Unknown(d) /\ \A e \in Listed : ads[e].path # ads[d].path
    BY <2>1 DEF At, Holds, Adds
  <2>3. d \in DOMAIN ads /\ ads[d] \in ADs /\ d \notin Listed /\ ~ads[d].persistent
    BY <1>2, <2>1 DEF NewPCs, At, Holds, Adds
  <2>4. CASE ListedAt(ads[d].path) = {} /\ Goto(w, "check") /\ ads' = ads
    <3>1. Unknown(d)
      BY <2>2, <2>4
    <3>2. worker'[w].pc = "check" /\ worker'[w].dir = d /\ worker'[w].orig = NoDir
      BY <2>1, <2>4, GoesTo DEF PCs
    <3>3. Holds(w)' /\ Stale(w)' = {} /\ Fresh(w)' = {}
      BY <2>3, <2>4, <3>1, <3>2 DEF Holds, Removes, Adds, Unknown, Changes, ChangePCs, CopyPCs, NewPCs, Stale, Fresh
    <3>4. Rowless' /\ Flagged'
      BY <2>1, <2>4 DEF At, Rowless, RowsInv, KeysInv, Flagged, RowFlagged, Remembers
    <3> QED
      BY <2>1, <2>4, <3>3, <3>4, QuietAt
  <2>5. CASE \E ref \in ListedAt(ads[d].path) :
                /\ worker' = [worker EXCEPT ![w].pc = "check", ![w].orig = ref]
                /\ ads' = [ads EXCEPT ![d].row = ads[ref].row]
    <3>0. PICK ref \in ListedAt(ads[d].path) :
                /\ worker' = [worker EXCEPT ![w].pc = "check", ![w].orig = ref]
                /\ ads' = [ads EXCEPT ![d].row = ads[ref].row]
      BY <2>5
    <3>1. ref \in Listed /\ ads[ref].path = ads[d].path
      BY ListedAtListed
    <3>3. ads[ref].scanID = ads[d].scanID
      <4>1. PICK e \in ListedAt(ads[d].path) : ads[e].scanID = ads[d].scanID
        BY <2>2, <3>1
      <4>2. e = ref
        BY <3>0, <4>1, FirstOnce
      <4> QED
        BY <4>1, <4>2
    <3>4. /\ worker'[w].pc = "check" /\ worker'[w].dir = d /\ worker'[w].orig = ref
          /\ ref # NoDir /\ ref # d /\ ref \in DOMAIN ads
      BY <1>1, <2>3, <3>0, <3>1 DEF WorkerStates, NoDir
    <3>5. /\ \A e \in DOMAIN ads \ {d} : ads'[e] = ads[e]
          /\ DOMAIN ads' = DOMAIN ads
          /\ ads'[d].row = ads[ref].row /\ ads'[d].path = ads[d].path
          /\ ads'[d].scanID = ads[d].scanID /\ ads'[d].persistent = ads[d].persistent
      BY <1>1, <2>3, <3>0, <3>1 DEF ADs
    <3>6. Listed' = Listed /\ \A e \in Listed : ads'[e] = ads[e]
      BY <1>1, <2>1, <2>3, <3>5 DEF Listed
    <3>7. Changes(w)'
      BY <3>1, <3>3, <3>4, <3>5, <3>6 DEF Changes, Alike, ChangePCs, CopyPCs
    <3>8. Holds(w)' /\ Stale(w)' = {} /\ Fresh(w)' = {}
      BY <2>3, <3>4, <3>5, <3>7 DEF Holds, Removes, Adds, NewPCs, Stale, Fresh
    <3>9. Rowless' /\ Flagged'
      BY <2>1, <2>3, <3>5 DEF At, Rowless, RowsInv, KeysInv, Flagged, RowFlagged, Remembers
    <3> QED
      BY <2>1, <3>6, <3>8, <3>9, QuietAt
  <2> QED
    BY <1>4, <2>4, <2>5 DEF FindOriginal
<1>5. CASE CheckOverlapping(w)
  <2>1. /\ worker[w].pc = "check" /\ list' = list /\ rows' = rows /\ flags' = flags /\ ads' = ads
    BY <1>5 DEF CheckOverlapping, memory
  <2>2. Stale(w) = {} /\ Fresh(w) = {} /\ Flagged' /\ Rowless' /\ Listed' = Listed
    BY <2>1 DEF Stale, Fresh, At, RowsInv, KeysInv, Flagged, RowFlagged, Remembers, Rowless, Listed
  <2>6. ~ads[d].persistent
    BY <2>1 DEF At, Holds, Adds, NewPCs
  <2>3. CASE Finish(w)
    BY <2>1, <2>2, <2>3, Ends, QuietAt
  <2>4. CASE worker[w].orig = NoDir /\ Goto(w, "addcheck")
    <3>1. worker'[w].pc = "addcheck" /\ worker'[w].dir = d /\ worker'[w].orig = NoDir
      BY <2>4, GoesTo DEF PCs
    <3>2. Unknown(d)
      BY <2>1, <2>4 DEF At, Holds, Adds, NewPCs
    <3>3. Holds(w)' /\ Stale(w)' = {} /\ Fresh(w)' = {}
      BY <2>1, <2>6, <3>1, <3>2 DEF Holds, Removes, Adds, Unknown, Changes, ChangePCs, CopyPCs, NewPCs, Stale, Fresh
    <3> QED
      BY <2>1, <2>2, <3>3, QuietAt
  <2>5. CASE worker[w].orig # NoDir /\ Goto(w, "replace") /\ ~Overlaps(rows, ads[d], ads[d].row)
    <3>1. worker'[w].pc = "replace" /\ worker'[w].dir = d /\ worker'[w].orig = worker[w].orig
      BY <2>5, GoesTo DEF PCs
    <3>2. /\ worker[w].orig \in Listed /\ ads[d].scanID = ads[worker[w].orig].scanID
          /\ Alike(d, worker[w].orig)
      BY <2>1, <2>5 DEF At, Holds, Changes
    <3>3. ~Overlaps(rows', ads'[worker'[w].dir], ads'[worker'[w].dir].row)
      BY <2>1, <2>5, <3>1
    <3>4. Changes(w)'
      BY <2>1, <2>2, <2>5, <3>1, <3>2, <3>3 DEF Changes, Alike, ChangePCs, CopyPCs
    <3>5. Holds(w)' /\ Stale(w)' = {} /\ Fresh(w)' = {}
      BY <3>1, <3>4 DEF Holds, Removes, Adds, NewPCs, Stale, Fresh
    <3> QED
      BY <2>1, <2>2, <3>5, QuietAt
  <2> QED
    BY <1>5, <2>3, <2>4, <2>5 DEF CheckOverlapping
<1>6. CASE AddFlag(w)
  <2>1. /\ worker[w].pc = "addcheck" /\ worker[w].orig = NoDir /\ Unknown(d) /\ ~ads[d].persistent
        /\ list' = list /\ rows' = rows /\ ads' = ads
    BY <1>6 DEF AddFlag, memory, OInv, CheckedInv, At, Holds, Adds, NewPCs
  <2>2. Stale(w) = {} /\ Fresh(w) = {} /\ Rowless'
    BY <2>1 DEF Stale, Fresh, At, Rowless
  <2>3. CASE Finish(w) /\ flags' = flags
    <3>1. Flagged'
      BY <2>1, <2>3 DEF At, RowsInv, KeysInv, Flagged, RowFlagged, Remembers
    <3> QED
      BY <2>1, <2>2, <2>3, <3>1, Ends, QuietAt
  <2>4. CASE Goto(w, "insert") /\ flags' = flags \cup {ads[d].path}
    <3>1. worker'[w].pc = "insert" /\ worker'[w].dir = d /\ worker'[w].orig = NoDir
      BY <2>1, <2>4, GoesTo DEF PCs
    <3>2. Holds(w)' /\ Stale(w)' = {} /\ Fresh(w)' = {}
      BY <2>1, <2>4, <3>1 DEF Holds, Removes, Adds, Unknown, Changes, ChangePCs, CopyPCs, NewPCs, Stale, Fresh
    <3>3. Flagged'
      BY <2>1, <2>4 DEF At, RowsInv, KeysInv, Flagged, RowFlagged, Remembers
    <3> QED
      BY <2>1, <2>2, <3>2, <3>3, QuietAt
  <2> QED
    BY <1>6, <2>3, <2>4 DEF AddFlag
<1>7. CASE InsertRow(w)
  <2>1. /\ worker[w].pc = "insert" /\ worker[w].orig = NoDir /\ Unknown(d) /\ ads[d].path \in flags
        /\ ~ads[d].persistent /\ list' = list /\ flags' = flags /\ Listed' = Listed
    BY <1>7 DEF InsertRow, OInv, CheckedInv, At, Holds, Adds, NewPCs, Listed
  <2>2. Stale(w) = {} /\ Fresh(w) = {} /\ Entries = rows
    BY <2>1 DEF Stale, Fresh, At, Mirrors
  <2>3. CASE Finish(w) /\ UNCHANGED <<rows, ads>>
    <3>1. Flagged' /\ Rowless'
      BY <2>1, <2>3 DEF At, RowsInv, KeysInv, Flagged, RowFlagged, Remembers, Rowless
    <3> QED
      BY <2>1, <2>2, <2>3, <3>1, Ends, QuietAt
  <2>4. CASE \E id \in 1 .. MaxRequests :
                /\ IsNextRow(id)
                /\ rows' = rows \cup {Row(id, ads[d])}
                /\ ads' = [ads EXCEPT ![d].row = id]
                /\ Goto(w, "scan")
    <3>1. PICK id \in 1 .. MaxRequests : /\ IsNextRow(id)
                                         /\ rows' = rows \cup {Row(id, ads[d])}
                                         /\ ads' = [ads EXCEPT ![d].row = id]
                                         /\ Goto(w, "scan")
      BY <2>4
    <3>17. PICK new : new = Row(id, ads[d])
      OBVIOUS
    <3>2. worker'[w].pc = "scan" /\ worker'[w].dir = d /\ worker'[w].orig = NoDir
      BY <2>1, <3>1, GoesTo DEF PCs
    <3>3. d \in DOMAIN ads /\ ads[d] \in ADs /\ d \notin Listed
      BY <1>2, <2>1 DEF NewPCs
    <3>4. /\ \A e \in DOMAIN ads \ {d} : ads'[e] = ads[e]
          /\ DOMAIN ads' = DOMAIN ads
          /\ ads'[d].row = id /\ ads'[d].path = ads[d].path /\ ads'[d].mode = ads[d].mode
          /\ ads'[d].recursive = ads[d].recursive
          /\ ads'[d].scanID = ads[d].scanID /\ ads'[d].persistent = ads[d].persistent
      BY <1>1, <3>1, <3>3 DEF ADs
    <3>5. RowOf(d)' = new
      <4>1. RowOf(d)' = Row(ads'[d].row, ads'[d])
        BY <3>2 DEF RowOf
      <4> QED
        BY <3>17, <3>4, <4>1 DEF Row
    <3>6. new.id = id /\ new.path = ads[d].path /\ id # NoRow
      BY <1>1, <3>17 DEF Row, NoRow
    <3>7. \A r \in rows : r.id # id
      BY <1>1, <3>1 DEF IsNextRow, Rows
    <3>8. \A e \in Listed : ads'[e] = ads[e] /\ RowOf(e)' = RowOf(e)
      BY <1>1, <3>3, <3>4 DEF RowOf
    <3>18. Kept' = Kept /\ Kept \subseteq Listed
      BY <2>1, <3>8 DEF Kept
    <3>9. Entries' = rows
      BY <2>2, <3>8, <3>18 DEF Entries
    <3>10. rows' = rows \cup {new}
      BY <3>1, <3>17
    <3>11. RowsInv'
      <4>1. \A r, q \in rows' : r.id = q.id => r = q
        BY <3>6, <3>7, <3>10 DEF At, RowsInv, KeysInv
      <4>2. \A r \in rows' : r.id # NoRow /\ (misled' = "no" => r.path \in flags')
        BY <2>1, <3>6, <3>10 DEF At, RowsInv, KeysInv, Flagged, RowFlagged, Remembers
      <4> QED
        BY <4>1, <4>2 DEF RowsInv, KeysInv, Flagged, RowFlagged
    <3>12. Stale(w)' = {new} /\ Fresh(w)' = {}
      <4>1. TheRow(worker[w].dir)' = {new}
        BY <2>1, <3>2, <3>4, <3>5 DEF TheRow
      <4> QED
        BY <3>2, <4>1 DEF Stale, Fresh
    <3>13. Mirrors({new}, {})'
      BY <3>6, <3>7, <3>9, <3>10 DEF Mirrors
    <3>14. Mirrors(Stale(w), Fresh(w))'
      BY <3>12, <3>13
    <3>15. Adds(w)' /\ Removes(w)' /\ Changes(w)'
      BY <2>1, <3>2, <3>4 DEF Removes, Adds, Unknown, Changes, ChangePCs, CopyPCs, NewPCs
    <3>16. OneEntryEach' /\ Rowless'
      <4>1. OneEntryEach'
        BY <3>8, <3>18 DEF At, OneEntryEach
      <4>2. Rowless'
        BY <2>1, <3>4 DEF At, Rowless
      <4> QED
        BY <4>1, <4>2
    <3> QED
      BY <3>11, <3>14, <3>15, <3>16 DEF At, Holds
  <2> QED
    BY <1>7, <2>3, <2>4 DEF InsertRow
<1>8. CASE ScanNew(w)
  <2>1. /\ worker[w].pc = "scan" /\ Unknown(d) /\ ~ads[d].persistent /\ ScanDir(d) /\ Finish(w)
        /\ rows' = rows /\ flags' = flags
    BY <1>8 DEF ScanNew, At, Holds, Adds, NewPCs
  <2>2. RowOf(d) \in rows /\ Entries = rows \ {RowOf(d)}
    BY <2>1 DEF At, Stale, Fresh, Mirrors, TheRow
  <2>3. d \in DOMAIN ads /\ ads[d] \in ADs /\ d \notin Listed
    BY <1>2, <2>1 DEF NewPCs
  <2>4. Add(ads, d, FreshIndex) /\ FreshIndex \in Nat
    BY <2>1 DEF ScanDir, Unknown, FreshIndex, TypeOK
  <2>5. \A e \in Listed : ads[e].scanID # ads[d].scanID
    BY <2>1 DEF SInv, IDs, Listed, Unknown
  <2>6. Listed' = Listed \cup {d} /\ ads' = [ads EXCEPT ![d].scanID = FreshIndex]
    BY <2>3, <2>4, <2>5, AddListed
  <2>7. /\ DOMAIN ads' = DOMAIN ads
        /\ \A ref \in DOMAIN ads : RowOf(ref)' = RowOf(ref) /\ ads'[ref].row = ads[ref].row
                                   /\ ads'[ref].persistent = ads[ref].persistent
    <3>1. \A ref \in DOMAIN ads : ads[ref] \in ADs
      BY <1>1
    <3> QED
      BY <2>6, <3>1 DEF RowOf, Row, ADs
  <2>13. Kept' = Kept \cup {d} /\ Kept \subseteq DOMAIN ads
    BY <1>1, <2>1, <2>3, <2>6, <2>7 DEF Kept
  <2>8. Entries' = Entries \cup {RowOf(d)}
    <3>1. \A ref \in Kept \cup {d} : RowOf(ref)' = RowOf(ref)
      BY <1>1, <2>3, <2>7 DEF Kept
    <3> QED
      BY <2>13, <3>1 DEF Entries
  <2>9. \A e \in Kept : ads[e].row # ads[d].row
    <3>1. \A e \in Kept : RowOf(e) \in rows /\ RowOf(e) # RowOf(d)
      BY <2>2 DEF Entries
    <3>2. \A e : RowOf(e).id = ads[e].row
      BY DEF RowOf, Row
    <3> QED
      BY <2>2, <3>1, <3>2 DEF At, RowsInv, KeysInv
  <2>10. OneEntryEach' /\ Rowless' /\ RowsInv'
    <3>1. OneEntryEach'
      BY <2>3, <2>7, <2>9, <2>13 DEF At, OneEntryEach
    <3>2. Rowless' /\ RowsInv'
      BY <2>1, <2>7 DEF At, Rowless, RowsInv, KeysInv, Flagged, RowFlagged, Remembers
    <3> QED
      BY <3>1, <3>2
  <2>11. Entries' = rows'
    BY <2>1, <2>2, <2>8
  <2>12. Mirrors({}, {})'
    BY <2>11 DEF Mirrors
  <2> QED
    BY <2>1, <2>10, <2>12, Ends DEF At
<1> QED
  BY <1>3, <1>4, <1>5, <1>6, <1>7, <1>8

\* What the check looks at: the path, the setting and the row left out.
LEMMA OverlapsAlike ==
    ASSUME NEW x, NEW y, x.path = y.path, x.recursive = y.recursive, NEW row
    PROVE  Overlaps(rows, x, row) <=> Overlaps(rows, y, row)
BY DEF Overlaps

\* A request for a directory the watch list has.
LEMMA ChangeAt ==
    ASSUME TInv, SInv, OInv, NEW w \in Workers, At(w), Remembers,
           Replace(w) \/ DropOld(w) \/ ScanCopy(w) \/ UpdateFlags(w) \/ WriteRow(w)
    PROVE  At(w)'
<1> USE DEF TInv
<1> DEFINE d == worker[w].dir
           o == worker[w].orig
           c == worker[w].copy
<1>1. /\ ads \in Seq(ADs) /\ list \in Seq(DOMAIN ads) /\ rows \subseteq Rows
      /\ worker \in [Workers -> WorkerStates] /\ worker[w] \in WorkerStates
      /\ Listed \subseteq DOMAIN ads
      /\ \A ref \in DOMAIN ads : ads[ref] \in ADs
  BY ListedRefs DEF TypeOK
<1>2. /\ worker[w].pc # "idle" => d \in DOMAIN ads
      /\ o # NoDir => o \in DOMAIN ads
      /\ worker[w].pc \in CopyPCs => c \in DOMAIN ads
      /\ worker[w].pc \in {"drop", "rescan"} => c \notin Listed
  <2>1. worker[w].pc \in {"drop", "rescan"} => c \notin Listed
    BY DEF SInv, OwnInv, OwnedBy, NewPCs, Listed
  <2> QED
    BY <2>1 DEF RefsInRange
<1>3. CASE Replace(w)
  <2> DEFINE new == Len(ads) + 1
  <2>1. /\ worker[w].pc = "replace" /\ list' = list /\ rows' = rows /\ flags' = flags
        /\ worker' = [worker EXCEPT ![w].pc = "drop", ![w].copy = Len(ads) + 1]
        /\ ads' = Append(ads, [ads[o] EXCEPT !.recursive = ads[d].recursive])
    BY <1>3 DEF Replace
  <2>2. /\ o # NoDir /\ o \in Listed /\ ads[d].scanID = ads[o].scanID /\ Alike(d, o)
        /\ ~Overlaps(rows, ads[d], ads[d].row)
        /\ d \in DOMAIN ads /\ o \in DOMAIN ads
    BY <1>2, <2>1 DEF At, Holds, Changes, ChangePCs
  <2>3. /\ worker'[w].pc = "drop" /\ worker'[w].copy = new
        /\ worker'[w].dir = d /\ worker'[w].orig = o
    BY <1>1, <2>1 DEF WorkerStates
  <2>4. PICK x : x = [ads[o] EXCEPT !.recursive = ads[d].recursive]
    OBVIOUS
  <2>5. /\ x \in ADs /\ x.path = ads[o].path /\ x.row = ads[o].row /\ x.scanID = ads[o].scanID
        /\ x.recursive = ads[d].recursive /\ x.persistent = ads[o].persistent
    <3>1. ads[o] \in ADs /\ ads[d] \in ADs
      BY <1>1, <2>2
    <3> QED
      BY <2>4, <3>1 DEF ADs
  <2>6. ads' = Append(ads, x)
    BY <2>1, <2>4
  <2>7. /\ ads'[new] = x /\ \A ref \in DOMAIN ads : ads'[ref] = ads[ref]
        /\ DOMAIN ads' = DOMAIN ads \cup {new} /\ new \notin DOMAIN ads
    BY <1>1, <2>5, <2>6
  <2> HIDE DEF new
  <2>8. Listed' = Listed /\ \A e \in Listed : ads'[e] = ads[e]
    BY <1>1, <2>1, <2>7 DEF Listed
  <2>9. Rowless' /\ Flagged'
    BY <2>1, <2>2, <2>5, <2>7 DEF At, Rowless, RowsInv, KeysInv, Flagged, RowFlagged, Remembers
  <2>10. ~Overlaps(rows', ads'[worker'[w].dir], ads'[worker'[w].dir].row)
    BY <2>1, <2>2, <2>3, <2>7
  <2>11. Changes(w)'
    BY <2>2, <2>3, <2>5, <2>7, <2>8, <2>10 DEF Changes, Alike, ChangePCs, CopyPCs
  <2>12. Holds(w)' /\ Stale(w)' = {} /\ Fresh(w)' = {}
    BY <2>3, <2>11 DEF Holds, Removes, Adds, NewPCs, Stale, Fresh
  <2>13. Stale(w) = {} /\ Fresh(w) = {}
    BY <2>1 DEF Stale, Fresh
  <2> QED
    BY <2>1, <2>8, <2>9, <2>12, <2>13, QuietAt
<1>4. CASE DropOld(w)
  <2>1. /\ worker[w].pc = "drop" /\ rows' = rows /\ flags' = flags /\ Goto(w, "rescan")
        /\ ads[d].scanID # INVALID => Remove(d)
    BY <1>4 DEF DropOld
  <2>2. /\ o # NoDir /\ o \in Listed /\ ads[d].scanID = ads[o].scanID /\ Alike(d, o) /\ Alike(c, o)
        /\ ~Overlaps(rows, ads[d], ads[d].row) /\ ads[c].recursive = ads[d].recursive
        /\ ads[c].scanID = ads[o].scanID /\ ads[c].persistent = ads[o].persistent
        /\ c \notin {d, o} /\ c \notin Listed
        /\ d \in DOMAIN ads /\ o \in DOMAIN ads /\ c \in DOMAIN ads
    BY <1>2, <2>1 DEF At, Holds, Changes, ChangePCs, CopyPCs
  <2>3. \A e \in Listed : ads[e].scanID # INVALID /\ (ads[e].scanID = ads[o].scanID => e = o)
    <3> SUFFICES ASSUME NEW e \in Listed
                 PROVE  ads[e].scanID # INVALID /\ (ads[e].scanID = ads[o].scanID => e = o)
      OBVIOUS
    <3>1. PICK i \in DOMAIN list : e = list[i]
      BY DEF Listed
    <3>2. PICK j \in DOMAIN list : o = list[j]
      BY <2>2 DEF Listed
    <3>3. IDs(ads, list, nextIndex)
      BY DEF SInv
    <3> QED
      BY ONLY <3>1, <3>2, <3>3, Zenon DEF IDs
  <2>4. Listed' = Listed \ {o} /\ ads' = [ads EXCEPT ![d].scanID = INVALID]
    BY <1>1, <2>1, <2>2, <2>3, RemoveListed DEF SInv
  <2>5. /\ DOMAIN ads' = DOMAIN ads /\ \A ref \in DOMAIN ads \ {d} : ads'[ref] = ads[ref]
        /\ \A ref \in DOMAIN ads :
              /\ RowOf(ref)' = RowOf(ref) /\ ads'[ref].persistent = ads[ref].persistent
              /\ ads'[ref].row = ads[ref].row /\ ads'[ref].path = ads[ref].path
              /\ ads'[ref].recursive = ads[ref].recursive
    BY <1>1, <2>4, SMTT(30) DEF RowOf, Row, ADs
  <2>6. /\ worker'[w].pc = "rescan" /\ worker'[w].dir = d
        /\ worker'[w].orig = o /\ worker'[w].copy = c
    BY <2>1, GoesTo DEF PCs
  <2>7. Entries = rows
    BY <2>1 DEF At, Stale, Fresh, Mirrors
  <2>8. \A x, y \in Kept : RowOf(x) = RowOf(y) => x = y
    BY DEF At, OneEntryEach, RowOf, Row
  <2>9. Kept' = Kept \ {o} /\ Entries' = {RowOf(ref) : ref \in Kept \ {o}}
    <3>1. Kept' = Kept \ {o}
      BY <1>1, <2>4, <2>5 DEF Kept
    <3>2. \A ref \in Kept \ {o} : RowOf(ref)' = RowOf(ref)
      BY <1>1, <2>5 DEF Kept
    <3> QED
      BY <3>1, <3>2 DEF Entries
  <2>10. Entries' = rows \ TheRow(o) /\ TheRow(o) \subseteq rows
    <3>1. CASE ads[o].persistent
      <4>1. Kept \ {o} = Kept
        BY <3>1 DEF Kept
      <4> QED
        BY <2>7, <2>9, <3>1, <4>1 DEF Entries, TheRow
    <3>2. CASE ~ads[o].persistent
      <4>1. o \in Kept
        BY <2>2, <3>2 DEF Kept
      <4>2. RowOf(o) \in rows
        BY <2>7, <4>1 DEF Entries
      <4>3. {RowOf(ref) : ref \in Kept \ {o}} = Entries \ {RowOf(o)}
        BY <2>8, <4>1 DEF Entries
      <4> QED
        BY <2>7, <2>9, <3>2, <4>2, <4>3 DEF TheRow
    <3> QED
      BY <3>1, <3>2
  <2>11. Stale(w)' = TheRow(o) /\ Fresh(w)' = {}
    <3>0. /\ ads'[worker'[w].orig].persistent = ads[o].persistent
          /\ Row(ads'[worker'[w].orig].row, ads'[worker'[w].orig]) = Row(ads[o].row, ads[o])
      BY <2>2, <2>5, <2>6 DEF RowOf
    <3>1. TheRow(worker[w].orig)' = TheRow(o)
      BY <3>0 DEF TheRow, RowOf
    <3> QED
      BY <2>6, <3>1 DEF Stale, Fresh
  <2>12. Mirrors(Stale(w), Fresh(w))'
    BY <2>1, <2>10, <2>11 DEF Mirrors
  <2>13. OneEntryEach' /\ Rowless' /\ RowsInv'
    <3>1. OneEntryEach'
      BY <1>1, <2>5, <2>9 DEF At, OneEntryEach, Kept
    <3>2. Rowless'
      BY <2>5 DEF At, Rowless
    <3>3. RowsInv'
      BY <2>1 DEF At, RowsInv, KeysInv, Flagged, RowFlagged, Remembers
    <3> QED
      BY <3>1, <3>2, <3>3
  <2>14. ~Overlaps(rows', ads'[worker'[w].dir], ads'[worker'[w].dir].row)
    BY <2>1, <2>2, <2>5, <2>6, OverlapsAlike
  <2>15. \A e \in Listed' : e = d \/ ads'[e].scanID # ads'[c].scanID
    BY <1>1, <2>2, <2>3, <2>4, <2>5
  <2>16. \A e \in Listed' : ads'[e].scanID # ads'[c].scanID
    <3>1. ads'[d].scanID = INVALID
      BY <1>1, <2>2, <2>4, SMTT(30) DEF ADs
    <3>2. ads'[c].scanID # INVALID
      BY <2>2, <2>3, <2>5
    <3> QED
      BY <2>15, <3>1, <3>2
  <2>17. ads'[c].scanID # INVALID
    BY <2>2, <2>3, <2>5
  <2>18. Changes(w)'
    BY <2>2, <2>5, <2>6, <2>14, <2>16, <2>17 DEF Changes, Alike, ChangePCs, CopyPCs
  <2>19. Holds(w)'
    BY <2>6, <2>18 DEF Holds, Removes, Adds, NewPCs
  <2> QED
    BY <2>12, <2>13, <2>19 DEF At
<1>5. CASE ScanCopy(w)
  <2>1. /\ worker[w].pc = "rescan" /\ rows' = rows /\ flags' = flags /\ Goto(w, "update")
        /\ ScanDir(c)
    BY <1>5 DEF ScanCopy
  <2>2. /\ o # NoDir /\ Alike(d, o) /\ Alike(c, o)
        /\ ~Overlaps(rows, ads[d], ads[d].row) /\ ads[c].recursive = ads[d].recursive
        /\ ads[c].persistent = ads[o].persistent /\ c \notin {d, o} /\ c \notin Listed
        /\ ads[c].scanID # INVALID /\ \A e \in Listed : ads[e].scanID # ads[c].scanID
        /\ d \in DOMAIN ads /\ o \in DOMAIN ads /\ c \in DOMAIN ads
    BY <1>2, <2>1 DEF At, Holds, Changes, ChangePCs, CopyPCs
  <2>3. Add(ads, c, ads[c].scanID) /\ ads[c].scanID \in Nat
    BY <1>1, <2>1, <2>2 DEF ScanDir, ADs
  <2>4. Listed' = Listed \cup {c} /\ ads' = [ads EXCEPT ![c].scanID = ads[c].scanID]
    BY <2>2, <2>3, AddListed
  <2>5. ads' = ads
    <3>1. [ads[c] EXCEPT !.scanID = ads[c].scanID] = ads[c]
      BY <1>1, <2>2 DEF ADs
    <3>2. [ads EXCEPT ![c].scanID = ads[c].scanID] = [ads EXCEPT ![c] = [ads[c] EXCEPT !.scanID = ads[c].scanID]]
      BY <1>1, <2>2
    <3> QED
      BY <1>1, <2>2, <2>4, <3>1, <3>2
  <2>6. /\ worker'[w].pc = "update" /\ worker'[w].dir = d
        /\ worker'[w].orig = o /\ worker'[w].copy = c
    BY <2>1, GoesTo DEF PCs
  <2>7. Entries = rows \ TheRow(o) /\ TheRow(o) \subseteq rows
    BY <2>1 DEF At, Stale, Fresh, Mirrors
  <2>8. Entries' = Entries \cup TheRow(c) /\ Kept' = Kept \cup (IF ads[c].persistent THEN {} ELSE {c})
    <3>1. Kept' = Kept \cup (IF ads[c].persistent THEN {} ELSE {c})
      BY <2>4, <2>5 DEF Kept
    <3>2. Entries' = {RowOf(ref) : ref \in Kept \cup (IF ads[c].persistent THEN {} ELSE {c})}
      BY <2>5, <3>1 DEF Entries, RowOf
    <3> QED
      BY <3>1, <3>2 DEF Entries, TheRow
  <2>9. Stale(w)' = TheRow(o) /\ Fresh(w)' = TheRow(c)
    BY <2>5, <2>6 DEF Stale, Fresh, TheRow, RowOf
  <2>10. Mirrors(Stale(w), Fresh(w))'
    BY <2>1, <2>7, <2>8, <2>9 DEF Mirrors
  <2>11. ~ads[c].persistent => \A e \in Kept : ads[e].row # ads[c].row
    <3> SUFFICES ASSUME ~ads[c].persistent, NEW e \in Kept PROVE ads[e].row # ads[c].row
      OBVIOUS
    <3>1. RowOf(o) \in rows /\ RowOf(e) \in rows /\ RowOf(e) # RowOf(o)
      BY <2>2, <2>7 DEF Entries, TheRow
    <3>2. RowOf(e).id = ads[e].row /\ RowOf(o).id = ads[o].row
      BY DEF RowOf, Row
    <3> QED
      BY <2>2, <3>1, <3>2 DEF At, RowsInv, KeysInv, Alike
  <2>12. OneEntryEach' /\ Rowless' /\ RowsInv'
    <3>1. OneEntryEach'
      BY <2>5, <2>8, <2>11 DEF At, OneEntryEach
    <3>2. Rowless' /\ RowsInv'
      BY <2>1, <2>5 DEF At, Rowless, RowsInv, KeysInv, Flagged, RowFlagged, Remembers
    <3> QED
      BY <3>1, <3>2
  <2>13. ~Overlaps(rows', ads'[worker'[w].dir], ads'[worker'[w].dir].row)
    BY <2>1, <2>2, <2>5, <2>6
  <2>14. Changes(w)'
    BY <2>2, <2>4, <2>5, <2>6, <2>13 DEF Changes, Alike, ChangePCs, CopyPCs
  <2>15. Holds(w)'
    BY <2>6, <2>14 DEF Holds, Removes, Adds, NewPCs
  <2> QED
    BY <2>10, <2>12, <2>15, Zenon DEF At
<1>6. CASE UpdateFlags(w)
  <2>1. PICK new : new = [ads[c] EXCEPT !.mode = ads[d].mode]
    OBVIOUS
  <2>2. /\ worker[w].pc = "update" /\ rows' = rows /\ list' = list /\ Listed' = Listed
        /\ ads' = [ads EXCEPT ![c] = new]
        /\ IF Overlaps(rows, new, new.row) THEN Finish(w) /\ flags' = flags
           ELSE Goto(w, "write") /\ flags' = NewFlags(new)
    BY <1>6, <2>1 DEF UpdateFlags, Listed
  <2>3. /\ o # NoDir /\ Alike(d, o) /\ Alike(c, o)
        /\ ~Overlaps(rows, ads[d], ads[d].row) /\ ads[c].recursive = ads[d].recursive
        /\ ads[c].persistent = ads[o].persistent /\ c \notin {d, o} /\ c \in Listed
        /\ d \in DOMAIN ads /\ o \in DOMAIN ads /\ c \in DOMAIN ads
    BY <1>2, <2>2 DEF At, Holds, Changes, ChangePCs, CopyPCs
  <2>4. /\ new.path = ads[c].path /\ new.row = ads[c].row /\ new.recursive = ads[c].recursive
        /\ new.persistent = ads[c].persistent
    BY <1>1, <2>1, <2>3 DEF ADs
  <2>5. ~Overlaps(rows, new, new.row)
    BY <2>3, <2>4, OverlapsAlike DEF Alike
  <2>6. TheRow(o) \subseteq rows /\ Entries = (rows \ TheRow(o)) \cup TheRow(c)
    BY <2>2 DEF At, Stale, Fresh, Mirrors
  <2>7. \A ref : RowOf(ref).id = ads[ref].row /\ RowOf(ref).path = ads[ref].path
    BY DEF RowOf, Row
  <2>8. flags \subseteq NewFlags(new)
    <3>1. CASE ads[c].persistent
      <4>1. new.row = NoRow
        BY <2>3, <2>4, <3>1 DEF At, Rowless
      <4>2. OldPath(new) = {}
        BY <4>1 DEF At, RowsInv, KeysInv, OldPath
      <4> QED
        BY <4>2 DEF NewFlags
    <3>2. CASE ~ads[c].persistent
      <4>1. RowOf(o) \in rows
        BY <2>3, <2>6, <3>2 DEF TheRow
      <4>2. new.path \in OldPath(new)
        BY <2>3, <2>4, <2>7, <4>1 DEF OldPath, Alike
      <4> QED
        BY <4>2 DEF NewFlags
    <3> QED
      BY <3>1, <3>2
  <2>9. Goto(w, "write") /\ flags \subseteq flags'
    BY <2>2, <2>5, <2>8
  <2>10. /\ worker'[w].pc = "write" /\ worker'[w].dir = d
         /\ worker'[w].orig = o /\ worker'[w].copy = c
    BY <2>9, GoesTo DEF PCs
  <2>11. /\ DOMAIN ads' = DOMAIN ads /\ ads'[c] = new
         /\ \A ref \in DOMAIN ads \ {c} : ads'[ref] = ads[ref] /\ RowOf(ref)' = RowOf(ref)
    <3>1. DOMAIN ads' = DOMAIN ads /\ ads'[c] = new /\ \A ref \in DOMAIN ads \ {c} : ads'[ref] = ads[ref]
      BY <1>1, <2>2, <2>3
    <3> QED
      BY <3>1 DEF RowOf
  <2>12. PICK fresh : fresh = IF ads[c].persistent THEN {} ELSE {Row(new.row, new)}
    OBVIOUS
  <2>13. Stale(w)' = TheRow(o) /\ Fresh(w)' = fresh
    <3>0. /\ ads'[worker'[w].orig].persistent = ads[o].persistent
          /\ Row(ads'[worker'[w].orig].row, ads'[worker'[w].orig]) = Row(ads[o].row, ads[o])
      BY <2>3, <2>10, <2>11 DEF RowOf
    <3>1. TheRow(worker[w].orig)' = TheRow(o)
      BY <3>0 DEF TheRow, RowOf
    <3>2. TheRow(worker[w].copy)' = fresh
      BY <2>3, <2>4, <2>10, <2>11, <2>12 DEF TheRow, RowOf
    <3> QED
      BY <2>10, <3>1, <3>2 DEF Stale, Fresh
  <2>14. Kept' = Kept /\ Kept \subseteq DOMAIN ads
    BY <1>1, <2>2, <2>3, <2>4, <2>11 DEF Kept
  <2>15. Entries' = (rows \ TheRow(o)) \cup fresh
    <3>1. CASE ads[c].persistent
      <4>1. c \notin Kept
        BY <3>1 DEF Kept
      <4>2. Entries' = Entries
        BY <2>11, <2>14, <4>1 DEF Entries
      <4> QED
        BY <2>6, <2>12, <3>1, <4>2 DEF TheRow
    <3>2. CASE ~ads[c].persistent
      <4>1. c \in Kept /\ RowOf(o) \in rows /\ Entries = (rows \ {RowOf(o)}) \cup {RowOf(c)}
        BY <2>3, <2>6, <3>2 DEF TheRow, Kept
      <4>2. \A r \in rows \ {RowOf(o)} : r # RowOf(c)
        BY <2>3, <2>7, <4>1 DEF At, RowsInv, KeysInv, Alike
      <4>3. \A ref \in Kept \ {c} : RowOf(ref) \in rows \ {RowOf(o)}
        <5>1. \A ref \in Kept \ {c} : RowOf(ref) \in Entries /\ RowOf(ref) # RowOf(c)
          <6> SUFFICES ASSUME NEW ref \in Kept \ {c}
                       PROVE  RowOf(ref) \in Entries /\ RowOf(ref) # RowOf(c)
            OBVIOUS
          <6>1. ads[ref].row # ads[c].row
            BY <2>7, <4>1 DEF At, OneEntryEach
          <6>2. RowOf(ref).id = ads[ref].row /\ RowOf(c).id = ads[c].row
            BY DEF RowOf, Row
          <6> QED
            BY ONLY <6>1, <6>2, ref \in Kept \ {c}, Zenon DEF Entries
        <5> QED
          BY <4>1, <5>1
      <4>4. \A r \in rows \ {RowOf(o)} : \E ref \in Kept \ {c} : r = RowOf(ref)
        BY <4>1, <4>2 DEF Entries
      <4>5. {RowOf(ref) : ref \in Kept \ {c}} = rows \ {RowOf(o)}
        BY <4>3, <4>4
      <4>6. \A ref : ref = c => {RowOf(ref)'} = fresh
        BY <2>11, <2>12, <3>2 DEF RowOf
      <4>7. \A ref \in Kept \ {c} : RowOf(ref)' = RowOf(ref)
        BY <2>11, <2>14
      <4>8. Entries' = {RowOf(ref) : ref \in Kept \ {c}} \cup fresh
        <5>1. Entries' = {RowOf(ref)' : ref \in Kept}
          BY <2>14 DEF Entries
        <5> QED
          BY <4>1, <4>6, <4>7, <5>1
      <4> QED
        BY <3>2, <4>5, <4>8, <2>3 DEF TheRow
    <3> QED
      BY <3>1, <3>2
  <2>16. Mirrors(Stale(w), Fresh(w))'
    BY <2>2, <2>6, <2>13, <2>15 DEF Mirrors
  <2>17. OneEntryEach' /\ Rowless' /\ RowsInv'
    <3>1. \A ref \in DOMAIN ads : ads'[ref].row = ads[ref].row /\ ads'[ref].persistent = ads[ref].persistent
      BY <2>4, <2>11
    <3>2. OneEntryEach'
      BY <2>14, <3>1 DEF At, OneEntryEach
    <3>3. Rowless'
      BY <2>11, <3>1 DEF At, Rowless
    <3>4. RowsInv'
      BY <2>2, <2>9 DEF At, RowsInv, KeysInv, Flagged, RowFlagged, Remembers
    <3> QED
      BY <3>2, <3>3, <3>4
  <2>18. Changes(w)'
    BY <2>2, <2>3, <2>4, <2>10, <2>11 DEF Changes, Alike, ChangePCs, CopyPCs
  <2>19. Holds(w)'
    BY <2>10, <2>18 DEF Holds, Removes, Adds, NewPCs
  <2> QED
    BY <2>16, <2>17, <2>19, Zenon DEF At
<1>7. CASE WriteRow(w)
  <2>1. /\ worker[w].pc = "write" /\ Finish(w) /\ list' = list /\ ads' = ads /\ flags' = flags
        /\ rows' = IF Refused(ads[c]) THEN rows ELSE WrittenRows(ads[c])
    BY <1>7 DEF WriteRow, memory
  <2>2. /\ o # NoDir /\ Alike(c, o) /\ ~Overlaps(rows, ads[c], ads[c].row)
        /\ ads[c].persistent = ads[o].persistent /\ c \in DOMAIN ads
    BY <1>2, <2>1 DEF At, Holds, Changes, ChangePCs, CopyPCs, OInv, CheckedInv
  <2>3. TheRow(o) \subseteq rows /\ Entries = (rows \ TheRow(o)) \cup TheRow(c)
    BY <2>1 DEF At, Stale, Fresh, Mirrors
  <2>4. \A ref : RowOf(ref).id = ads[ref].row /\ RowOf(ref).path = ads[ref].path
    BY DEF RowOf, Row
  <2>5. {r \in rows : r.id = ads[c].row} = TheRow(o)
    <3>1. CASE ads[c].persistent
      <4>1. ads[c].row = NoRow
        BY <2>2, <3>1 DEF At, Rowless
      <4> QED
        BY <2>2, <3>1, <4>1 DEF At, RowsInv, KeysInv, TheRow
    <3>2. CASE ~ads[c].persistent
      <4>1. TheRow(o) = {RowOf(o)} /\ RowOf(o) \in rows
        BY <2>2, <2>3, <3>2 DEF TheRow
      <4> QED
        BY <2>2, <2>4, <4>1 DEF At, RowsInv, KeysInv, Alike
    <3> QED
      BY <3>1, <3>2
  <2>6. WrittenRows(ads[c]) = Entries
    <3>1. TheRow(o) = {} <=> TheRow(c) = {}
      BY <2>2 DEF TheRow
    <3>2. TheRow(c) # {} => TheRow(c) = {Row(ads[c].row, ads[c])}
      BY DEF TheRow, RowOf
    <3> QED
      BY <2>3, <2>5, <3>1, <3>2 DEF WrittenRows
  <2>7. \A r \in TheRow(c) : \E q \in TheRow(o) : r.id = q.id /\ r.path = q.path
    BY <2>2, <2>4 DEF TheRow, Alike
  <2>8. \A r \in Entries : \E q \in rows : r.id = q.id /\ r.path = q.path /\ (r = q \/ q \in TheRow(o))
    BY <2>3, <2>7
  <2>9. \A r, q \in TheRow(c) : r = q
    BY DEF TheRow
  <2>10. \A r, q \in Entries : r.id = q.id \/ r.path = q.path => r = q
    <3>1. \A r, q \in rows : r.id = q.id \/ r.path = q.path => r = q
      BY DEF At, RowsInv, KeysInv, OInv, NoOverlap
    <3>2. \A r \in Entries : r \in TheRow(c) \/ r \in rows \ TheRow(o)
      BY <2>3
    <3> QED
      BY <2>3, <2>7, <2>9, <3>1, <3>2
  <2>11. ~Refused(ads[c])
    BY <2>6, <2>10 DEF Refused
  <2>12. rows' = Entries /\ Entries' = Entries
    BY <2>1, <2>6, <2>11 DEF Entries, RowOf, Kept, Listed
  <2>13. RowsInv'
    <3>1. \A r \in Entries : r.id # NoRow /\ (misled' = "no" => r.path \in flags)
      BY <2>8 DEF At, RowsInv, KeysInv, Flagged, RowFlagged, Remembers
    <3> QED
      BY <2>1, <2>10, <2>12, <3>1 DEF RowsInv, KeysInv, Flagged, RowFlagged
  <2>14. OneEntryEach' /\ Rowless'
    BY <2>1 DEF At, OneEntryEach, Rowless, Kept, Listed
  <2>15. Mirrors({}, {})'
    BY <2>12 DEF Mirrors
  <2> QED
    BY <2>1, <2>13, <2>14, <2>15, Ends DEF At
<1> QED
  BY <1>3, <1>4, <1>5, <1>6, <1>7

\* A start makes one entry of each row: the orders of RowsOf list every row once.
LEMMA RowsOfAll ==
    ASSUME IsFiniteSet(rows), NEW mode, NEW f \in RowsOf(mode)
    PROVE  /\ f \in Seq(rows)
           /\ {f[i] : i \in DOMAIN f} = {r \in rows : r.mode = mode}
           /\ \A i, j \in DOMAIN f : f[i] = f[j] => i = j
<1> DEFINE S == {r \in rows : r.mode = mode}
<1>1. IsFiniteSet(S)
  BY FS_Subset
<1>2. Cardinality(S) \in Nat
  BY <1>1, FS_CardinalityType
<1>3. f \in [1 .. Cardinality(S) -> S] /\ \A i, j \in DOMAIN f : f[i] = f[j] => i = j
  BY DEF RowsOf, Orders
<1>4. S \subseteq rows
  OBVIOUS
<1> HIDE DEF S
<1>5. f \in Injection(1 .. Cardinality(S), S)
  BY <1>3 DEF Injection, IsInjective
<1>6. Cardinality(1 .. Cardinality(S)) = Cardinality(S)
  BY <1>2, FS_Interval
<1>7. f \in Surjection(1 .. Cardinality(S), S)
  BY <1>1, <1>5, <1>6, FS_Injection
<1>8. {f[i] : i \in DOMAIN f} = S
  BY <1>3, <1>7 DEF Surjection
<1>9. f \in Seq(S)
  BY <1>2, <1>3
<1>10. f \in Seq(rows)
  BY <1>4, <1>9
<1> QED
  BY <1>3, <1>8, <1>10 DEF S

\* A start watches what the rows say, and the directories of the configuration.
LEMMA StartKInv ==
    ASSUME TInv, KeysInv, Start, Flagged'
    PROVE  KInv'
<1>1. IsFiniteSet(rows) /\ rows \subseteq Rows
  BY DEF TInv, TypeOK
<1>2. PICK timed \in RowsOf("timed"), manual \in RowsOf("manual") :
        LET fromRows == timed \o manual
            every == fromRows \o ConfigOf("timed") \o ConfigOf("manual")
            known(i) == i <= Len(fromRows)
        IN /\ ads' = [i \in DOMAIN every |->
                          AD(every[i], ~known(i), i - 1,
                             IF known(i) THEN fromRows[i].id ELSE NoRow, i)]
           /\ list' = [i \in DOMAIN every |-> i]
  BY DEF Start
<1>3. PICK all : all = timed \o manual
  OBVIOUS
<1>4. /\ timed \in Seq(rows) /\ manual \in Seq(rows)
      /\ {timed[i] : i \in DOMAIN timed} = {r \in rows : r.mode = "timed"}
      /\ {manual[i] : i \in DOMAIN manual} = {r \in rows : r.mode = "manual"}
      /\ \A i, j \in DOMAIN timed : timed[i] = timed[j] => i = j
      /\ \A i, j \in DOMAIN manual : manual[i] = manual[j] => i = j
  BY <1>1, RowsOfAll
<1>5. all \in Seq(rows) /\ DOMAIN all = 1 .. Len(all) /\ Len(all) \in Nat
  BY <1>3, <1>4
<1>6. ConfigOf("timed") \in Seq(Setting) /\ ConfigOf("manual") \in Seq(Setting)
  BY DEF ConfigOf, Modes
<1>7. PICK every : every = all \o ConfigOf("timed") \o ConfigOf("manual")
  OBVIOUS
<1>20. /\ DOMAIN every = 1 .. Len(every) /\ Len(every) \in Nat /\ Len(all) <= Len(every)
       /\ \A i \in DOMAIN all : i \in DOMAIN every /\ every[i] = all[i]
  <2> DEFINE S == rows \cup Setting
  <2>1. all \in Seq(S) /\ ConfigOf("timed") \in Seq(S) /\ ConfigOf("manual") \in Seq(S)
    BY <1>5, <1>6
  <2> HIDE DEF S
  <2>2. PICK one : one = all \o ConfigOf("timed")
    OBVIOUS
  <2>3. /\ one \in Seq(S) /\ Len(one) \in Nat /\ Len(all) <= Len(one)
        /\ \A i \in 1 .. Len(all) : one[i] = all[i]
    BY <2>1, <2>2
  <2>4. every = one \o ConfigOf("manual")
    BY <1>7, <2>2
  <2>5. /\ every \in Seq(S) /\ Len(every) \in Nat /\ Len(one) <= Len(every)
        /\ \A i \in 1 .. Len(one) : every[i] = one[i]
    BY <2>1, <2>3, <2>4
  <2>6. \A i \in 1 .. Len(all) : i \in 1 .. Len(one) /\ i \in 1 .. Len(every)
    BY <1>5, <2>3, <2>5
  <2>7. DOMAIN every = 1 .. Len(every) /\ Len(all) <= Len(every)
    BY <1>5, <2>3, <2>5
  <2> QED
    BY <1>5, <2>3, <2>5, <2>6, <2>7
<1>8. /\ ads' = [i \in DOMAIN every |->
                     AD(every[i], ~(i <= Len(all)), i - 1,
                        IF i <= Len(all) THEN all[i].id ELSE NoRow, i)]
      /\ list' = [i \in DOMAIN every |-> i]
  BY <1>2, <1>3, <1>7
<1>9. \A i \in DOMAIN all : /\ ads'[i].row = all[i].id /\ ads'[i].path = all[i].path
                            /\ ads'[i].mode = all[i].mode /\ ads'[i].recursive = all[i].recursive
                            /\ ~ads'[i].persistent
  <2>1. \A i \in DOMAIN all : i <= Len(all)
    BY <1>5
  <2> QED
    BY <1>8, <1>20, <2>1 DEF AD
<1>21. \A i \in DOMAIN every \ DOMAIN all : ads'[i].persistent /\ ads'[i].row = NoRow
  <2>1. \A i \in DOMAIN every \ DOMAIN all : ~(i <= Len(all))
    BY <1>5, <1>20
  <2> QED
    BY <1>8, <2>1 DEF AD
<1>10. {all[i] : i \in DOMAIN all} = rows
  <2>1. DOMAIN timed = 1 .. Len(timed) /\ Len(timed) \in Nat
    BY <1>4
  <2>2. DOMAIN manual = 1 .. Len(manual) /\ Len(manual) \in Nat
    BY <1>4
  <2>3. \A i \in DOMAIN timed : i \in DOMAIN all /\ all[i] = timed[i]
    BY <1>3, <1>4, <1>5, <2>1, <2>2
  <2>4. \A i \in DOMAIN manual : Len(timed) + i \in DOMAIN all /\ all[Len(timed) + i] = manual[i]
    BY <1>3, <1>4, <1>5, <2>1, <2>2
  <2>5. \A r \in rows : r.mode \in Modes
    BY <1>1 DEF Rows
  <2>6. ASSUME NEW r \in rows PROVE \E i \in DOMAIN all : all[i] = r
    <3>1. CASE r.mode = "timed"
      <4>1. PICK i \in DOMAIN timed : timed[i] = r
        BY <1>4, <3>1
      <4> QED
        BY <2>3, <4>1
    <3>2. CASE r.mode = "manual"
      <4>1. PICK i \in DOMAIN manual : manual[i] = r
        BY <1>4, <3>2
      <4> QED
        BY <2>4, <4>1
    <3> QED
      BY <2>5, <3>1, <3>2 DEF Modes
  <2>7. \A i \in DOMAIN all : all[i] \in rows
    BY <1>5
  <2> QED
    BY <2>6, <2>7
<1>11. \A i, j \in DOMAIN all : all[i] = all[j] => i = j
  <2>1. DOMAIN timed = 1 .. Len(timed) /\ Len(timed) \in Nat
    BY <1>4
  <2>2. DOMAIN manual = 1 .. Len(manual) /\ Len(manual) \in Nat
    BY <1>4
  <2>3. \A i \in DOMAIN timed : timed[i].mode = "timed"
    BY <1>4
  <2>4. \A i \in DOMAIN manual : manual[i].mode = "manual"
    BY <1>4
  <2>5. \A i \in DOMAIN all : \/ i \in DOMAIN timed /\ all[i] = timed[i]
                              \/ /\ i - Len(timed) \in DOMAIN manual
                                 /\ all[i] = manual[i - Len(timed)]
    BY <1>3, <1>4, <1>5, <2>1, <2>2
  <2> SUFFICES ASSUME NEW i \in DOMAIN all, NEW j \in DOMAIN all, all[i] = all[j]
               PROVE  i = j
    OBVIOUS
  <2>6. CASE i \in DOMAIN timed /\ all[i] = timed[i]
    <3>1. j \in DOMAIN timed /\ all[j] = timed[j]
      <4>1. all[j].mode = "timed"
        BY <2>3, <2>6
      <4>2. j - Len(timed) \in DOMAIN manual => manual[j - Len(timed)].mode = "manual"
        BY <2>4
      <4> QED
        BY <2>5, <4>1, <4>2
    <3> QED
      BY <1>4, <2>6, <3>1
  <2>7. CASE i - Len(timed) \in DOMAIN manual /\ all[i] = manual[i - Len(timed)]
    <3>1. j - Len(timed) \in DOMAIN manual /\ all[j] = manual[j - Len(timed)]
      BY <2>3, <2>4, <2>5, <2>7
    <3>2. i - Len(timed) = j - Len(timed)
      BY <1>4, <2>7, <3>1
    <3> QED
      BY <1>5, <2>1, <3>2
  <2> QED
    BY <2>5, <2>6, <2>7
<1>12. rows' = rows /\ \A w \in Workers : worker'[w] = Free
  BY DEF Start, TInv
<1>13. RowsInv'
  BY <1>12 DEF RowsInv, KeysInv
<1>14. Listed' = DOMAIN every /\ DOMAIN ads' = DOMAIN every
  <2>1. DOMAIN list' = DOMAIN every /\ \A i \in DOMAIN every : list'[i] = i
    BY <1>8
  <2>2. Listed' = {list'[i] : i \in DOMAIN every}
    BY <2>1 DEF Listed
  <2>3. \A x : x \in {list'[i] : i \in DOMAIN every} <=> x \in DOMAIN every
    BY <2>1
  <2>4. DOMAIN ads' = DOMAIN every
    BY <1>8
  <2> QED
    BY <2>2, <2>3, <2>4
<1>22. Kept' = DOMAIN all
  BY <1>9, <1>14, <1>20, <1>21 DEF Kept
<1>15. Rowless'
  BY <1>9, <1>14, <1>21 DEF Rowless
<1>16. OneEntryEach'
  <2>1. \A x, y \in DOMAIN all : all[x].id = all[y].id => x = y
    BY <1>10, <1>11 DEF KeysInv
  <2> QED
    BY <1>9, <1>22, <2>1 DEF OneEntryEach
<1>17. Entries' = rows'
  <2>1. \A i \in DOMAIN all : RowOf(i)' = all[i]
    <3>1. \A i \in DOMAIN all : all[i] \in Rows
      BY <1>1, <1>5
    <3> QED
      BY <1>9, <3>1 DEF RowOf, Row, Rows
  <2>2. Entries' = {RowOf(i)' : i \in DOMAIN all}
    BY <1>22 DEF Entries
  <2>3. Entries' = {all[i] : i \in DOMAIN all}
    BY <2>1, <2>2
  <2> QED
    BY <1>10, <1>12, <2>3
<1>18. \A w \in Workers : worker'[w].pc = "idle"
  BY <1>12 DEF Free
<1>19. \A w \in Workers : Holds(w)'
  BY <1>18 DEF Holds, Removes, Adds, Changes, ChangePCs, CopyPCs, NewPCs
<1> QED
  BY <1>13, <1>15, <1>16, <1>17, <1>18, <1>19 DEF KInv

\* The keys of the rows stay apart, whichever requests are under way.
LEMMA StepKeys == TInv /\ KeysInv /\ [Next]_vars => KeysInv'
<1> SUFFICES ASSUME TInv, KeysInv, [Next]_vars PROVE KeysInv'
  OBVIOUS
<1>1. ASSUME NEW ad, rows' = WrittenRows(ad) PROVE KeysInv'
  <2>1. Row(ad.row, ad).id = ad.row
    BY DEF Row
  <2>2. \/ rows' = rows
        \/ /\ rows' = {r \in rows : r.id # ad.row} \cup {Row(ad.row, ad)}
           /\ \E r \in rows : r.id = ad.row
    BY <1>1 DEF WrittenRows
  <2>3. CASE rows' = rows
    BY <2>3 DEF KeysInv
  <2>4. CASE /\ rows' = {r \in rows : r.id # ad.row} \cup {Row(ad.row, ad)}
             /\ \E r \in rows : r.id = ad.row
    BY <2>1, <2>4 DEF KeysInv
  <2> QED
    BY <2>2, <2>3, <2>4
<1>2. CASE rows' = rows
  BY <1>2 DEF KeysInv
<1>3. CASE SaveNext
  <2>1. rows' = rows \/ rows' = WrittenRows(ads[list[saved + 1]])
    BY <1>3 DEF SaveNext
  <2> QED
    BY <1>1, <1>2, <2>1
<1>4. ASSUME NEW w \in Workers, Unrow(w) PROVE KeysInv'
  <2>1. rows' \subseteq rows
    BY <1>4 DEF Unrow
  <2> QED
    BY <2>1 DEF KeysInv
<1>5. ASSUME NEW w \in Workers, InsertRow(w) PROVE KeysInv'
  <2>1. \/ rows' = rows
        \/ \E id \in 1 .. MaxRequests :
              IsNextRow(id) /\ rows' = rows \cup {Row(id, ads[worker[w].dir])}
    BY <1>5 DEF InsertRow
  <2>2. ASSUME NEW id \in 1 .. MaxRequests, IsNextRow(id),
               rows' = rows \cup {Row(id, ads[worker[w].dir])}
        PROVE  KeysInv'
    <3>1. Row(id, ads[worker[w].dir]).id = id /\ id # NoRow
      BY DEF Row, NoRow
    <3>2. \A r \in rows : r.id \in Nat /\ r.id # id
      BY <2>2 DEF TInv, TypeOK, Rows, IsNextRow
    <3> QED
      BY <2>2, <3>1, <3>2 DEF KeysInv
  <2> QED
    BY <1>2, <2>1, <2>2
<1>6. ASSUME NEW w \in Workers, WriteRow(w) PROVE KeysInv'
  <2>1. rows' = rows \/ rows' = WrittenRows(ads[worker[w].copy])
    BY <1>6 DEF WriteRow
  <2> QED
    BY <1>1, <1>2, <2>1
<1>7. ASSUME NEW w \in Workers, WebStep(w), ~Unrow(w), ~InsertRow(w), ~WriteRow(w)
      PROVE  rows' = rows
  BY <1>7 DEF WebStep, RequestRemove, RequestSet, Unlist, Unflag, Unsubscribe, FindOriginal,
              CheckOverlapping, AddFlag, ScanNew, Replace, DropOld, ScanCopy, UpdateFlags
<1>8. CASE Start \/ TimerNotify \/ Shutdown \/ Stop \/ Crash \/ UNCHANGED vars
  BY <1>2, <1>8 DEF Start, TimerNotify, Shutdown, Stop, Crash, vars
<1> QED
  BY <1>2, <1>3, <1>4, <1>5, <1>6, <1>7, <1>8 DEF Next

\* The last write of a row at the end of the server writes what is there; a
\* directory of the configuration has no row, but its container is flagged.
LEMMA SavedSame ==
    ASSUME KeysInv, Rowless, NEW ref \in DOMAIN ads, ~ads[ref].persistent => RowOf(ref) \in rows
    PROVE  WrittenRows(ads[ref]) = rows /\ flags \subseteq NewFlags(ads[ref])
<1>1. RowOf(ref).id = ads[ref].row /\ RowOf(ref).path = ads[ref].path
  BY DEF RowOf, Row
<1>2. CASE ads[ref].persistent
  <2>1. {r \in rows : r.id = ads[ref].row} = {}
    BY <1>2 DEF KeysInv, Rowless
  <2> QED
    BY <2>1 DEF WrittenRows, NewFlags, OldPath
<1>3. CASE ~ads[ref].persistent
  <2>1. {r \in rows : r.id = ads[ref].row} = {RowOf(ref)}
    BY <1>1, <1>3 DEF KeysInv
  <2>2. WrittenRows(ads[ref]) = rows
    BY <1>3, <2>1 DEF WrittenRows, RowOf
  <2>3. ads[ref].path \in OldPath(ads[ref])
    BY <1>1, <1>3 DEF OldPath
  <2> QED
    BY <2>2, <2>3 DEF NewFlags
<1> QED
  BY <1>2, <1>3

LEMMA StepKInv ==
    ASSUME TInv, SInv, OInv, KInv, [Next]_vars, OneAtATime, OneAtATime', ~Misleads, Remembers
    PROVE  KInv'
<1>1. ASSUME UNCHANGED <<ads, list, rows, worker>>, flags \subseteq flags',
             phase' \in {"up", "closing"} => phase \in {"up", "closing"}
      PROVE  KInv'
  <2>1. Rowless' = Rowless /\ OneEntryEach' = OneEntryEach
    BY <1>1 DEF Rowless, OneEntryEach, Kept, Listed
  <2>2. RowsInv'
    BY <1>1 DEF KInv, RowsInv, KeysInv, Flagged, RowFlagged, Remembers
  <2>3. \A path \in Paths : ListedAt(path)' = ListedAt(path)
    BY <1>1, ListedAtSame DEF TInv
  <2>4. Listed' = Listed
    BY <1>1 DEF Listed
  <2>5. ASSUME NEW w \in Workers PROVE Holds(w)'
    <3>1. Removes(w) /\ Adds(w) /\ Changes(w)
      BY DEF KInv, Holds
    <3>2. Removes(w)'
      BY <1>1, <2>4, <3>1 DEF Removes
    <3>3. Adds(w)'
      BY <1>1, <2>3, <2>4, <3>1 DEF Adds, Unknown
    <3>4. Changes(w)'
      BY <1>1, <2>4, <3>1 DEF Changes, Alike, Overlaps
    <3> QED
      BY <3>2, <3>3, <3>4 DEF Holds
  <2>6. AllIdle' = AllIdle /\ Entries' = Entries
    BY <1>1 DEF AllIdle, Entries, RowOf, Kept, Listed
  <2>7. \A w \in Workers : Stale(w)' = Stale(w) /\ Fresh(w)' = Fresh(w)
    BY <1>1 DEF Stale, Fresh, TheRow, RowOf
  <2>8. \A w \in Workers : Mirrors(Stale(w), Fresh(w))' = Mirrors(Stale(w), Fresh(w))
    BY <1>1, <2>6, <2>7 DEF Mirrors
  <2> QED
    BY <1>1, <2>1, <2>2, <2>5, <2>6, <2>8 DEF KInv
<1>2. CASE UNCHANGED vars
  BY <1>1, <1>2 DEF vars
<1>3. CASE TimerNotify \/ Shutdown \/ Stop
  BY <1>1, <1>3 DEF TimerNotify, Shutdown, Stop, memory
<1>4. CASE Crash
  <2>1. /\ phase' = "down" /\ worker' = [w \in Workers |-> Free]
        /\ UNCHANGED <<ads, list, rows, flags>>
    BY <1>4 DEF Crash, memory
  <2>2. RowsInv' /\ Rowless'
    BY <2>1 DEF KInv, RowsInv, KeysInv, Flagged, RowFlagged, Remembers, Rowless
  <2>3. \A w \in Workers : worker'[w].pc = "idle"
    BY <2>1 DEF Free
  <2>4. \A w \in Workers : Holds(w)'
    BY <2>3 DEF Holds, Removes, Adds, Changes, ChangePCs, CopyPCs, NewPCs
  <2> QED
    BY <2>1, <2>2, <2>4 DEF KInv
<1>5. CASE SaveNext
  <2> DEFINE ref == list[saved + 1]
  <2>1. /\ phase = "closing" /\ saved < Len(list) /\ UNCHANGED <<ads, list, worker>>
        /\ \/ phase' = "aborted" /\ UNCHANGED <<rows, flags>>
           \/ phase' = phase /\ flags' = NewFlags(ads[ref]) /\ rows' = WrittenRows(ads[ref])
    BY <1>5 DEF SaveNext, memory
  <2>2. saved + 1 \in DOMAIN list
    BY <2>1 DEF TInv, TypeOK
  <2>3. ref \in Listed /\ ref \in DOMAIN ads
    BY <2>2 DEF Listed, TInv, TypeOK
  <2>4. Entries = rows
    BY <2>1 DEF TInv, KInv, AllIdle, Free
  <2>5. ~ads[ref].persistent => RowOf(ref) \in rows
    BY <2>3, <2>4 DEF Entries, Kept
  <2>6. rows' = rows /\ flags \subseteq flags'
    BY <2>1, <2>3, <2>5, SavedSame DEF KInv, RowsInv
  <2> QED
    BY <1>1, <2>1, <2>6
<1>6. CASE \E w \in Workers : WebStep(w)
  <2>1. PICK w \in Workers : WebStep(w)
    BY <1>6
  <2>2. CASE UNCHANGED <<phase, memory, rows, flags, worker, saved, starts>>
    BY <1>1, <2>2 DEF memory
  <2>3. CASE \A v \in Workers \ {w} : worker[v].pc = "idle" /\ worker'[v].pc = "idle"
    <3>1. phase = "up"
      <4>1. CASE worker[w].pc = "idle"
        BY <2>1, <4>1 DEF WebStep, RequestRemove, RequestSet, Idle, Unlist, Unrow, Unflag,
           Unsubscribe, FindOriginal, CheckOverlapping, AddFlag, InsertRow, ScanNew, Replace,
           DropOld, ScanCopy, UpdateFlags, WriteRow
      <4>2. CASE worker[w].pc # "idle"
        BY <4>2 DEF TInv, Free
      <4> QED
        BY <4>1, <4>2
    <3>2. At(w)
      BY <2>3, <3>1, FocusAt
    <3>3. At(w)'
      BY <2>1, <3>2, RemoveAt, AddAt, ChangeAt DEF WebStep
    <3> QED
      BY <2>3, <3>3, AtFocus
  <2> QED
    BY <2>1, <2>2, <2>3, WebAlone
<1>7. CASE Start
  <2>1. KeysInv /\ Flagged'
    BY <1>7 DEF KInv, RowsInv, Flagged, RowFlagged, Remembers, Start
  <2> QED
    BY <1>7, <2>1, StartKInv
<1> QED
  BY <1>2, <1>3, <1>4, <1>5, <1>6, <1>7 DEF Next

LEMMA InitKInv == Init => KInv
<1> SUFFICES ASSUME Init PROVE KInv
  OBVIOUS
<1>1. /\ rows = {} /\ phase = "down" /\ DOMAIN ads = {}
      /\ \A w \in Workers : worker[w].pc = "idle"
  BY DEF Init, Free
<1>2. RowsInv /\ Rowless
  BY <1>1 DEF RowsInv, KeysInv, Flagged, RowFlagged, Rowless
<1>3. \A w \in Workers : Holds(w)
  BY <1>1, IdleHolds
<1> QED
  BY <1>1, <1>2, <1>3 DEF KInv

LEMMA KInvSuffices ==
    KInv => RestartKeeps /\ (misled = "no" => RowFlagged)
<1> SUFFICES ASSUME KInv PROVE RestartKeeps /\ (misled = "no" => RowFlagged)
  OBVIOUS
<1>1. misled = "no" => RowFlagged
  BY DEF KInv, RowsInv, Flagged
<1>2. ASSUME phase = "up", AllIdle
      PROVE  {Row(ads[list[i]].row, ads[list[i]]) :
                 i \in {j \in DOMAIN list : ~ads[list[j]].persistent}} = rows
  <2>1. Entries = rows
    BY <1>2 DEF KInv
  <2>2. Kept = {list[i] : i \in {j \in DOMAIN list : ~ads[list[j]].persistent}}
    BY DEF Kept, Listed
  <2> QED
    BY <2>1, <2>2 DEF Entries, RowOf
<1> QED
  BY <1>1, <1>2 DEF RestartKeeps

-------------------------------------------------------------------------------
(* The run of MCAutoscanRegistry: in the instance with requests one after  *)
(* the other no step begins a second one.                                  *)

OneRequestInv ==
    instance = "sequential" => TInv /\ OInv /\ OneAtATime

LEMMA SequentialStep ==
    ASSUME OneRequestInv, [MCNext]_<<vars, instance, misled>>, instance' = "sequential"
    PROVE  instance = "sequential" /\ [Next]_vars /\ OneAtATime /\ OneAtATime'
<1>1. instance = "sequential" /\ OneAtATime
  BY DEF MCNext, OneRequestInv
<1>2. CASE Next /\ OneRequestAtMost'
  BY <1>1, <1>2 DEF OneRequestAtMost, OneAtATime
<1>3. CASE UNCHANGED <<vars, instance, misled>>
  BY <1>1, <1>3 DEF vars, OneAtATime
<1> QED
  BY <1>1, <1>2, <1>3 DEF MCNext

LEMMA InitOneRequest == MCInit => OneRequestInv
<1>1. Init => OneAtATime
  BY DEF Init, OneAtATime, Free
<1> QED
  BY <1>1, InitTInv, InitOInv DEF MCInit, OneRequestInv

LEMMA StepOneRequest == OneRequestInv /\ [MCNext]_<<vars, instance, misled>> => OneRequestInv'
<1> SUFFICES ASSUME OneRequestInv, [MCNext]_<<vars, instance, misled>>, instance' = "sequential"
             PROVE  TInv' /\ OInv' /\ OneAtATime'
  BY DEF OneRequestInv
<1>1. instance = "sequential" /\ [Next]_vars /\ OneAtATime /\ OneAtATime'
  BY SequentialStep
<1>2. TInv /\ OInv
  BY <1>1 DEF OneRequestInv
<1> QED
  BY <1>1, <1>2, StepTInv, StepOInv

\* In that instance the rows never overlap, whatever its configuration and by
\* whichever way its requests name a directory.
THEOREM SequentialRowsApart == MCSpec => []SequentialNoOverlap
<1>1. OneRequestInv => SequentialNoOverlap
  BY DEF OneRequestInv, OInv, SequentialNoOverlap
<1> QED
  BY <1>1, InitOneRequest, StepOneRequest, PTL DEF MCSpec

\* A request that misleads leaves the list and the table apart until the next
\* start; the keys of the rows, from which that start begins, stay apart.
SequentialInv ==
    instance = "sequential" => SInv /\ KeysInv /\ (misled # "now" => KInv)

LEMMA InitSequential == MCInit => SequentialInv
<1>1. KInv => KeysInv
  BY DEF KInv, RowsInv
<1> QED
  BY <1>1, InitSInv, InitKInv DEF MCInit, SequentialInv

LEMMA StepSequential ==
    OneRequestInv /\ SequentialInv /\ [MCNext]_<<vars, instance, misled>> => SequentialInv'
<1> SUFFICES ASSUME OneRequestInv, SequentialInv, [MCNext]_<<vars, instance, misled>>,
                    instance' = "sequential"
             PROVE  SInv' /\ KeysInv' /\ (misled' # "now" => KInv')
  BY DEF SequentialInv
<1>1. instance = "sequential" /\ [Next]_vars /\ OneAtATime /\ OneAtATime'
  BY SequentialStep
<1>2. TInv /\ OInv /\ SInv /\ KeysInv /\ (misled # "now" => KInv)
  BY <1>1 DEF OneRequestInv, SequentialInv
<1>3. SInv' /\ KeysInv'
  BY <1>1, <1>2, StepSInv, StepKeys
<1>4. \/ misled' = misled /\ UNCHANGED vars
      \/ Next /\ misled' = IF Misleads THEN "now"
                           ELSE IF phase = "down" /\ misled = "now" THEN "once" ELSE misled
  BY <1>1 DEF MCNext
<1>5. ASSUME misled' # "now", misled = "now" PROVE KInv'
  <2>1. Next /\ phase = "down" /\ misled' = "once"
    BY <1>4, <1>5
  <2>2. \A w \in Workers : worker[w].pc = "idle"
    BY <1>2, <2>1 DEF TInv, Free
  <2>3. ASSUME NEW w \in Workers PROVE ~WebStep(w)
    BY <2>1, <2>2 DEF WebStep, RequestRemove, RequestSet, Idle, Unlist, Unrow, Unflag,
       Unsubscribe, FindOriginal, CheckOverlapping, AddFlag, InsertRow, ScanNew, Replace,
       DropOld, ScanCopy, UpdateFlags, WriteRow
  <2>4. Start
    BY <2>1, <2>3 DEF Next, TimerNotify, Shutdown, SaveNext, Stop, Crash
  <2>5. Flagged'
    BY <2>1 DEF Flagged
  <2> QED
    BY <1>2, <2>4, <2>5, StartKInv
<1>6. ASSUME misled' # "now", misled # "now" PROVE KInv'
  <2>1. Remembers
    BY <1>4, <1>6 DEF Remembers
  <2>2. ~Misleads
    <3>1. CASE UNCHANGED vars
      <4>1. requests' = requests /\ requests \in Nat
        BY <1>2, <3>1 DEF vars, TInv, TypeOK
      <4>2. Misleads => requests' = requests + 1
        <5>1. \A v \in Workers, path \in Paths, via \in Via :
                 RequestRemove(v, path, via) => requests' = requests + 1
          BY Zenon DEF RequestRemove
        <5>2. \A v \in Workers, s \in Setting, via \in Via :
                 RequestSet(v, s, via) => requests' = requests + 1
          BY Zenon DEF RequestSet
        <5> QED
          BY <5>1, <5>2, Zenon DEF Misleads
      <4> QED
        BY <4>1, <4>2
    <3>2. CASE misled' = IF Misleads THEN "now"
                         ELSE IF phase = "down" /\ misled = "now" THEN "once" ELSE misled
      BY <1>6, <3>2
    <3> QED
      BY <1>4, <3>1, <3>2
  <2> QED
    BY <1>1, <1>2, <1>6, <2>1, <2>2, StepKInv
<1> QED
  BY <1>3, <1>5, <1>6

\* A restart watches the same directories with the same parameters, when
\* requests come one after the other and none since the last start has named a
\* watched directory by the id of its container: the calls of editSave leave the
\* watch list and the table alike.  Where none ever has, no row is without the
\* flag of its container, whichever call a crash comes after.
THEOREM SequentialRestarts == MCSpec => []SequentialRestartKeeps
<1>1. SequentialInv => SequentialRestartKeeps
  BY KInvSuffices DEF SequentialInv, SequentialRestartKeeps
<1> QED
  BY <1>1, InitSequential, StepSequential, InitOneRequest, StepOneRequest, PTL DEF MCSpec
===============================================================================
