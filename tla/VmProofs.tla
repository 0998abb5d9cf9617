------------------------------ MODULE VmProofs ------------------------------
(***************************************************************************)
(* Proofs about the virtual machine and about the directory its snapshots  *)
(* are kept in.                                                            *)
(*                                                                         *)
(* For every number of ids and all bounds, the manifest (VmManifest) names *)
(* no VM without a snapshot, and loses one by a race alone.                *)
(*                                                                         *)
(* For every program, word, heap and page size and every set of edits, of  *)
(* the machine (Machine): the dirty pages and the last snapshot make it    *)
(* up, so an incremental snapshot loses no write; its values keep their    *)
(* widths and its open descriptors their files; a machine that was saved   *)
(* and restored runs on as if it never had been; the reverse of a patch    *)
(* set undoes it; a compiled program returns what the interpreter          *)
(* computes.                                                               *)
(***************************************************************************)
EXTENDS Machine, VmManifest, FiniteSetTheorems, WellFoundedInduction, TLAPS

-----------------------------------------------------------------------------
(* Books.                                                                   *)

\* The ids of a book are below its next id, and its records are records.
BookForm(b) ==
  /\ b = Book(b.next, b.vms) /\ b.next \in Nat \ {0}
  /\ \A id \in Known(b) : /\ id \in Ids /\ id < b.next
                          /\ b.vms[id] = [origin |-> b.vms[id].origin, status |-> b.vms[id].status]

\* Every id of a book has a snapshot file.
Backed(b) == \A id \in Known(b) : snaps[id] # Absent

\* A book lists a VM under its own id.
Listed(m, b) == m.id \in Known(b) /\ b.vms[m.id].origin = m.origin

\* The next id of a book is above all its ids.
LEMMA NextAbove ==
  ASSUME NEW b, BookForm(b)
  PROVE  b.next \in Nat /\ \A k \in Known(b) : k < b.next
  BY DEF BookForm

\* An empty book is a book.
LEMMA EmptyBook == BookForm(Book(1, NoVms)) /\ Known(Book(1, NoVms)) = {}
  BY DEF BookForm, Book, NoVms, Known

\* The reserved id is the next one of the book, for no id of the book is above it.
LEMMA FreeIdNext ==
  ASSUME NEW b, BookForm(b)
  PROVE  FreeId(b) = b.next
  <1>1. IsFiniteSet(Ids)
    BY FS_Interval, ManifestAssumption DEF Ids
  <1>2. IsFiniteSet(Known(b))
    <2>1. Known(b) \subseteq Ids
      BY DEF BookForm
    <2> QED BY <1>1, <2>1, FS_Subset
  <1>3. Cardinality(Known(b)) \in Nat
    BY <1>2, FS_CardinalityType
  <1> DEFINE card == Cardinality(Known(b))
             next == b.next
             P(i) == /\ i \notin Known(b)
                     /\ \A j \in next..(i - 1) : j \in Known(b)
  <1>4. next \in Nat /\ next \notin Known(b)
    <2>1. b.next \in Nat /\ \A id \in Known(b) : id < b.next
      BY NextAbove
    <2> QED BY <2>1
  <1>5. next \in next..(next + card) /\ P(next)
    <2>1. next..(next - 1) = {}
      BY <1>4
    <2> HIDE DEF card, next
    <2> QED BY <1>3, <1>4, <2>1 DEF card
  <1>6. \A i \in next..(next + card) : P(i) => i = next
    <2> SUFFICES ASSUME NEW i \in next..(next + card), P(i), i # next PROVE FALSE
      OBVIOUS
    <2>1. next \in next..(i - 1)
      BY <1>3, <1>4
    <2> QED BY <2>1, <1>4
  <1>7. FreeId(b) = CHOOSE i \in next..(next + card) : P(i)
    BY DEF FreeId
  <1> HIDE DEF P, next, card
  <1>8. FreeId(b) = next
    BY <1>5, <1>6, <1>7
  <1> QED BY <1>8 DEF next

\* Entering a record at or above the next id, and moving that behind it, makes a
\* book that lists the record and all that was listed.
LEMMA EnterBook ==
  ASSUME NEW b, BookForm(b), NEW id \in Ids, NEW writer, NEW status, NEW n \in Nat,
         \A k \in Known(b) : k < id, n = id + 1
  PROVE  LET e == Book(n, Enter(b, id, writer, status).vms)
         IN /\ BookForm(e) /\ Known(e) = Known(b) \cup {id}
            /\ e.vms[id].origin = writer
            /\ \A k \in Known(b) : e.vms[k] = b.vms[k]
  <1> DEFINE f == [i \in DOMAIN b.vms \cup {id} |->
                     IF i = id THEN [origin |-> writer, status |-> status] ELSE b.vms[i]]
  <1>1. Enter(b, id, writer, status).vms = f
    BY DEF Enter, BookForm, Book
  <1>2. id \in Nat /\ id \notin Known(b)
    BY DEF Ids, BookForm
  <1> DEFINE e == Book(n, f)
  <1>3. e.vms = f /\ e.next = n /\ e = Book(e.next, e.vms)
    BY DEF Book
  <1>4. Known(e) = Known(b) \cup {id}
    BY <1>3 DEF Known
  <1>5. f[id] = [origin |-> writer, status |-> status]
    OBVIOUS
  <1>6. \A k \in Known(b) : f[k] = b.vms[k]
    BY <1>2 DEF Known
  <1>7. f[id].origin = writer /\ f[id].status = status
    BY <1>5
  <1> HIDE DEF f
  <1>8. ASSUME NEW k \in Known(e)
        PROVE  /\ k \in Ids /\ k < n
               /\ f[k] = [origin |-> f[k].origin, status |-> f[k].status]
    <2>1. CASE k = id
      BY <2>1, <1>2, <1>5, <1>7
    <2>2. CASE k \in Known(b)
      <3>1. k \in Ids /\ k < id
        BY <2>2 DEF BookForm
      <3>2. f[k] = b.vms[k] /\ b.vms[k] = [origin |-> b.vms[k].origin, status |-> b.vms[k].status]
        BY <2>2, <1>6 DEF BookForm
      <3> QED BY <3>1, <3>2, <1>2 DEF Ids
    <2> QED BY <2>1, <2>2, <1>4
  <1>9. n \in Nat \ {0}
    BY <1>2
  <1>10. BookForm(e)
    BY <1>3, <1>8, <1>9 DEF BookForm
  <1> HIDE DEF e
  <1>11. e = Book(n, Enter(b, id, writer, status).vms)
    BY <1>1 DEF e
  <1> QED BY <1>3, <1>4, <1>6, <1>7, <1>10, <1>11

\* Changing the status of a record changes nothing else.
LEMMA StatusBook ==
  ASSUME NEW b, BookForm(b), NEW id \in Known(b), NEW status
  PROVE  LET e == [b EXCEPT !.vms[id].status = status]
         IN /\ BookForm(e) /\ Known(e) = Known(b)
            /\ \A k \in Known(b) : e.vms[k].origin = b.vms[k].origin
  <1> DEFINE e == [b EXCEPT !.vms[id].status = status]
             f == [b.vms EXCEPT ![id] = [b.vms[id] EXCEPT !.status = status]]
  <1>1. e = Book(b.next, f) /\ e.vms = f /\ e.next = b.next
    BY DEF BookForm, Book
  <1>2. DOMAIN f = DOMAIN b.vms
    OBVIOUS
  <1>3. Known(e) = Known(b)
    BY <1>1, <1>2 DEF Known
  <1>4. f[id] = [origin |-> b.vms[id].origin, status |-> status]
    <2>1. f[id] = [b.vms[id] EXCEPT !.status = status]
      BY DEF Known
    <2>2. b.vms[id] = [origin |-> b.vms[id].origin, status |-> b.vms[id].status]
      BY DEF BookForm
    <2> HIDE DEF f
    <2> QED BY <2>1, <2>2
  <1>5. \A k \in Known(b) : k # id => f[k] = b.vms[k]
    BY DEF Known
  <1> HIDE DEF e, f
  <1>6. ASSUME NEW k \in Known(b)
        PROVE  /\ f[k].origin = b.vms[k].origin
               /\ f[k] = [origin |-> f[k].origin, status |-> f[k].status]
    <2>1. CASE k = id
      BY <2>1, <1>4
    <2>2. CASE k # id
      BY <2>2, <1>5 DEF BookForm
    <2> QED BY <2>1, <2>2
  <1>7. BookForm(e)
    <2>1. e = Book(e.next, e.vms) /\ e.next \in Nat \ {0}
      BY <1>1 DEF BookForm
    <2>2. \A k \in Known(e) : k \in Ids /\ k < e.next
      BY <1>1, <1>3 DEF BookForm
    <2> QED BY <1>1, <1>3, <1>6, <2>1, <2>2 DEF BookForm
  <1> QED BY <1>1, <1>3, <1>6, <1>7 DEF e

\* Moving the next id up changes nothing else.
LEMMA NextBook ==
  ASSUME NEW b, BookForm(b), NEW n \in Nat, b.next < n
  PROVE  LET e == [b EXCEPT !.next = n]
         IN BookForm(e) /\ Known(e) = Known(b) /\ e.next = n /\ e.vms = b.vms
  <1>1. [b EXCEPT !.next = n] = Book(n, b.vms)
    BY DEF BookForm, Book
  <1>2. Book(n, b.vms).next = n /\ Book(n, b.vms).vms = b.vms
    BY DEF Book
  <1>3. Known(Book(n, b.vms)) = Known(b)
    BY <1>2 DEF Known
  <1>4. ASSUME NEW id \in Known(b) PROVE id < n
    <2>1. b.next \in Nat /\ id \in Ids /\ id < b.next
      BY DEF BookForm
    <2>2. id \in Nat
      BY <2>1 DEF Ids
    <2>3. id < b.next /\ b.next < n /\ id \in Nat /\ n \in Nat /\ b.next \in Nat
      BY <2>1, <2>2
    <2> HIDE DEF BookForm
    <2> QED BY <2>3, SMT
  <1> QED BY <1>1, <1>2, <1>3, <1>4 DEF BookForm

-----------------------------------------------------------------------------
(* Books and snapshots, whoever races.                                      *)

\* What a wrap in progress has reserved.
Reserved ==
  cpc = "snap" => /\ cnew.id \in Ids /\ cnew.origin # Absent
                  /\ copy.next = cnew.id + 1
                  /\ \A k \in Known(copy) : k < cnew.id

BookInv ==
  /\ BookForm(manifest.book) /\ BookForm(mem) /\ BookForm(copy)
  /\ Backed(manifest.book) /\ Backed(mem) /\ Backed(copy)
  /\ snaps = [i \in Ids |-> snaps[i]]
  /\ Reserved

\* No step removes a snapshot file.
SnapsStay == \A k \in Ids : snaps[k] # Absent => snaps'[k] # Absent

\* A book that was backed stays backed.
LEMMA StaysBacked ==
  ASSUME NEW b, BookForm(b), Backed(b), SnapsStay
  PROVE  \A k \in Known(b) : snaps'[k] # Absent
  BY DEF BookForm, Backed, SnapsStay

\* An origin of either process is no missing file, nor is a torn one.
LEMMA OriginsThere ==
  /\ \A n : [by |-> "daemon", nth |-> n] # Absent
  /\ \A n : [by |-> "capture", nth |-> n] # Absent
  /\ Torn # Absent
  <1>1. \A n : [by |-> "daemon", nth |-> n].by # Absent.by
    BY DEF Absent
  <1>2. \A n : [by |-> "capture", nth |-> n].by # Absent.by
    BY DEF Absent
  <1>3. Torn.nth # Absent.nth
    BY DEF Absent, Torn
  <1> QED BY <1>1, <1>2, <1>3

\* Writing a snapshot file removes none.
LEMMA WriteSnap ==
  ASSUME snaps = [i \in Ids |-> snaps[i]], NEW id \in Ids, NEW v, v # Absent,
         snaps' = [snaps EXCEPT ![id] = v]
  PROVE  /\ SnapsStay /\ snaps' = [i \in Ids |-> snaps'[i]]
         /\ snaps'[id] = v /\ \A k \in Ids : k # id => snaps'[k] = snaps[k]
  BY DEF SnapsStay

\* A step that writes the manifest from a backed book keeps it backed.
LEMMA FillBook ==
  ASSUME NEW b, BookForm(b), manifest' \in Fill(b)
  PROVE  /\ manifest'.book = b \/ manifest'.book = Book(1, NoVms)
         /\ manifest.st = "torn" => manifest' = Whole(b)
  BY DEF Fill, Whole, TornFile

\* Every step keeps books and snapshots in order.
LEMMA BookStep == BookInv /\ [Next]_vars => BookInv'
  <1> SUFFICES ASSUME BookInv, [Next]_vars PROVE BookInv'
    OBVIOUS
  <1> USE DEF Reserved
  <1>0. BookForm(Book(1, NoVms)) /\ Known(Book(1, NoVms)) = {}
    BY EmptyBook
  <1>1. CASE DaemonStart
    BY <1>1 DEF BookInv, DaemonStart, LoadState, captureVars, Backed
  <1>2. CASE DaemonRun
    <2> DEFINE id == mem.next
               writer == [by |-> "daemon", nth |-> runs]
    <2>1. /\ id \in Ids /\ snaps' = [snaps EXCEPT ![id] = writer]
          /\ mem' = [Enter(mem, id, writer, "paused") EXCEPT !.next = id + 1]
          /\ UNCHANGED <<manifest, copy, cpc, cnew>>
      BY <1>2 DEF DaemonRun, captureVars
    <2>2. writer # Absent
      BY OriginsThere
    <2>3. id \in Nat /\ id + 1 \in Nat /\ \A k \in Known(mem) : k < id
      <3>1. mem.next \in Nat /\ \A k \in Known(mem) : k < mem.next
        BY NextAbove DEF BookInv
      <3> QED BY <3>1
    <2> DEFINE e == Book(id + 1, Enter(mem, id, writer, "paused").vms)
    <2>4. mem' = e
      BY <2>1 DEF Enter, Book, BookInv, BookForm
    <2>5. BookForm(e) /\ Known(e) = Known(mem) \cup {id}
      <3> HIDE DEF writer
      <3>1. BookForm(mem)
        BY DEF BookInv
      <3> HIDE DEF id
      <3> QED BY <2>1, <2>3, <3>1, EnterBook
    <2> HIDE DEF e, writer, id
    <2>6. /\ SnapsStay /\ snaps' = [i \in Ids |-> snaps'[i]] /\ snaps'[id] = writer
      BY <2>1, <2>2, WriteSnap DEF BookInv
    <2>7. /\ \A k \in Known(mem) : snaps'[k] # Absent
          /\ \A k \in Known(manifest.book) : snaps'[k] # Absent
          /\ \A k \in Known(copy) : snaps'[k] # Absent
      BY <2>6, StaysBacked DEF BookInv
    <2>8. BookForm(mem') /\ Backed(mem)'
      BY <2>2, <2>4, <2>5, <2>6, <2>7 DEF Backed
    <2> QED BY <2>1, <2>6, <2>7, <2>8 DEF BookInv, Backed
  <1>3. CASE DaemonRunFails
    <2>1. /\ mem.next \in Ids /\ mem' = [mem EXCEPT !.next = mem.next + 1]
          /\ snaps' = snaps \/ snaps' = [snaps EXCEPT ![mem.next] = Torn]
          /\ UNCHANGED <<manifest, copy, cpc, cnew>>
      BY <1>3 DEF DaemonRunFails, captureVars
    <2>2. SnapsStay /\ snaps' = [i \in Ids |-> snaps'[i]]
      <3>1. CASE snaps' = snaps
        BY <3>1 DEF BookInv, SnapsStay
      <3>2. CASE snaps' = [snaps EXCEPT ![mem.next] = Torn]
        BY <3>2, <2>1, OriginsThere, WriteSnap DEF BookInv
      <3> QED BY <2>1, <3>1, <3>2
    <2>3. BookForm(mem') /\ Known(mem') = Known(mem)
      <3>1. BookForm(mem) /\ mem.next + 1 \in Nat /\ mem.next < mem.next + 1
        BY DEF BookInv, BookForm
      <3> QED BY <2>1, <3>1, NextBook
    <2>4. /\ \A k \in Known(mem) : snaps'[k] # Absent
          /\ \A k \in Known(manifest.book) : snaps'[k] # Absent
          /\ \A k \in Known(copy) : snaps'[k] # Absent
      BY <2>2, StaysBacked DEF BookInv
    <2> QED BY <2>1, <2>2, <2>3, <2>4 DEF BookInv, Backed
  <1>4. ASSUME NEW id \in Ids, NEW status \in Statuses, DaemonEdit(id, status) PROVE BookInv'
    <2>1. /\ id \in Known(mem) /\ mem' = [mem EXCEPT !.vms[id].status = status]
          /\ UNCHANGED <<manifest, snaps, copy, cpc, cnew>>
      BY <1>4 DEF DaemonEdit, captureVars
    <2>2. BookForm(mem') /\ Known(mem') = Known(mem)
      BY <2>1, StatusBook DEF BookInv
    <2> QED BY <2>1, <2>2 DEF BookInv, Backed
  <1>5. ASSUME NEW id \in Ids, DaemonEditFails(id) PROVE BookInv'
    <2>1. snaps' = [snaps EXCEPT ![id] = Torn] /\ UNCHANGED <<manifest, mem, copy, cpc, cnew>>
      BY <1>5 DEF DaemonEditFails, captureVars
    <2>2. SnapsStay /\ snaps' = [i \in Ids |-> snaps'[i]]
      BY <2>1, OriginsThere, WriteSnap DEF BookInv
    <2>3. /\ \A k \in Known(mem) : snaps'[k] # Absent
          /\ \A k \in Known(manifest.book) : snaps'[k] # Absent
          /\ \A k \in Known(copy) : snaps'[k] # Absent
      BY <2>2, StaysBacked DEF BookInv
    <2> QED BY <2>1, <2>2, <2>3 DEF BookInv, Backed
  <1>6. CASE DaemonOpen
    BY <1>6, <1>0 DEF BookInv, DaemonOpen, captureVars, TornFile, Backed
  <1>7. CASE DaemonFill
    <2>1. manifest' \in Fill(mem) /\ UNCHANGED <<snaps, mem, copy, cpc, cnew>>
      BY <1>7 DEF DaemonFill, captureVars
    <2>2. manifest'.book = mem \/ manifest'.book = Book(1, NoVms)
      BY <2>1, FillBook DEF BookInv
    <2> QED BY <1>0, <2>1, <2>2 DEF BookInv, Backed
  <1>8. CASE DaemonSaveFails
    BY <1>8 DEF BookInv, DaemonSaveFails, captureVars, Backed
  <1>9. ASSUME NEW torn \in {{}} \cup {{id} : id \in Known(mem)}, DaemonStop(torn) PROVE BookInv'
    <2>1. /\ snaps' = [i \in Ids |-> IF i \in torn THEN Torn ELSE snaps[i]]
          /\ UNCHANGED <<manifest, mem, copy, cpc, cnew>>
      BY <1>9 DEF DaemonStop, captureVars
    <2>2. SnapsStay /\ snaps' = [i \in Ids |-> snaps'[i]]
      BY <2>1, OriginsThere DEF BookInv, SnapsStay
    <2>3. /\ \A k \in Known(mem) : snaps'[k] # Absent
          /\ \A k \in Known(manifest.book) : snaps'[k] # Absent
          /\ \A k \in Known(copy) : snaps'[k] # Absent
      BY <2>2, StaysBacked DEF BookInv
    <2> QED BY <2>1, <2>2, <2>3 DEF BookInv, Backed
  <1>10. CASE WrapRead
    <2> DEFINE id == manifest.book.next
    <2>1. FreeId(manifest.book) = id
      BY FreeIdNext DEF BookInv
    <2>2. /\ id \in Ids /\ copy' = [manifest.book EXCEPT !.next = id + 1]
          /\ cnew' = [id |-> id, origin |-> [by |-> "capture", nth |-> wraps]]
          /\ UNCHANGED <<manifest, snaps, mem>>
      BY <1>10, <2>1 DEF WrapRead, daemonVars
    <2>3. id \in Nat /\ id + 1 \in Nat /\ id < id + 1 /\ \A k \in Known(manifest.book) : k < id
      <3>1. id \in Nat /\ \A k \in Known(manifest.book) : k < id
        BY DEF BookInv, BookForm
      <3> HIDE DEF id
      <3> QED BY <3>1
    <2>4. /\ BookForm(copy') /\ Known(copy') = Known(manifest.book) /\ copy'.next = id + 1
      BY <2>2, <2>3, NextBook DEF BookInv
    <2>5. cnew'.id = id /\ cnew'.origin # Absent
      BY <2>2, OriginsThere
    <2> HIDE DEF id
    <2>6. Reserved'
      BY <2>2, <2>3, <2>4, <2>5
    <2> QED BY <2>2, <2>4, <2>6 DEF BookInv, Backed
  <1>11. CASE WrapRefused
    BY <1>11 DEF BookInv, WrapRefused, daemonVars, Backed
  <1>12. CASE WrapSnapshot
    <2> DEFINE id == cnew.id
               e == Book(id + 1, Enter(copy, id, cnew.origin, "paused").vms)
    <2>1. /\ id \in Ids /\ cnew.origin # Absent /\ copy.next = id + 1
          /\ \A k \in Known(copy) : k < id
          /\ snaps' = [snaps EXCEPT ![id] = cnew.origin]
          /\ copy' = Enter(copy, id, cnew.origin, "paused") /\ cpc' = "write"
          /\ UNCHANGED <<manifest, mem, cnew>>
      BY <1>12 DEF WrapSnapshot, daemonVars, BookInv
    <2>2. copy' = e
      BY <2>1 DEF Enter, Book, BookInv, BookForm
    <2>3. BookForm(e) /\ Known(e) = Known(copy) \cup {id}
      <3>1. BookForm(copy) /\ id + 1 \in Nat
        BY <2>1 DEF BookInv, BookForm, Ids
      <3> HIDE DEF id
      <3> QED BY <2>1, <3>1, EnterBook
    <2> HIDE DEF e, id
    <2>4. SnapsStay /\ snaps' = [i \in Ids |-> snaps'[i]] /\ snaps'[id] # Absent
      BY <2>1, WriteSnap DEF BookInv
    <2>5. /\ \A k \in Known(mem) : snaps'[k] # Absent
          /\ \A k \in Known(manifest.book) : snaps'[k] # Absent
          /\ \A k \in Known(copy) : snaps'[k] # Absent
      BY <2>4, StaysBacked DEF BookInv
    <2>6. BookForm(copy') /\ Backed(copy)'
      BY <2>2, <2>3, <2>4, <2>5 DEF Backed
    <2> QED BY <2>1, <2>4, <2>5, <2>6 DEF BookInv, Backed
  <1>13. ASSUME NEW id \in Ids, StatusRead(id) PROVE BookInv'
    <2>1. /\ id \in Known(manifest.book) /\ copy' = [manifest.book EXCEPT !.vms[id].status = "paused"]
          /\ cpc' = "write" /\ UNCHANGED <<manifest, snaps, mem>>
      BY <1>13 DEF StatusRead, daemonVars
    <2>2. BookForm(copy') /\ Known(copy') = Known(manifest.book)
      BY <2>1, StatusBook DEF BookInv
    <2> QED BY <2>1, <2>2 DEF BookInv, Backed
  <1>14. CASE CaptureOpen
    BY <1>14, <1>0 DEF BookInv, CaptureOpen, daemonVars, TornFile, Backed
  <1>15. CASE CaptureFill
    <2>1. manifest' \in Fill(copy) /\ cpc' = "idle" /\ UNCHANGED <<snaps, mem, copy>>
      BY <1>15 DEF CaptureFill, daemonVars
    <2>2. manifest'.book = copy \/ manifest'.book = Book(1, NoVms)
      BY <2>1, FillBook DEF BookInv
    <2> QED BY <1>0, <2>1, <2>2 DEF BookInv, Backed
  <1>16. CASE CaptureFails
    <2>1. /\ snaps' = snaps \/ (cpc = "snap" /\ snaps' = [snaps EXCEPT ![cnew.id] = Torn])
          /\ cpc' = "idle" /\ UNCHANGED <<manifest, mem, copy>>
      BY <1>16 DEF CaptureFails, daemonVars
    <2>2. SnapsStay /\ snaps' = [i \in Ids |-> snaps'[i]]
      <3>1. CASE snaps' = snaps
        BY <3>1 DEF BookInv, SnapsStay
      <3>2. CASE cpc = "snap" /\ snaps' = [snaps EXCEPT ![cnew.id] = Torn]
        BY <3>2, OriginsThere, WriteSnap DEF BookInv
      <3> QED BY <2>1, <3>1, <3>2
    <2>3. /\ \A k \in Known(mem) : snaps'[k] # Absent
          /\ \A k \in Known(manifest.book) : snaps'[k] # Absent
          /\ \A k \in Known(copy) : snaps'[k] # Absent
      BY <2>2, StaysBacked DEF BookInv
    <2> QED BY <2>1, <2>2, <2>3 DEF BookInv, Backed
  <1>17. CASE UNCHANGED vars
    BY <1>17 DEF BookInv, vars, daemonVars, captureVars, Backed
  <1> QED
    BY <1>1, <1>2, <1>3, <1>4, <1>5, <1>6, <1>7, <1>8, <1>9, <1>10, <1>11, <1>12, <1>13,
       <1>14, <1>15, <1>16, <1>17 DEF Next, Daemon, CaptureTool

\* At first there is nothing in the books.
LEMMA BookFirst == Init => BookInv
  BY EmptyBook DEF Init, BookInv, NoFile, Backed, Reserved

\* Whoever wrote it and however the processes raced or failed, the manifest never
\* names a VM that has no snapshot file.
THEOREM RecordsHaveSnapshots == Spec => []RecordHasSnapshot
  <1>1. BookInv => RecordHasSnapshot
    BY DEF BookInv, Backed, RecordHasSnapshot
  <1> QED BY <1>1, BookFirst, BookStep, PTL DEF Spec

-----------------------------------------------------------------------------
(* What a race is needed for.                                               *)

\* A snapshot file of its own or a torn one.
Kept(m) == m.id \in Ids /\ snaps[m.id] \in {m.origin, Torn}
AllListed(b) == \A m \in made : Listed(m, b)

FlagsInv ==
  /\ {up, stale, raced, refused} \subseteq BOOLEAN /\ faults \in Nat
  /\ dpc # "idle" => up = TRUE

\* Without a race one process at a time changes the manifest, from a copy that
\* lists every acknowledged VM, and leaves it readable unless it failed.
QuietInv ==
  /\ dpc = "idle" \/ cpc = "idle"
  /\ manifest.st # "torn" => AllListed(manifest.book)
  /\ up = TRUE /\ stale = FALSE => AllListed(mem)
  /\ dpc # "idle" => stale = FALSE /\ (dnew # Nothing => Listed(dnew, mem) /\ Kept(dnew))
  /\ cpc # "idle" => AllListed(copy)
  /\ cpc \in {"write", "fill"} => (cnew # Nothing => Listed(cnew, copy) /\ Kept(cnew))
  /\ \A m \in made : Kept(m)
  /\ cpc = "fill" => manifest.st = "torn" /\ stale = TRUE
  /\ dpc = "fill" => manifest.st = "torn"
  /\ manifest.st = "torn" => faults > 0 \/ dpc = "fill" \/ cpc = "fill"
  /\ refused = TRUE => faults > 0

RaceInv == FlagsInv /\ (raced = FALSE => QuietInv)

\* The daemon races unless its copy is fresh and aeon-sync is not at it.
LEMMA DaemonRaces ==
  ASSUME FlagsInv, DaemonBegins
  PROVE  /\ raced' \in BOOLEAN /\ stale' = stale
         /\ raced' = FALSE => raced = FALSE /\ stale = FALSE /\ cpc = "idle"
  <1>1. raced \in BOOLEAN /\ stale \in BOOLEAN
    BY DEF FlagsInv
  <1> QED BY <1>1, Zenon DEF DaemonBegins

\* aeon-sync races unless the daemon is not at it.
LEMMA CaptureRaces ==
  ASSUME FlagsInv, CaptureBegins
  PROVE  /\ raced' \in BOOLEAN /\ stale' = stale
         /\ raced' = FALSE => raced = FALSE /\ dpc = "idle"
  <1>1. raced \in BOOLEAN /\ stale \in BOOLEAN
    BY DEF FlagsInv
  <1> QED BY <1>1, Zenon DEF CaptureBegins

\* What a step does to snapshots that are kept.
LEMMA TornKept ==
  ASSUME NEW m, Kept(m),
         \A k \in Ids : snaps'[k] = snaps[k] \/ snaps'[k] = Torn
  PROVE  snaps'[m.id] \in {m.origin, Torn}
  BY DEF Kept

\* The flags stay flags, and a command is under way only in a running daemon.
LEMMA FlagsStep == FlagsInv /\ [Next]_vars => FlagsInv'
  <1> SUFFICES ASSUME FlagsInv, [Next]_vars PROVE FlagsInv'
    OBVIOUS
  <1>1. ASSUME DaemonBegins, refused' = refused, faults' \in Nat, up' = up, dpc' # "idle" => up = TRUE
        PROVE  FlagsInv'
    BY <1>1, DaemonRaces DEF FlagsInv
  <1>2. ASSUME CaptureBegins, refused' = refused, faults' = faults, up' = up, dpc' = dpc
        PROVE  FlagsInv'
    BY <1>2, CaptureRaces DEF FlagsInv
  <1>3. CASE DaemonStart
    BY <1>3 DEF FlagsInv, DaemonStart, captureVars
  <1>4. CASE DaemonRun
    BY <1>1, <1>4 DEF FlagsInv, DaemonRun, captureVars
  <1>5. CASE DaemonRunFails
    BY <1>1, <1>5 DEF FlagsInv, DaemonRunFails, captureVars
  <1>6. ASSUME NEW id \in Ids, NEW status \in Statuses, DaemonEdit(id, status) PROVE FlagsInv'
    BY <1>1, <1>6 DEF FlagsInv, DaemonEdit, captureVars
  <1>7. ASSUME NEW id \in Ids, DaemonEditFails(id) PROVE FlagsInv'
    BY <1>1, <1>7 DEF FlagsInv, DaemonEditFails, captureVars
  <1>8. CASE DaemonOpen
    BY <1>8 DEF FlagsInv, DaemonOpen, captureVars
  <1>9. CASE DaemonFill
    BY <1>9 DEF FlagsInv, DaemonFill, captureVars
  <1>10. CASE DaemonSaveFails
    BY <1>10 DEF FlagsInv, DaemonSaveFails, captureVars
  <1>11. ASSUME NEW torn, DaemonStop(torn) PROVE FlagsInv'
    <2>1. /\ faults' = faults + 1 /\ up' = FALSE /\ dpc' = "idle"
          /\ UNCHANGED <<refused, stale, raced>>
      BY <1>11 DEF DaemonStop, captureVars
    <2>2. {up', stale', raced', refused'} \subseteq BOOLEAN
      BY <2>1 DEF FlagsInv
    <2>3. faults' \in Nat
      BY <2>1 DEF FlagsInv
    <2> QED BY <2>1, <2>2, <2>3 DEF FlagsInv
  <1>12. CASE WrapRead
    BY <1>2, <1>12 DEF FlagsInv, WrapRead, daemonVars
  <1>13. CASE WrapRefused
    <2>1. refused' \in BOOLEAN
      BY <1>13, Zenon DEF WrapRefused
    <2> QED BY <1>13, <2>1 DEF FlagsInv, WrapRefused, daemonVars
  <1>14. CASE WrapSnapshot
    BY <1>14 DEF FlagsInv, WrapSnapshot, daemonVars
  <1>15. ASSUME NEW id \in Ids, StatusRead(id) PROVE FlagsInv'
    BY <1>2, <1>15 DEF FlagsInv, StatusRead, daemonVars
  <1>16. CASE CaptureOpen
    BY <1>16 DEF FlagsInv, CaptureOpen, daemonVars
  <1>17. CASE CaptureFill
    BY <1>17 DEF FlagsInv, CaptureFill, daemonVars
  <1>18. CASE CaptureFails
    BY <1>18 DEF FlagsInv, CaptureFails, daemonVars
  <1>19. CASE UNCHANGED vars
    BY <1>19 DEF FlagsInv, vars, daemonVars, captureVars
  <1> QED
    BY <1>3, <1>4, <1>5, <1>6, <1>7, <1>8, <1>9, <1>10, <1>11, <1>12, <1>13, <1>14, <1>15,
       <1>16, <1>17, <1>18, <1>19 DEF Next, Daemon, CaptureTool

\* The daemon's steps, as long as there is no race, keep the VMs.
LEMMA DaemonQuiet ==
  ASSUME BookInv, RaceInv, Daemon, raced' = FALSE
  PROVE  QuietInv'
  <1>0. FlagsInv
    BY DEF RaceInv
  <1> USE DEF AllListed
  <1>1. CASE DaemonStart
    BY <1>1 DEF RaceInv, FlagsInv, QuietInv, DaemonStart, LoadState, captureVars, Kept
  <1>2. CASE DaemonRun
    <2> DEFINE id == mem.next
               writer == [by |-> "daemon", nth |-> runs]
               e == Book(id + 1, Enter(mem, id, writer, "paused").vms)
    <2>1. /\ id \in Ids /\ snaps' = [snaps EXCEPT ![id] = writer] /\ up = TRUE /\ dpc = "idle"
          /\ mem' = [Enter(mem, id, writer, "paused") EXCEPT !.next = id + 1]
          /\ dnew' = [id |-> id, origin |-> writer] /\ dpc' = "write" /\ DaemonBegins
          /\ UNCHANGED <<manifest, up, copy, cpc, cnew, refused, faults, made>>
      BY <1>2, <1>0 DEF DaemonRun, captureVars, FlagsInv
    <2>2. QuietInv /\ stale = FALSE /\ stale' = FALSE /\ cpc = "idle"
      BY <2>1, <1>0, DaemonRaces DEF RaceInv
    <2>3. id \in Nat /\ id + 1 \in Nat /\ \A k \in Known(mem) : k < id
      <3>1. mem.next \in Nat /\ \A k \in Known(mem) : k < mem.next
        BY NextAbove DEF BookInv
      <3> QED BY <3>1
    <2>4. mem' = e
      BY <2>1 DEF Enter, Book, BookInv, BookForm
    <2>5. /\ Known(e) = Known(mem) \cup {id} /\ e.vms[id].origin = writer
          /\ \A k \in Known(mem) : e.vms[k] = mem.vms[k]
      <3> HIDE DEF writer
      <3>1. BookForm(mem)
        BY DEF BookInv
      <3> HIDE DEF id
      <3> QED BY <2>1, <2>3, <3>1, EnterBook
    <2>6. dnew'.id = id /\ dnew'.origin = writer
      BY <2>1
    <2> HIDE DEF e, writer, id
    <2>7. snaps'[id] = writer /\ \A k \in Ids : k # id => snaps'[k] = snaps[k]
      BY <2>1, OriginsThere, WriteSnap DEF BookInv, writer
    <2>8. ASSUME NEW m \in made
          PROVE  Listed(m, mem)' /\ Kept(m)'
      <3>1. Listed(m, mem) /\ Kept(m)
        BY <2>1, <2>2 DEF QuietInv
      <3>2. m.id \in Ids /\ m.id < id
        BY <3>1, <2>3 DEF Listed, BookInv, BookForm
      <3>3. m.id # id
        BY <3>2, <2>3
      <3> QED BY <3>1, <3>2, <3>3, <2>4, <2>5, <2>7 DEF Listed, Kept
    <2>9. Listed(dnew', mem') /\ Kept(dnew)'
      BY <2>1, <2>4, <2>5, <2>6, <2>7 DEF Listed, Kept
    <2> QED BY <2>1, <2>2, <2>8, <2>9 DEF QuietInv
  <1>3. CASE DaemonRunFails
    <2>1. /\ mem.next \in Ids /\ mem' = [mem EXCEPT !.next = mem.next + 1]
          /\ snaps' = snaps \/ snaps' = [snaps EXCEPT ![mem.next] = Torn]
          /\ dpc = "idle" /\ DaemonBegins /\ faults' = faults + 1
          /\ UNCHANGED <<manifest, up, dpc, dnew, copy, cpc, cnew, refused, made>>
      BY <1>3 DEF DaemonRunFails, captureVars
    <2>2. QuietInv /\ stale = FALSE /\ stale' = FALSE /\ cpc = "idle"
      BY <2>1, <1>0, DaemonRaces DEF RaceInv
    <2>3. mem'.vms = mem.vms /\ Known(mem') = Known(mem)
      <3>1. BookForm(mem) /\ mem.next \in Nat
        BY NextAbove DEF BookInv
      <3>2. mem.next + 1 \in Nat /\ mem.next < mem.next + 1
        BY <3>1
      <3> QED BY <2>1, <3>1, <3>2, NextBook
    <2>4. \A k \in Ids : snaps'[k] = snaps[k] \/ snaps'[k] = Torn
      BY <2>1 DEF BookInv
    <2>5. \A m : Listed(m, mem) => m.id \in Ids /\ Listed(m, mem)'
      BY <2>3 DEF Listed, BookInv, BookForm
    <2>6. ASSUME NEW m \in made PROVE Kept(m)'
      <3>1. CASE up = TRUE
        BY <3>1, <2>2, <2>4, <2>5, TornKept DEF QuietInv, Kept
      <3>2. up = TRUE
        BY <1>3, <1>0 DEF DaemonRunFails, FlagsInv
      <3> QED BY <3>1, <3>2
    <2>7. faults' \in Nat /\ faults' > 0
      BY <2>1, <1>0 DEF FlagsInv
    <2> QED BY <2>1, <2>2, <2>5, <2>6, <2>7 DEF QuietInv
  <1>4. ASSUME NEW id \in Ids, NEW status \in Statuses, DaemonEdit(id, status) PROVE QuietInv'
    <2>1. /\ id \in Known(mem) /\ mem' = [mem EXCEPT !.vms[id].status = status]
          /\ dnew' = Nothing /\ dpc' = "write" /\ dpc = "idle" /\ DaemonBegins
          /\ UNCHANGED <<manifest, snaps, up, copy, cpc, cnew, refused, faults, made>>
      BY <1>4 DEF DaemonEdit, captureVars
    <2>2. QuietInv /\ stale = FALSE /\ stale' = FALSE /\ cpc = "idle"
      BY <2>1, <1>0, DaemonRaces DEF RaceInv
    <2>3. \A m : Listed(m, mem) => Listed(m, mem)'
      BY <2>1, StatusBook DEF BookInv, Listed
    <2> QED BY <2>1, <2>2, <2>3 DEF QuietInv, Kept
  <1>5. ASSUME NEW id \in Ids, DaemonEditFails(id) PROVE QuietInv'
    <2>1. /\ snaps' = [snaps EXCEPT ![id] = Torn] /\ dpc = "idle" /\ DaemonBegins
          /\ faults' = faults + 1 /\ up = TRUE
          /\ UNCHANGED <<manifest, up, mem, dpc, dnew, copy, cpc, cnew, refused, made>>
      BY <1>5, <1>0 DEF DaemonEditFails, captureVars, FlagsInv
    <2>2. QuietInv /\ stale = FALSE /\ stale' = FALSE /\ cpc = "idle"
      BY <2>1, <1>0, DaemonRaces DEF RaceInv
    <2>3. \A k \in Ids : snaps'[k] = snaps[k] \/ snaps'[k] = Torn
      BY <2>1 DEF BookInv
    <2>4. ASSUME NEW m \in made PROVE Kept(m)'
      <3>1. m.id \in Ids /\ Kept(m)
        BY <2>1, <2>2 DEF QuietInv, Listed, BookInv, BookForm
      <3> QED BY <3>1, <2>1, <2>3, TornKept DEF Kept
    <2>5. faults' \in Nat /\ faults' > 0
      BY <2>1, <1>0 DEF FlagsInv
    <2> QED BY <2>1, <2>2, <2>4, <2>5 DEF QuietInv, Listed
  <1>6. CASE DaemonOpen
    <2>1. QuietInv
      BY <1>6 DEF DaemonOpen, RaceInv
    <2> QED BY <1>6, <2>1 DEF QuietInv, DaemonOpen, captureVars, TornFile, Kept, Listed
  <1>7. CASE DaemonFill
    <2>1. /\ manifest' \in Fill(mem) /\ dpc = "fill" /\ up = TRUE
          /\ made' = IF dnew = Nothing THEN made ELSE made \cup {dnew}
          /\ dpc' = "idle" /\ dnew' = Nothing
          /\ UNCHANGED <<snaps, up, mem, copy, cpc, cnew, refused, faults, stale, raced>>
      BY <1>7, <1>0 DEF DaemonFill, captureVars, FlagsInv
    <2>2. QuietInv
      BY <2>1 DEF RaceInv
    <2>3. manifest' = Whole(mem) /\ cpc = "idle" /\ stale = FALSE
      BY <2>1, <2>2, FillBook DEF QuietInv, BookInv
    <2>4. manifest'.book = mem /\ manifest'.st = "whole"
      BY <2>3 DEF Whole
    <2>5. \A m \in made' : Listed(m, mem) /\ Kept(m)
      BY <2>1, <2>2, <2>3 DEF QuietInv
    <2>6. \A m \in made' : Listed(m, mem') /\ Listed(m, manifest'.book) /\ Kept(m)'
      BY <2>1, <2>4, <2>5 DEF Kept
    <2> QED BY <2>1, <2>2, <2>3, <2>4, <2>6 DEF QuietInv
  <1>8. CASE DaemonSaveFails
    <2>1. QuietInv
      BY <1>8 DEF DaemonSaveFails, RaceInv
    <2>2. faults' \in Nat /\ faults' > 0
      BY <1>8, <1>0 DEF DaemonSaveFails, FlagsInv
    <2> QED BY <1>8, <2>1, <2>2 DEF QuietInv, DaemonSaveFails, captureVars, Kept, Listed
  <1>9. ASSUME NEW torn \in {{}} \cup {{id} : id \in Known(mem)}, DaemonStop(torn) PROVE QuietInv'
    <2>1. /\ snaps' = [i \in Ids |-> IF i \in torn THEN Torn ELSE snaps[i]]
          /\ faults' = faults + 1 /\ up' = FALSE /\ dpc' = "idle"
          /\ UNCHANGED <<manifest, mem, copy, cpc, cnew, refused, made, stale, raced>>
      BY <1>9 DEF DaemonStop, captureVars
    <2>2. QuietInv
      BY <2>1 DEF RaceInv
    <2>3. \A k \in Ids : snaps'[k] = snaps[k] \/ snaps'[k] = Torn
      BY <2>1
    <2>4. faults' \in Nat /\ faults' > 0
      BY <2>1, <1>0 DEF FlagsInv
    <2>5. ASSUME NEW m \in made PROVE Kept(m)'
      BY <2>2, <2>3, TornKept DEF QuietInv, Kept
    <2>6. cpc \in {"write", "fill"} /\ cnew # Nothing => Kept(cnew)'
      <3> SUFFICES ASSUME cpc \in {"write", "fill"}, cnew # Nothing PROVE Kept(cnew)'
        OBVIOUS
      <3>1. cnew.id \in Ids /\ Kept(cnew)
        BY <2>2 DEF QuietInv, Listed, BookInv, BookForm
      <3> QED BY <3>1, <2>1, <2>3, TornKept DEF Kept
    <2> QED BY <2>1, <2>2, <2>4, <2>5, <2>6 DEF QuietInv, Listed
  <1> QED
    BY <1>1, <1>2, <1>3, <1>4, <1>5, <1>6, <1>7, <1>8, <1>9 DEF Daemon

\* So do the steps of aeon-sync.
LEMMA CaptureQuiet ==
  ASSUME BookInv, RaceInv, CaptureTool, raced' = FALSE
  PROVE  QuietInv'
  <1>0. FlagsInv
    BY DEF RaceInv
  <1> USE DEF AllListed
  <1>1. CASE WrapRead
    <2> DEFINE id == manifest.book.next
    <2>1. /\ cpc = "idle" /\ cpc' = "snap" /\ manifest.st # "torn" /\ CaptureBegins
          /\ copy' = [manifest.book EXCEPT !.next = FreeId(manifest.book) + 1]
          /\ UNCHANGED <<manifest, snaps, up, mem, dpc, dnew, refused, faults, made>>
      BY <1>1 DEF WrapRead, daemonVars
    <2>2. QuietInv /\ dpc = "idle" /\ stale' = stale
      BY <2>1, <1>0, CaptureRaces DEF RaceInv
    <2>3. FreeId(manifest.book) = id
      BY FreeIdNext DEF BookInv
    <2>4. copy'.vms = manifest.book.vms /\ Known(copy') = Known(manifest.book)
      <3>1. BookForm(manifest.book) /\ id \in Nat
        BY NextAbove DEF BookInv
      <3>2. id + 1 \in Nat /\ id < id + 1
        BY <3>1
      <3> QED BY <2>1, <2>3, <3>1, <3>2, NextBook
    <2>5. \A m \in made : Listed(m, copy')
      BY <2>1, <2>2, <2>4 DEF QuietInv, Listed
    <2> QED BY <2>1, <2>2, <2>5 DEF QuietInv, Kept, Listed
  <1>2. CASE WrapRefused
    <2>1. /\ cpc = "idle" /\ manifest.st = "torn" /\ refused' = (refused \/ dpc # "fill")
          /\ UNCHANGED <<manifest, snaps, daemonVars, copy, cpc, cnew, faults, made, stale, raced>>
      BY <1>2 DEF WrapRefused
    <2>2. QuietInv
      BY <2>1 DEF RaceInv
    <2>3. refused' = TRUE => refused = TRUE \/ dpc # "fill"
      <3>1. refused \in BOOLEAN
        BY <1>0 DEF FlagsInv
      <3> QED BY <2>1, <3>1, Zenon
    <2>4. refused' = TRUE => faults > 0
      BY <2>1, <2>2, <2>3 DEF QuietInv
    <2> QED BY <2>1, <2>2, <2>4 DEF QuietInv, daemonVars, Kept, Listed
  <1>3. CASE WrapSnapshot
    <2> DEFINE id == cnew.id
               e == Book(id + 1, Enter(copy, id, cnew.origin, "paused").vms)
    <2>1. /\ id \in Ids /\ cnew.origin # Absent /\ copy.next = id + 1
          /\ \A k \in Known(copy) : k < id
          /\ snaps' = [snaps EXCEPT ![id] = cnew.origin]
          /\ copy' = Enter(copy, id, cnew.origin, "paused") /\ cpc = "snap" /\ cpc' = "write"
          /\ UNCHANGED <<manifest, up, mem, dpc, dnew, cnew, refused, faults, made, stale, raced>>
      BY <1>3 DEF WrapSnapshot, daemonVars, BookInv, Reserved
    <2>2. QuietInv /\ dpc = "idle"
      BY <2>1 DEF RaceInv, QuietInv
    <2>3. copy' = e
      BY <2>1 DEF Enter, Book, BookInv, BookForm
    <2>4. /\ Known(e) = Known(copy) \cup {id} /\ e.vms[id].origin = cnew.origin
          /\ \A k \in Known(copy) : e.vms[k] = copy.vms[k]
      <3>1. BookForm(copy) /\ id + 1 \in Nat
        BY <2>1 DEF BookInv, BookForm, Ids
      <3> HIDE DEF id
      <3> QED BY <2>1, <3>1, EnterBook
    <2> HIDE DEF e
    <2>5. snaps'[id] = cnew.origin /\ \A k \in Ids : k # id => snaps'[k] = snaps[k]
      BY <2>1, WriteSnap DEF BookInv
    <2>6. ASSUME NEW m \in made
          PROVE  Listed(m, copy') /\ Kept(m)'
      <3>1. Listed(m, copy) /\ Kept(m)
        BY <2>1, <2>2 DEF QuietInv
      <3>2. m.id # id
        <4>1. m.id < id /\ id \in Nat
          BY <2>1, <3>1 DEF Listed, Ids
        <4> QED BY <4>1
      <3> QED BY <3>1, <3>2, <2>3, <2>4, <2>5 DEF Listed, Kept
    <2>7. Listed(cnew, copy') /\ Kept(cnew)'
      BY <2>1, <2>3, <2>4, <2>5 DEF Listed, Kept
    <2> QED BY <2>1, <2>2, <2>6, <2>7 DEF QuietInv, Listed
  <1>4. ASSUME NEW id \in Ids, StatusRead(id) PROVE QuietInv'
    <2>1. /\ id \in Known(manifest.book) /\ copy' = [manifest.book EXCEPT !.vms[id].status = "paused"]
          /\ cpc = "idle" /\ cpc' = "write" /\ cnew' = Nothing /\ manifest.st = "whole"
          /\ CaptureBegins
          /\ UNCHANGED <<manifest, snaps, up, mem, dpc, dnew, refused, faults, made>>
      BY <1>4 DEF StatusRead, daemonVars
    <2>2. QuietInv /\ dpc = "idle" /\ stale' = stale
      BY <2>1, <1>0, CaptureRaces DEF RaceInv
    <2>3. \A m : Listed(m, manifest.book) => Listed(m, copy')
      BY <2>1, StatusBook DEF BookInv, Listed
    <2> QED BY <2>1, <2>2, <2>3 DEF QuietInv, Kept, Listed
  <1>5. CASE CaptureOpen
    <2>1. QuietInv
      BY <1>5 DEF CaptureOpen, RaceInv
    <2> QED BY <1>5, <2>1 DEF QuietInv, CaptureOpen, daemonVars, TornFile, Kept, Listed
  <1>6. CASE CaptureFill
    <2>1. /\ manifest' \in Fill(copy) /\ cpc = "fill"
          /\ made' = IF cnew = Nothing THEN made ELSE made \cup {cnew}
          /\ cpc' = "idle" /\ cnew' = Nothing
          /\ UNCHANGED <<snaps, up, mem, dpc, dnew, copy, refused, faults, stale, raced>>
      BY <1>6 DEF CaptureFill, daemonVars
    <2>2. QuietInv
      BY <2>1 DEF RaceInv
    <2>3. manifest' = Whole(copy) /\ dpc = "idle" /\ stale = TRUE
      BY <2>1, <2>2, FillBook DEF QuietInv, BookInv
    <2>4. manifest'.book = copy /\ manifest'.st = "whole"
      BY <2>3 DEF Whole
    <2>5. \A m \in made' : Listed(m, copy) /\ Kept(m)
      BY <2>1, <2>2, <2>3 DEF QuietInv
    <2>6. \A m \in made' : Listed(m, manifest'.book) /\ Kept(m)'
      BY <2>1, <2>4, <2>5 DEF Kept
    <2> QED BY <2>1, <2>2, <2>3, <2>4, <2>6 DEF QuietInv
  <1>7. CASE CaptureFails
    <2>1. /\ snaps' = snaps \/ (cpc = "snap" /\ snaps' = [snaps EXCEPT ![cnew.id] = Torn])
          /\ cpc # "idle" /\ cpc' = "idle" /\ faults' = faults + 1
          /\ UNCHANGED <<manifest, up, mem, dpc, dnew, copy, refused, made, stale, raced>>
      BY <1>7 DEF CaptureFails, daemonVars
    <2>2. QuietInv /\ dpc = "idle"
      BY <2>1 DEF RaceInv, QuietInv
    <2>3. \A k \in Ids : snaps'[k] = snaps[k] \/ snaps'[k] = Torn
      BY <2>1 DEF BookInv
    <2>4. ASSUME NEW m \in made PROVE Kept(m)'
      BY <2>2, <2>3, TornKept DEF QuietInv, Kept
    <2>5. faults' \in Nat /\ faults' > 0
      BY <2>1, <1>0 DEF FlagsInv
    <2> QED BY <2>1, <2>2, <2>4, <2>5 DEF QuietInv, Listed
  <1> QED
    BY <1>1, <1>2, <1>3, <1>4, <1>5, <1>6, <1>7 DEF CaptureTool

\* What holds without a race holds as long as there has been none.
LEMMA RaceStep == BookInv /\ RaceInv /\ [Next]_vars => RaceInv'
  <1> SUFFICES ASSUME BookInv, RaceInv, [Next]_vars PROVE RaceInv'
    OBVIOUS
  <1>1. FlagsInv'
    BY FlagsStep DEF RaceInv
  <1>2. ASSUME raced' = FALSE PROVE QuietInv'
    <2>1. CASE UNCHANGED vars
      BY <2>1, <1>2 DEF vars, daemonVars, captureVars, RaceInv, QuietInv, AllListed, Listed, Kept
    <2> QED BY <1>2, <2>1, DaemonQuiet, CaptureQuiet DEF Next
  <1> QED BY <1>1, <1>2 DEF RaceInv

\* Nothing has happened at first.
LEMMA RaceFirst == Init => RaceInv
  <1> SUFFICES ASSUME Init PROVE RaceInv
    OBVIOUS
  <1>1. FlagsInv
    BY DEF Init, FlagsInv
  <1>2. manifest.st = "absent"
    BY DEF Init, NoFile
  <1>3. QuietInv
    BY <1>2 DEF Init, QuietInv, AllListed
  <1> QED BY <1>1, <1>3 DEF RaceInv

\* Without a race an acknowledged VM is listed, its snapshot is its own, and no
\* capture is refused before something failed.
LEMMA RaceImplies == RaceInv => LostOnlyByRace
  <1> SUFFICES ASSUME RaceInv, ~raced PROVE /\ AckedVmsListed
                                            /\ \A m \in made : snaps[m.id] \in {m.origin, Torn}
                                            /\ refused => faults > 0
    BY Zenon DEF LostOnlyByRace
  <1>1. raced = FALSE /\ (refused = TRUE \/ refused = FALSE)
    BY Zenon DEF RaceInv, FlagsInv
  <1>2. QuietInv
    BY <1>1 DEF RaceInv
  <1>3. AckedVmsListed
    BY <1>2 DEF QuietInv, AllListed, Listed, AckedVmsListed
  <1>4. \A m \in made : snaps[m.id] \in {m.origin, Torn}
    BY <1>2 DEF QuietInv, Kept
  <1>5. refused => faults > 0
    BY <1>1, <1>2 DEF QuietInv
  <1> QED BY <1>3, <1>4, <1>5

\* It takes the daemon and aeon-sync changing the manifest behind each other's
\* back to lose an acknowledged VM or its snapshot, whatever fails or restarts.
THEOREM LostByRaceAlone == Spec => []LostOnlyByRace
  <1>1. Init => BookInv /\ RaceInv
    BY BookFirst, RaceFirst
  <1>2. BookInv /\ RaceInv /\ [Next]_vars => BookInv' /\ RaceInv'
    BY BookStep, RaceStep
  <1> QED BY <1>1, <1>2, RaceImplies, PTL DEF Spec

-----------------------------------------------------------------------------
(* The dirty pages of the machine.                                          *)

\* A byte on a page that is not dirty is the one of the last snapshot.
CleanPagesAgree == \A a \in Addr : Page(a) \notin dirty => vm.heap[a] = snap.heap[a]

\* Do the pages of what an instruction leaves cover what it wrote to the heap of m?
Covers(m, left) == \A a \in Addr : Page(a) \notin left.pages => left.vm.heap[a] = m.heap[a]

\* A write to a range of the heap is covered by the pages of the range (COWHeap::write).
LEMMA WriteCovered ==
  ASSUME NEW m, NEW cpu, NEW addr, NEW bytes
  PROVE  Covers(m, RanWith(cpu, WriteHeap(m.heap, addr, bytes), PagesOf(addr, Len(bytes))))
<1>1. \A a \in Addr : WriteHeap(m.heap, addr, bytes)[a] =
        IF a \in addr..(addr + Len(bytes) - 1) THEN bytes[a - addr + 1] ELSE m.heap[a]
  BY DEF WriteHeap
<1>2. \A a : a \in addr..(addr + Len(bytes) - 1) => Page(a) \in PagesOf(addr, Len(bytes))
  BY DEF PagesOf
<1>3. \A a \in Addr : Page(a) \notin PagesOf(addr, Len(bytes))
        => WriteHeap(m.heap, addr, bytes)[a] = m.heap[a]
  BY <1>1, <1>2
<1> QED BY <1>3 DEF Covers, RanWith

\* An instruction that leaves the heap alone is covered.
LEMMA NoWriteCovered ==
  ASSUME NEW m
  PROVE  /\ \A result : Covers(m, Stopped(m, result))
         /\ \A cpu : Covers(m, Ran(m, cpu))
         /\ \A pc : Covers(m, Goto(m, pc))
  BY DEF Covers, Stopped, Ran, RanWith, Goto

\* Reading a file: the bytes read are what is written to the heap.
LEMMA ReadFileCovered ==
  ASSUME NEW m, NEW fd, NEW addr, NEW count
  PROVE  Covers(m, ReadFile(m, fd, addr, count))
  BY WriteCovered, Zenon DEF ReadFile

\* The system calls (VMState::handle_syscall): only reading a file writes to the heap.
LEMMA SyscallCovered ==
  ASSUME NEW m, NEW num
  PROVE  Covers(m, Syscall(m, num))
<1>1. \A path, writable : Covers(m, Open(m, path, writable))
  BY NoWriteCovered, Zenon DEF Open
<1>2. \A fd, addr, count : Covers(m, WriteFile(m, fd, addr, count))
  BY NoWriteCovered, Zenon DEF WriteFile
<1>3. \A fd, addr, count : Covers(m, ReadFile(m, fd, addr, count))
  BY ReadFileCovered
<1> QED
  BY <1>1, <1>2, <1>3, NoWriteCovered, Zenon DEF Syscall

\* One instruction (VMState::step) writes only to pages that it marks.
LEMMA StepCovered ==
  ASSUME NEW m
  PROVE  Covers(m, Step(m))
<1> DEFINE c == m.cpu
           i == program[c.pc + 1]
           stored == RanWith([c EXCEPT !.pc = @ + 1],
                             WriteHeap(m.heap, c.regs[i.addr], <<c.regs[i.src] % ByteSize>>),
                             PagesOf(c.regs[i.addr], 1))
<1>1. Covers(m, stored)
  <2>1. Len(<<c.regs[i.src] % ByteSize>>) = 1
    OBVIOUS
  <2> QED BY <2>1, WriteCovered, Zenon
<1>2. Covers(m, Syscall(m, i.num))
  BY SyscallCovered
<1> QED
  BY <1>1, <1>2, NoWriteCovered, Zenon DEF Step

\* Everything starts clean.
LEMMA InitClean == MachineInit => CleanPagesAgree
  BY DEF MachineInit, CleanPagesAgree

\* Every operation keeps the clean pages in agreement with the last snapshot.
LEMMA NextClean == CleanPagesAgree /\ [MachineNext]_machineVars => CleanPagesAgree'
<1> SUFFICES ASSUME CleanPagesAgree, [MachineNext]_machineVars
             PROVE  CleanPagesAgree'
  OBVIOUS
<1>1. CASE Run
  <2>1. Covers(vm, Step(vm))
    BY StepCovered
  <2> QED BY <1>1, <2>1 DEF Run, Covers, CleanPagesAgree
<1>2. CASE Capture
  BY <1>2 DEF Capture, CleanPagesAgree
<1>3. CASE SaveDelta
  BY <1>3 DEF SaveDelta, CleanPagesAgree, ApplyTo, Delta
<1>4. CASE Restore
  BY <1>4 DEF Restore, Restored, CleanPagesAgree
<1>5. CASE ResumeEdited
  BY <1>5 DEF ResumeEdited, Restored, CleanPagesAgree
<1>6. CASE JitReturn
  BY <1>6 DEF JitReturn, CleanPagesAgree
<1>7. CASE OpenEditor \/ (\E e \in Edits : MakePatch(e)) \/ CloseEditor \/ RunHot \/ JitBlock
  BY <1>7 DEF OpenEditor, MakePatch, CloseEditor, RunHot, JitBlock, CleanPagesAgree
<1>8. CASE UNCHANGED machineVars
  BY <1>8 DEF machineVars, CleanPagesAgree
<1> QED
  BY <1>1, <1>2, <1>3, <1>4, <1>5, <1>6, <1>7, <1>8 DEF MachineNext

\* A delta of the dirty pages, put on the last snapshot, is the machine.
LEMMA CleanCompletes == CleanPagesAgree => DeltaCompletesBase
  BY DEF CleanPagesAgree, DeltaCompletesBase, ApplyTo, Delta

\* For every program, heap and page size: whatever is run, saved, restored, edited or
\* compiled, the last snapshot with the dirty pages of the heap is the machine, so the
\* incremental snapshot of DaemonState::resume loses nothing.
THEOREM DeltaLosesNothing == MachineSpec => []DeltaCompletesBase
<1>1. MachineInit => CleanPagesAgree
  BY InitClean
<1>2. CleanPagesAgree /\ [MachineNext]_machineVars => CleanPagesAgree'
  BY NextClean
<1>3. CleanPagesAgree => DeltaCompletesBase
  BY CleanCompletes
<1> QED
  BY <1>1, <1>2, <1>3, PTL DEF MachineSpec

-----------------------------------------------------------------------------
(* Induction, for sets of numbers.                                          *)

\* A set of numbers that is not empty has a least one.
LEMMA LeastNumber ==
  ASSUME NEW S, S \subseteq Nat, S # {}
  PROVE  \E n \in S : \A k \in S : n <= k
  <1>1. IsWellFoundedOn(OpToRel(<, Nat), Nat)
    BY NatLessThanWellFounded
  <1>2. \E n \in S : \A k \in S : ~(<<k, n>> \in OpToRel(<, Nat))
    BY <1>1, WFMin
  <1>3. \A k \in S, n \in S : k < n => <<k, n>> \in OpToRel(<, Nat)
    BY DEF OpToRel
  <1>4. \A k \in S, n \in S : k < n \/ n <= k
    OBVIOUS
  <1> QED BY <1>2, <1>3, <1>4, Zenon

\* A set that has the first number, and with each the next, has them all.
LEMMA NumberInduction ==
  ASSUME NEW first \in Nat, NEW last \in Nat, NEW S, first \in S,
         \A n \in first..last : n \in S /\ n < last => n + 1 \in S
  PROVE  \A n \in first..last : n \in S
  <1> DEFINE bad == {n \in first..last : n \notin S}
  <1>1. CASE bad = {}
    BY <1>1
  <1>2. CASE bad # {}
    <2>1. bad \subseteq Nat
      OBVIOUS
    <2>2. PICK n \in bad : \A k \in bad : n <= k
      BY <1>2, <2>1, LeastNumber
    <2>3. n \in first..last /\ n \notin S /\ n # first
      BY <2>2
    <2>4. n - 1 \in first..last /\ n - 1 \notin bad /\ n - 1 < last
      BY <2>2, <2>3
    <2> QED BY <2>3, <2>4
  <1> QED BY <1>1, <1>2

-----------------------------------------------------------------------------
(* Machines in order.                                                       *)

\* The parts of a sequence that was put together.
LEMMA Concat ==
  ASSUME NEW S, NEW s \in Seq(S), NEW t \in Seq(S)
  PROVE  /\ s \o t \in Seq(S) /\ Len(s \o t) = Len(s) + Len(t) /\ Len(s) \in Nat /\ Len(t) \in Nat
         /\ DOMAIN (s \o t) = 1..(Len(s) + Len(t))
         /\ \A k \in 1..Len(s) : (s \o t)[k] = s[k]
         /\ \A k \in 1..Len(t) : (s \o t)[Len(s) + k] = t[k]
  OBVIOUS

\* The files, the processor and the machine.
Files == UNION {[paths -> Seq(Byte)] : paths \in SUBSET Seq(Byte)}
Cpu == [regs : [Reg -> Address], pc : Address, stack : Seq(Address), steps : Nat, top : 0..HeapLen,
        files : Files, fds : Seq(Descriptor)]
Vm == [cpu : Cpu, heap : [Addr -> Byte]]

\* An open descriptor has a file that reaches to its cursor, and there are no more
\* descriptors than instructions were executed.
FilesOk(c) ==
  /\ Len(c.fds) <= c.steps
  /\ \A n \in DOMAIN c.fds : c.fds[n].open => /\ c.fds[n].path \in DOMAIN c.files
                                             /\ c.fds[n].cursor <= Len(c.files[c.fds[n].path])

\* A machine with values of their widths and files for its descriptors.
VmOk(m) == m \in Vm /\ FilesOk(m.cpu)

\* The pages of the heap.
Pages == {Page(a) : a \in Addr}

\* The sizes of words, bytes, the heap and its pages.
LEMMA Sizes ==
  /\ Word \in Nat \ {0} /\ HeapLen \in Nat \ {0} /\ PageSize \in Nat \ {0} /\ ByteSize \in Nat \ {0}
  /\ HeapLen < Word /\ ByteSize <= Word /\ MaxSteps \in Nat /\ MaxSteps < Word
  /\ Byte \subseteq Nat /\ Byte \subseteq Address /\ Addr \subseteq Address /\ 0 \in Address /\ 0 \in Byte
  /\ Address \subseteq Nat /\ {0, 1, 2, 3} \subseteq Reg
  BY MachineAssumption DEF Byte, Addr, Address

\* What an instruction leaves of a processor and a heap.
LEMMA RanOk ==
  ASSUME NEW c \in Cpu, NEW heap \in [Addr -> Byte], NEW pages,
         Len(c.fds) <= c.steps + 1,
         \A n \in DOMAIN c.fds : c.fds[n].open => /\ c.fds[n].path \in DOMAIN c.files
                                                  /\ c.fds[n].cursor <= Len(c.files[c.fds[n].path])
  PROVE  LET left == RanWith(c, heap, pages) IN
         /\ VmOk(left.vm) /\ left.vm.cpu.steps = c.steps + 1 /\ left.result = "ok"
         /\ left.vm.cpu.pc = c.pc /\ left.vm.cpu.regs = c.regs /\ left.pages = pages
  <1> DEFINE d == [c EXCEPT !.steps = c.steps + 1]
  <1>1. RanWith(c, heap, pages) = [result |-> "ok", vm |-> [cpu |-> d, heap |-> heap], pages |-> pages]
    BY DEF RanWith
  <1>2. d \in Cpu /\ d.steps = c.steps + 1 /\ d.fds = c.fds /\ d.files = c.files /\ d.pc = c.pc /\ d.regs = c.regs
    BY DEF Cpu
  <1> HIDE DEF d
  <1>3. [cpu |-> d, heap |-> heap] \in Vm
    BY <1>2 DEF Vm
  <1>4. FilesOk(d)
    BY <1>2 DEF FilesOk
  <1> QED BY <1>1, <1>2, <1>3, <1>4 DEF VmOk

\* What a call that only moves the processor and writes memory leaves.
RanFrom(left, m, pages) ==
  VmOk(left.vm) /\ left.vm.cpu.steps = m.cpu.steps + 1 /\ left.pages = pages

\* A processor with the files and the descriptors of a machine in order, one step on, is in order.
LEMMA RanKeeps ==
  ASSUME NEW m, VmOk(m), NEW c \in Cpu, NEW heap \in [Addr -> Byte], NEW pages,
         c.steps = m.cpu.steps, c.files = m.cpu.files, c.fds = m.cpu.fds
  PROVE  RanFrom(RanWith(c, heap, pages), m, pages)
  <1>1. FilesOk(m.cpu)
    BY DEF VmOk
  <1>2. /\ Len(c.fds) <= c.steps + 1
        /\ \A n \in DOMAIN c.fds : c.fds[n].open => /\ c.fds[n].path \in DOMAIN c.files
                                                 /\ c.fds[n].cursor <= Len(c.files[c.fds[n].path])
    <2>1. /\ Len(m.cpu.fds) <= m.cpu.steps
          /\ \A n \in DOMAIN m.cpu.fds : m.cpu.fds[n].open =>
               /\ m.cpu.fds[n].path \in DOMAIN m.cpu.files
               /\ m.cpu.fds[n].cursor <= Len(m.cpu.files[m.cpu.fds[n].path])
      BY <1>1, Zenon DEF FilesOk
    <2>2. PICK steps \in Nat : steps = m.cpu.steps
      BY DEF VmOk, Vm, Cpu
    <2>3. PICK len \in Nat : len = Len(m.cpu.fds)
      BY DEF VmOk, Vm, Cpu
    <2>4. len <= steps + 1
      <3>1. len <= steps
        BY <2>1, <2>2, <2>3, Zenon
      <3> QED BY <3>1
    <2>5. Len(m.cpu.fds) <= m.cpu.steps + 1
      BY <2>2, <2>3, <2>4, Zenon
    <2> QED BY <2>1, <2>5, Zenon
  <1>3. PICK left : left = RanWith(c, heap, pages)
    OBVIOUS
  <1>4. VmOk(left.vm) /\ left.vm.cpu.steps = c.steps + 1 /\ left.pages = pages
    BY <1>2, <1>3, RanOk, Zenon
  <1> QED BY <1>3, <1>4, Zenon DEF RanFrom

\* Setting a register of a processor that is not at the end.
LEMMA SetRegOk ==
  ASSUME NEW c \in Cpu, NEW r \in Reg, NEW v \in Address, c.pc + 1 \in Address
  PROVE  LET d == SetReg(c, r, v) IN
         /\ d \in Cpu /\ d.steps = c.steps /\ d.files = c.files /\ d.fds = c.fds
         /\ d.pc = c.pc + 1 /\ d.regs = [c.regs EXCEPT ![r] = v] /\ d.stack = c.stack /\ d.top = c.top
  <1> DEFINE e == [c EXCEPT !.regs[r] = v]
             d == [e EXCEPT !.pc = c.pc + 1]
  <1>1. /\ e \in Cpu /\ e.regs = [c.regs EXCEPT ![r] = v] /\ e.pc = c.pc /\ e.steps = c.steps
        /\ e.files = c.files /\ e.fds = c.fds /\ e.stack = c.stack /\ e.top = c.top
    BY DEF Cpu
  <1>2. SetReg(c, r, v) = d
    BY <1>1 DEF SetReg
  <1> HIDE DEF e
  <1>3. /\ d \in Cpu /\ d.steps = e.steps /\ d.files = e.files /\ d.fds = e.fds
        /\ d.pc = c.pc + 1 /\ d.regs = e.regs /\ d.stack = e.stack /\ d.top = e.top
    BY <1>1 DEF Cpu
  <1> HIDE DEF d
  <1> QED BY <1>1, <1>2, <1>3

\* Setting a register runs on.
LEMMA SetRan ==
  ASSUME NEW m, VmOk(m), NEW r \in Reg, NEW v \in Address, m.cpu.pc + 1 \in Address
  PROVE  LET left == Ran(m, SetReg(m.cpu, r, v)) IN
         VmOk(left.vm) /\ left.vm.cpu.steps = m.cpu.steps + 1 /\ left.pages = {}
  <1>1. m.cpu \in Cpu /\ m.heap \in [Addr -> Byte] /\ FilesOk(m.cpu) /\ m.cpu.steps \in Nat
    BY DEF VmOk, Vm, Cpu
  <1>2. PICK d : d = SetReg(m.cpu, r, v)
    OBVIOUS
  <1>3. d \in Cpu /\ d.steps = m.cpu.steps /\ d.files = m.cpu.files /\ d.fds = m.cpu.fds
    BY <1>1, <1>2, SetRegOk
  <1>4. Len(d.fds) <= d.steps + 1
    BY <1>1, <1>3 DEF FilesOk, Cpu
  <1> QED BY <1>1, <1>2, <1>3, <1>4, RanOk DEF Ran, FilesOk

\* Going elsewhere runs on.
LEMMA GotoRan ==
  ASSUME NEW m, VmOk(m), NEW pc \in Address
  PROVE  LET left == Goto(m, pc) IN
         VmOk(left.vm) /\ left.vm.cpu.steps = m.cpu.steps + 1 /\ left.pages = {}
  <1> DEFINE d == [m.cpu EXCEPT !.pc = pc]
  <1>1. m.cpu \in Cpu /\ m.heap \in [Addr -> Byte] /\ FilesOk(m.cpu) /\ m.cpu.steps \in Nat
    BY DEF VmOk, Vm, Cpu
  <1>2. d \in Cpu /\ d.steps = m.cpu.steps /\ d.files = m.cpu.files /\ d.fds = m.cpu.fds
    BY <1>1 DEF Cpu
  <1> HIDE DEF d
  <1>3. Len(d.fds) <= d.steps + 1
    BY <1>1, <1>2 DEF FilesOk, Cpu
  <1>4. Goto(m, pc) = RanWith(d, m.heap, {})
    BY DEF Goto, Ran, d
  <1> QED BY <1>1, <1>2, <1>3, <1>4, RanOk DEF FilesOk

\* Bytes read from the heap, and a heap that bytes were written to.
LEMMA HeapBytes ==
  ASSUME NEW heap \in [Addr -> Byte], NEW addr \in Nat
  PROVE  /\ \A len \in Nat : InHeap(addr, len) =>
              /\ ReadHeap(heap, addr, len) \in Seq(Byte) /\ Len(ReadHeap(heap, addr, len)) = len
              /\ \A n \in 1..len : ReadHeap(heap, addr, len)[n] = heap[addr + n - 1]
         /\ \A bytes \in Seq(Byte) : WriteHeap(heap, addr, bytes) \in [Addr -> Byte]
  <1>1. ASSUME NEW len \in Nat, InHeap(addr, len)
        PROVE  /\ ReadHeap(heap, addr, len) \in Seq(Byte) /\ Len(ReadHeap(heap, addr, len)) = len
               /\ \A n \in 1..len : ReadHeap(heap, addr, len)[n] = heap[addr + n - 1]
    <2>1. \A n \in 1..len : addr + n - 1 \in Addr
      BY <1>1, Sizes DEF InHeap, Addr
    <2>2. \A n \in 1..len : heap[addr + n - 1] \in Byte
      BY <2>1
    <2> QED BY <2>2 DEF ReadHeap
  <1>2. ASSUME NEW bytes \in Seq(Byte) PROVE WriteHeap(heap, addr, bytes) \in [Addr -> Byte]
    <2>1. \A a \in Addr : a \in addr..(addr + Len(bytes) - 1) => bytes[a - addr + 1] \in Byte
      <3> SUFFICES ASSUME NEW a \in Addr, a \in addr..(addr + Len(bytes) - 1) PROVE bytes[a - addr + 1] \in Byte
        OBVIOUS
      <3>1. a - addr + 1 \in 1..Len(bytes)
        BY Sizes DEF Addr
      <3> QED BY <3>1
    <2> QED BY <2>1 DEF WriteHeap
  <1> QED BY <1>1, <1>2

\* Where reading ends, and how long a file gets by writing.
LEMMA FileEnds ==
  ASSUME NEW cursor \in Nat, NEW count \in Nat, NEW len \in Nat, cursor <= len
  PROVE  /\ \A last : last = (IF cursor + count < len THEN cursor + count ELSE len) =>
              last \in Nat /\ cursor <= last /\ last <= len /\ last <= cursor + count
         /\ \A rest \in Nat, new \in Nat :
              rest = (IF cursor + count < len THEN len - cursor - count ELSE 0) /\ new = cursor + count + rest =>
                cursor + count <= new /\ len <= new
  OBVIOUS

\* Opening a file (VirtualFS::open).
LEMMA OpenRan ==
  ASSUME NEW m, VmOk(m), NEW path \in Seq(Byte), NEW writable \in BOOLEAN,
         m.cpu.pc + 1 \in Address, m.cpu.steps < MaxSteps, Open(m, path, writable).result = "ok"
  PROVE  LET left == Open(m, path, writable) IN
         VmOk(left.vm) /\ left.vm.cpu.steps = m.cpu.steps + 1 /\ left.pages = {}
  <1>1. /\ m.cpu \in Cpu /\ m.heap \in [Addr -> Byte] /\ FilesOk(m.cpu) /\ m.cpu.steps \in Nat
        /\ m.cpu.fds \in Seq(Descriptor) /\ m.cpu.files \in Files
    BY DEF VmOk, Vm, Cpu
  <1> DEFINE f == [open |-> TRUE, path |-> path, cursor |-> 0, writable |-> writable]
             n == FreeFd(m.cpu.fds)
             files == WithFile(m.cpu.files, path)
             fds == SubSeq(m.cpu.fds, 1, n - 1) \o <<f>> \o SubSeq(m.cpu.fds, n + 1, Len(m.cpu.fds))
             c == [[m.cpu EXCEPT !.files = files] EXCEPT !.fds = fds]
  <1>2. Open(m, path, writable) = Ran(m, SetReg(c, 0, n - 1))
    BY DEF Open, Stopped
  <1>3. n \in 1..(Len(m.cpu.fds) + 1)
    <2> DEFINE free == {k \in DOMAIN m.cpu.fds : ~m.cpu.fds[k].open}
    <2>1. free \subseteq 1..Len(m.cpu.fds) /\ free \subseteq Nat
      BY <1>1
    <2>2. CASE free = {}
      BY <1>1, <2>2 DEF FreeFd
    <2>3. CASE free # {}
      <3>1. \E k \in free : \A j \in free : k <= j
        BY <2>1, <2>3, LeastNumber
      <3>2. n = CHOOSE k \in free : \A j \in free : k <= j
        BY <2>3 DEF FreeFd
      <3> HIDE DEF free, n
      <3>3. n \in free
        BY <3>1, <3>2
      <3>4. n \in 1..Len(m.cpu.fds) /\ Len(m.cpu.fds) \in Nat
        BY <1>1, <2>1, <3>3
      <3> QED BY <3>4
    <2> QED BY <2>2, <2>3
  <1>4. f \in Descriptor
    BY DEF Descriptor
  <1>5. /\ fds \in Seq(Descriptor) /\ Len(fds) <= Len(m.cpu.fds) + 1 /\ fds[n] = f /\ n \in DOMAIN fds
        /\ \A k \in DOMAIN fds : k # n => k \in DOMAIN m.cpu.fds /\ fds[k] = m.cpu.fds[k]
    <2> HIDE DEF n, f
    <2> DEFINE s == m.cpu.fds
    <2>1. s \in Seq(Descriptor) /\ n \in 1..(Len(s) + 1)
      BY <1>1, <1>3
    <2>2. SubSeq(s, 1, n - 1) \in Seq(Descriptor) /\ Len(SubSeq(s, 1, n - 1)) = n - 1
          /\ \A k \in 1..(n - 1) : SubSeq(s, 1, n - 1)[k] = s[k]
      <3> HIDE DEF s
      <3> QED BY <2>1
    <2> DEFINE rest == SubSeq(s, n + 1, Len(s))
    <2>3. rest \in Seq(Descriptor) /\ Len(rest) = (IF n <= Len(s) THEN Len(s) - n ELSE 0)
          /\ \A k \in 1..Len(rest) : rest[k] = s[n + k]
      <3> HIDE DEF s
      <3> QED BY <2>1
    <2> HIDE DEF s, rest
    <2>4. fds = SubSeq(s, 1, n - 1) \o <<f>> \o rest
      BY DEF s, rest
    <2> HIDE DEF fds
    <2> DEFINE left == SubSeq(s, 1, n - 1) \o <<f>>
    <2>a. left \in Seq(Descriptor) /\ Len(left) = n /\ left[n] = f /\ \A k \in 1..(n - 1) : left[k] = s[k]
      BY <1>4, <2>1, <2>2
    <2> HIDE DEF left
    <2>b. fds = left \o rest
      BY <2>4 DEF left
    <2>5. fds \in Seq(Descriptor) /\ Len(fds) = n + Len(rest) /\ fds[n] = f
      <3>1. Len(rest) \in Nat /\ n \in Nat /\ n \in 1..Len(left)
        BY <2>1, <2>3, <2>a
      <3>2. left \o rest \in Seq(Descriptor) /\ Len(left \o rest) = Len(left) + Len(rest)
        BY <2>3, <2>a, Concat
      <3>3. \A k \in 1..Len(left) : (left \o rest)[k] = left[k]
        BY <2>3, <2>a, Concat
      <3> QED BY <2>a, <2>b, <3>1, <3>2, <3>3
    <2>6. \A k \in 1..Len(fds) : k # n => k \in 1..Len(s) /\ fds[k] = s[k]
      <3> SUFFICES ASSUME NEW k \in 1..Len(fds), k # n PROVE k \in 1..Len(s) /\ fds[k] = s[k]
        OBVIOUS
      <3>1. CASE k < n
        BY <2>1, <2>3, <2>5, <2>a, <2>b, <3>1
      <3>2. CASE k > n
        <4>1. k - n \in 1..Len(rest) /\ fds[k] = rest[k - n]
          BY <2>1, <2>3, <2>5, <2>a, <2>b, <3>2
        <4> QED BY <2>1, <2>3, <4>1
      <3> QED BY <2>1, <3>1, <3>2
    <2>7. DOMAIN fds = 1..Len(fds) /\ DOMAIN s = 1..Len(s) /\ Len(s) \in Nat
      BY <2>1, <2>5
    <2>8. Len(fds) <= Len(s) + 1 /\ n \in 1..Len(fds)
      <3>0. Len(rest) = (IF n <= Len(s) THEN Len(s) - n ELSE 0)
        BY <2>3
      <3>1. Len(rest) <= Len(s) - n + 1 /\ Len(rest) \in Nat /\ n \in Nat
        <4>1. Len(s) \in Nat /\ n \in Nat /\ n <= Len(s) + 1
          BY <2>1
        <4>2. CASE n <= Len(s)
          BY <3>0, <4>1, <4>2
        <4>3. CASE n = Len(s) + 1
          BY <3>0, <4>1, <4>3
        <4> QED BY <4>1, <4>2, <4>3
      <3> QED BY <2>1, <2>5, <2>7, <3>1
    <2> QED BY <2>5, <2>6, <2>7, <2>8 DEF s
  <1>6. /\ files \in Files /\ DOMAIN m.cpu.files \subseteq DOMAIN files /\ path \in DOMAIN files
        /\ \A p \in DOMAIN m.cpu.files : files[p] = m.cpu.files[p]
        /\ files[path] \in Seq(Byte)
    <2>1. PICK paths \in SUBSET Seq(Byte) : m.cpu.files \in [paths -> Seq(Byte)]
      BY <1>1 DEF Files
    <2>2. files = [p \in paths \cup {path} |-> IF p \in paths THEN m.cpu.files[p] ELSE <<>>]
      BY <2>1 DEF WithFile
    <2>3. files \in [paths \cup {path} -> Seq(Byte)]
      BY <2>1, <2>2
    <2>4. paths \cup {path} \in SUBSET Seq(Byte)
      OBVIOUS
    <2> HIDE DEF files
    <2> QED BY <2>1, <2>2, <2>3, <2>4 DEF Files
  <1> HIDE DEF n, f, files, fds
  <1>7. c \in Cpu /\ c.files = files /\ c.fds = fds /\ c.steps = m.cpu.steps /\ c.pc = m.cpu.pc
    BY <1>1, <1>5, <1>6 DEF Cpu
  <1> HIDE DEF c
  <1>8. n - 1 \in Address /\ 0 \in Reg
    BY <1>1, <1>3, Sizes DEF FilesOk, Address
  <1>9. PICK d : d = SetReg(c, 0, n - 1)
    OBVIOUS
  <1>10. d \in Cpu /\ d.steps = m.cpu.steps /\ d.files = files /\ d.fds = fds
    BY <1>7, <1>8, <1>9, SetRegOk
  <1>11. Len(d.fds) <= d.steps + 1
    BY <1>1, <1>5, <1>10 DEF FilesOk
  <1>12. ASSUME NEW k \in DOMAIN d.fds, d.fds[k].open
         PROVE  d.fds[k].path \in DOMAIN d.files /\ d.fds[k].cursor <= Len(d.files[d.fds[k].path])
    <2>1. CASE k = n
      BY <1>5, <1>6, <1>10, <2>1 DEF f
    <2>2. CASE k # n
      <3>1. k \in DOMAIN m.cpu.fds /\ d.fds[k] = m.cpu.fds[k]
        BY <1>5, <1>10, <2>2
      <3> QED BY <1>1, <1>6, <1>10, <1>12, <3>1 DEF FilesOk
    <2> QED BY <2>1, <2>2
  <1>13. Open(m, path, writable) = RanWith(d, m.heap, {})
    BY <1>2, <1>9 DEF Ran
  <1> QED BY <1>1, <1>10, <1>11, <1>12, <1>13, RanOk

\* Changing an element of a sequence changes no other.
LEMMA SeqExcept ==
  ASSUME NEW S, NEW s \in Seq(S), NEW n \in DOMAIN s, NEW v \in S
  PROVE  LET new == [s EXCEPT ![n] = v] IN
         /\ new \in Seq(S) /\ Len(new) = Len(s) /\ DOMAIN new = DOMAIN s
         /\ new[n] = v /\ \A k \in DOMAIN s : k # n => new[k] = s[k]
  OBVIOUS

\* Processor c is that of m, but for its descriptor n, which is g, and files, none of
\* which became shorter.
Moved(m, c, n, g) ==
  /\ n \in DOMAIN m.cpu.fds /\ g \in Descriptor
  /\ c \in Cpu /\ DOMAIN c.files = DOMAIN m.cpu.files /\ c.fds = [m.cpu.fds EXCEPT ![n] = g]
  /\ c.steps = m.cpu.steps /\ c.pc + 1 \in Address
  /\ \A p \in DOMAIN c.files : Len(m.cpu.files[p]) <= Len(c.files[p])
  /\ g.open => g.path \in DOMAIN c.files /\ g.cursor <= Len(c.files[g.path])

\* What a system call leaves that reads, writes or closes a file.
LEMMA FileRan ==
  ASSUME NEW m, VmOk(m), NEW c, NEW n, NEW g, Moved(m, c, n, g),
         NEW v \in Address, NEW heap \in [Addr -> Byte], NEW pages
  PROVE  LET left == RanWith(SetReg(c, 0, v), heap, pages) IN
         VmOk(left.vm) /\ left.vm.cpu.steps = m.cpu.steps + 1 /\ left.pages = pages
  <1> DEFINE files == c.files
  <1>0. /\ n \in DOMAIN m.cpu.fds /\ g \in Descriptor /\ c \in Cpu
        /\ files \in Files /\ DOMAIN files = DOMAIN m.cpu.files /\ c.fds = [m.cpu.fds EXCEPT ![n] = g]
        /\ c.steps = m.cpu.steps /\ c.pc + 1 \in Address
        /\ \A p \in DOMAIN files : Len(m.cpu.files[p]) <= Len(files[p])
        /\ g.open => g.path \in DOMAIN files /\ g.cursor <= Len(files[g.path])
    BY DEF Moved, Cpu
  <1>1. m.cpu \in Cpu /\ FilesOk(m.cpu) /\ m.cpu.fds \in Seq(Descriptor) /\ m.cpu.steps \in Nat
    BY DEF VmOk, Vm, Cpu
  <1>2. PICK d : d = SetReg(c, 0, v)
    OBVIOUS
  <1>3. d \in Cpu /\ d.steps = m.cpu.steps /\ d.files = files /\ d.fds = [m.cpu.fds EXCEPT ![n] = g]
    <2>1. 0 \in Reg
      BY Sizes
    <2>2. PICK z : z = 0 /\ z \in Reg
      BY <2>1
    <2>3. d = SetReg(c, z, v)
      BY <1>2, <2>2
    <2>4. d \in Cpu /\ d.steps = c.steps /\ d.files = c.files /\ d.fds = c.fds
      <3>1. c \in Cpu /\ c.pc + 1 \in Address
        BY <1>0
      <3> QED BY <2>2, <2>3, <3>1, SetRegOk
    <2> QED BY <1>0, <2>4
  <1>4. /\ Len(d.fds) = Len(m.cpu.fds) /\ DOMAIN d.fds = DOMAIN m.cpu.fds /\ d.fds[n] = g
        /\ \A k \in DOMAIN m.cpu.fds : k # n => d.fds[k] = m.cpu.fds[k]
    BY <1>0, <1>1, <1>3, SeqExcept
  <1>5. Len(d.fds) <= d.steps + 1
    BY <1>1, <1>3, <1>4 DEF FilesOk
  <1>6. ASSUME NEW k \in DOMAIN d.fds, d.fds[k].open
        PROVE  d.fds[k].path \in DOMAIN d.files /\ d.fds[k].cursor <= Len(d.files[d.fds[k].path])
    <2>1. CASE k = n
      BY <1>0, <1>3, <1>4, <1>6, <2>1
    <2>2. CASE k # n
      <3>1. k \in DOMAIN m.cpu.fds /\ d.fds[k] = m.cpu.fds[k]
        BY <1>4, <2>2
      <3>2. d.fds[k].path \in DOMAIN m.cpu.files /\ d.fds[k].cursor <= Len(m.cpu.files[d.fds[k].path])
        BY <1>1, <1>6, <3>1 DEF FilesOk
      <3>3. d.fds[k].cursor \in Nat /\ d.fds[k] \in Descriptor
        <4>1. m.cpu.fds[k] \in Descriptor
          BY <1>1, <3>1
        <4> QED BY <3>1, <4>1 DEF Descriptor
      <3>4. \A p \in DOMAIN files : Len(files[p]) \in Nat /\ Len(m.cpu.files[p]) \in Nat
        <4>1. m.cpu.files \in Files
          BY <1>1 DEF Cpu
        <4> QED BY <1>0, <4>1 DEF Files
      <3> QED BY <1>0, <1>3, <3>2, <3>3, <3>4
    <2> QED BY <2>1, <2>2
  <1> QED BY <1>2, <1>3, <1>5, <1>6, RanOk

\* The file of an open descriptor.
LEMMA OpenFile ==
  ASSUME NEW m, VmOk(m), NEW fd \in Nat, IsOpen(m.cpu, fd)
  PROVE  LET f == m.cpu.fds[fd + 1] IN
         /\ fd + 1 \in DOMAIN m.cpu.fds /\ f \in Descriptor /\ f.open /\ f.path \in DOMAIN m.cpu.files
         /\ f.cursor \in Nat /\ f.cursor <= Len(m.cpu.files[f.path])
         /\ m.cpu.files[f.path] \in Seq(Byte)
  <1>1. m.cpu \in Cpu /\ FilesOk(m.cpu) /\ m.cpu.fds \in Seq(Descriptor) /\ m.cpu.files \in Files
    BY DEF VmOk, Vm, Cpu
  <1> DEFINE f == m.cpu.fds[fd + 1]
  <1>2. fd + 1 \in DOMAIN m.cpu.fds /\ f.open
    BY <1>1 DEF IsOpen
  <1>3. f \in Descriptor
    BY <1>1, <1>2
  <1>4. f.cursor \in Nat
    BY <1>3 DEF Descriptor
  <1>5. f.path \in DOMAIN m.cpu.files /\ f.cursor <= Len(m.cpu.files[f.path])
    BY <1>1, <1>2 DEF FilesOk
  <1>6. m.cpu.files[f.path] \in Seq(Byte)
    BY <1>1, <1>5 DEF Files
  <1> QED BY <1>2, <1>3, <1>4, <1>5, <1>6

\* The pages of a range of the heap.
LEMMA PagesInHeap ==
  ASSUME NEW addr \in Nat, NEW count \in Nat, InHeap(addr, count), NEW len \in Nat, len <= count
  PROVE  PagesOf(addr, len) \subseteq Pages
  <1>1. addr..(addr + len - 1) \subseteq Addr
    BY Sizes DEF InHeap, Addr
  <1> QED BY <1>1 DEF PagesOf, Pages

\* Reading a file (VirtualFS::read).
LEMMA ReadRan ==
  ASSUME NEW m, VmOk(m), NEW fd \in Nat, IsOpen(m.cpu, fd), NEW addr \in Nat, NEW count \in Nat,
         InHeap(addr, count), m.cpu.pc + 1 \in Address
  PROVE  LET left == ReadFile(m, fd, addr, count) IN
         VmOk(left.vm) /\ left.vm.cpu.steps = m.cpu.steps + 1 /\ left.pages \subseteq Pages
  <1> DEFINE f == m.cpu.fds[fd + 1]
             file == m.cpu.files[f.path]
             last == IF f.cursor + count < Len(file) THEN f.cursor + count ELSE Len(file)
             bytes == SubSeq(file, f.cursor + 1, last)
             g == [f EXCEPT !.cursor = last]
             c == [m.cpu EXCEPT !.fds[fd + 1].cursor = last]
  <1>1. /\ fd + 1 \in DOMAIN m.cpu.fds /\ f \in Descriptor /\ f.open /\ f.path \in DOMAIN m.cpu.files
        /\ f.cursor \in Nat /\ f.cursor <= Len(file) /\ file \in Seq(Byte)
    BY OpenFile
  <1>2. m.cpu \in Cpu /\ m.heap \in [Addr -> Byte] /\ m.cpu.fds \in Seq(Descriptor) /\ m.cpu.files \in Files
    BY DEF VmOk, Vm, Cpu
  <1>3. last \in Nat /\ f.cursor <= last /\ last <= Len(file) /\ last <= f.cursor + count
    <2>1. Len(file) \in Nat
      BY <1>1
    <2> HIDE DEF file, f
    <2> QED BY <1>1, <2>1, FileEnds
  <1>4. g \in Descriptor /\ g.path = f.path /\ g.cursor = last
    BY <1>1, <1>3 DEF Descriptor
  <1>5. bytes \in Seq(Byte) /\ Len(bytes) = last - f.cursor
    <2> HIDE DEF file, last, f
    <2>1. f.cursor + 1 \in 1..(Len(file) + 1) /\ last \in 0..Len(file)
      BY <1>1, <1>3
    <2> QED BY <1>1, <1>3, <2>1
  <1>6. Len(bytes) \in Address
    <2> HIDE DEF bytes, file, last, f
    <2> QED BY <1>1, <1>3, <1>5, Sizes DEF InHeap, Address
  <1> HIDE DEF last, bytes
  <1>7. c = [m.cpu EXCEPT !.fds = [m.cpu.fds EXCEPT ![fd + 1] = g]]
    OBVIOUS
  <1> HIDE DEF g
  <1>8. [m.cpu.fds EXCEPT ![fd + 1] = g] \in Seq(Descriptor)
    BY <1>1, <1>2, <1>4, SeqExcept
  <1>9. /\ c \in Cpu /\ c.files = m.cpu.files /\ c.fds = [m.cpu.fds EXCEPT ![fd + 1] = g]
        /\ c.steps = m.cpu.steps /\ c.pc = m.cpu.pc
    <2> HIDE DEF c
    <2> QED BY <1>2, <1>7, <1>8 DEF Cpu
  <1>10. ReadFile(m, fd, addr, count) =
           RanWith(SetReg(c, 0, Len(bytes)), WriteHeap(m.heap, addr, bytes), PagesOf(addr, Len(bytes)))
    BY DEF ReadFile, bytes, last
  <1>11. WriteHeap(m.heap, addr, bytes) \in [Addr -> Byte]
    BY <1>2, <1>5, HeapBytes
  <1>12. \A p \in DOMAIN m.cpu.files : Len(m.cpu.files[p]) <= Len(m.cpu.files[p])
    BY <1>2 DEF Files
  <1> HIDE DEF c, f, file
  <1>13. PICK left : left = ReadFile(m, fd, addr, count)
    OBVIOUS
  <1>14. VmOk(left.vm) /\ left.vm.cpu.steps = m.cpu.steps + 1 /\ left.pages \subseteq Pages
    <2>1. g.open => g.path \in DOMAIN m.cpu.files /\ g.cursor <= Len(m.cpu.files[g.path])
      BY <1>1, <1>3, <1>4 DEF file
    <2>2. c.pc + 1 \in Address
      BY <1>9
    <2> DEFINE r == RanWith(SetReg(c, 0, Len(bytes)), WriteHeap(m.heap, addr, bytes), PagesOf(addr, Len(bytes)))
    <2>3. VmOk(r.vm) /\ r.vm.cpu.steps = m.cpu.steps + 1 /\ r.pages = PagesOf(addr, Len(bytes))
      <3>1. Moved(m, c, fd + 1, g)
        BY <1>1, <1>2, <1>4, <1>9, <1>12, <2>1, <2>2 DEF Moved
      <3> QED BY <1>6, <1>11, <3>1, FileRan
    <2>4. PagesOf(addr, Len(bytes)) \subseteq Pages
      <3>1. Len(bytes) \in Nat /\ Len(bytes) <= count
        <4> HIDE DEF bytes
        <4> QED BY <1>1, <1>3, <1>5
      <3> QED BY <3>1, PagesInHeap
    <2> HIDE DEF r
    <2>5. left = r
      BY <1>10, <1>13 DEF r
    <2> QED BY <2>3, <2>4, <2>5
  <1> QED BY <1>13, <1>14

\* Writing a file (VirtualFS::write).
LEMMA WriteRan ==
  ASSUME NEW m, VmOk(m), NEW fd \in Nat, IsOpen(m.cpu, fd), NEW addr \in Nat, NEW count \in Nat,
         InHeap(addr, count), m.cpu.pc + 1 \in Address
  PROVE  LET left == WriteFile(m, fd, addr, count) IN
         VmOk(left.vm) /\ left.vm.cpu.steps = m.cpu.steps + 1 /\ left.pages = {}
  <1> DEFINE f == m.cpu.fds[fd + 1]
             file == m.cpu.files[f.path]
             head == SubSeq(file, 1, f.cursor)
             bytes == ReadHeap(m.heap, addr, count)
             rest == SubSeq(file, f.cursor + count + 1, Len(file))
             new == head \o bytes \o rest
             files == [m.cpu.files EXCEPT ![f.path] = new]
             g == [f EXCEPT !.cursor = @ + count]
             c == [m.cpu EXCEPT !.files[f.path] = new, !.fds[fd + 1].cursor = @ + count]
  <1>1. /\ fd + 1 \in DOMAIN m.cpu.fds /\ f \in Descriptor /\ f.open /\ f.path \in DOMAIN m.cpu.files
        /\ f.cursor \in Nat /\ f.cursor <= Len(file) /\ file \in Seq(Byte)
    BY OpenFile
  <1>2. m.cpu \in Cpu /\ m.heap \in [Addr -> Byte] /\ m.cpu.fds \in Seq(Descriptor) /\ m.cpu.files \in Files
    BY DEF VmOk, Vm, Cpu
  <1>3. /\ head \in Seq(Byte) /\ Len(head) = f.cursor
        /\ rest \in Seq(Byte) /\ Len(rest) = (IF f.cursor + count < Len(file) THEN Len(file) - f.cursor - count ELSE 0)
    <2> HIDE DEF file, f
    <2>1. Len(file) \in Nat
      BY <1>1
    <2>2. head \in Seq(Byte) /\ Len(head) = f.cursor
      BY <1>1, <2>1
    <2>3. CASE f.cursor + count < Len(file)
      BY <1>1, <2>1, <2>2, <2>3
    <2>4. CASE ~(f.cursor + count < Len(file))
      BY <1>1, <2>1, <2>2, <2>4
    <2> QED BY <2>2, <2>3, <2>4
  <1>4. bytes \in Seq(Byte) /\ Len(bytes) = count
    BY <1>2, HeapBytes
  <1> HIDE DEF head, bytes, rest, file
  <1>5. head \o bytes \in Seq(Byte) /\ Len(head \o bytes) = f.cursor + count
    <2> HIDE DEF f
    <2>1. \A k \in Seq(Byte), l \in Seq(Byte) : k \o l \in Seq(Byte) /\ Len(k \o l) = Len(k) + Len(l)
      BY Concat
    <2> QED BY <1>3, <1>4, <2>1
  <1>6. new \in Seq(Byte) /\ Len(new) = f.cursor + count + Len(rest)
    <2> HIDE DEF f
    <2>1. \A k \in Seq(Byte), l \in Seq(Byte) : k \o l \in Seq(Byte) /\ Len(k \o l) = Len(k) + Len(l)
      BY Concat
    <2> QED BY <1>3, <1>5, <2>1
  <1>7. f.cursor + count <= Len(new) /\ Len(file) <= Len(new) /\ Len(new) \in Nat
    <2>1. Len(file) \in Nat
      BY <1>1
    <2>2. Len(rest) \in Nat /\ Len(new) \in Nat
      BY <1>3, <1>6
    <2> HIDE DEF new, f
    <2>3. PICK cursor \in Nat : cursor = f.cursor
      BY <1>1
    <2>4. PICK len \in Nat : len = Len(file)
      BY <2>1
    <2>5. PICK tail \in Nat : tail = Len(rest)
      BY <2>2
    <2>6. PICK total \in Nat : total = Len(new)
      BY <2>2
    <2>7. cursor <= len /\ total = cursor + count + tail
      BY <1>1, <1>6, <2>3, <2>4, <2>5, <2>6
    <2>8. tail = IF cursor + count < len THEN len - cursor - count ELSE 0
      BY <1>3, <2>3, <2>4, <2>5
    <2>9. cursor + count <= total /\ len <= total
      BY <2>7, <2>8
    <2> QED BY <2>3, <2>4, <2>6, <2>9
  <1> HIDE DEF new
  <1>8. g \in Descriptor /\ g.path = f.path /\ g.cursor = f.cursor + count
    BY <1>1 DEF Descriptor
  <1>9. c = [[m.cpu EXCEPT !.files = files] EXCEPT !.fds = [m.cpu.fds EXCEPT ![fd + 1] = g]]
    BY <1>2 DEF Cpu
  <1> HIDE DEF g
  <1>10. /\ files \in Files /\ DOMAIN files = DOMAIN m.cpu.files /\ files[f.path] = new
         /\ \A p \in DOMAIN m.cpu.files : p # f.path => files[p] = m.cpu.files[p]
    <2>1. PICK paths \in SUBSET Seq(Byte) : m.cpu.files \in [paths -> Seq(Byte)]
      BY <1>2 DEF Files
    <2>2. files \in [paths -> Seq(Byte)]
      BY <1>6, <2>1
    <2> HIDE DEF f
    <2> QED BY <1>1, <2>1, <2>2 DEF Files
  <1>11. [m.cpu.fds EXCEPT ![fd + 1] = g] \in Seq(Descriptor)
    BY <1>1, <1>2, <1>8, SeqExcept
  <1> HIDE DEF files
  <1>12. /\ c \in Cpu /\ c.files = files /\ c.fds = [m.cpu.fds EXCEPT ![fd + 1] = g]
         /\ c.steps = m.cpu.steps /\ c.pc = m.cpu.pc
    <2> HIDE DEF c
    <2> QED BY <1>2, <1>9, <1>10, <1>11 DEF Cpu
  <1>13. WriteFile(m, fd, addr, count) = RanWith(SetReg(c, 0, count), m.heap, {})
    BY DEF WriteFile, Ran, new, head, bytes, rest, file
  <1>14. \A p \in DOMAIN files : Len(m.cpu.files[p]) <= Len(files[p])
    <2>1. \A p \in DOMAIN m.cpu.files : Len(m.cpu.files[p]) \in Nat
      BY <1>2 DEF Files
    <2> QED BY <1>7, <1>10, <2>1 DEF file
  <1>15. count \in Address
    BY <1>1, Sizes DEF InHeap, Address
  <1> HIDE DEF c, f
  <1>16. PICK left : left = WriteFile(m, fd, addr, count)
    OBVIOUS
  <1>17. VmOk(left.vm) /\ left.vm.cpu.steps = m.cpu.steps + 1 /\ left.pages = {}
    <2>1. g.open => g.path \in DOMAIN files /\ g.cursor <= Len(files[g.path])
      BY <1>1, <1>7, <1>8, <1>10
    <2>2. c.pc + 1 \in Address
      BY <1>12
    <2> DEFINE r == RanWith(SetReg(c, 0, count), m.heap, {})
    <2>3. VmOk(r.vm) /\ r.vm.cpu.steps = m.cpu.steps + 1 /\ r.pages = {}
      <3>1. Moved(m, c, fd + 1, g)
        BY <1>1, <1>2, <1>8, <1>10, <1>12, <1>14, <2>1, <2>2 DEF Moved
      <3> QED BY <1>2, <1>15, <3>1, FileRan
    <2> QED BY <1>13, <1>16, <2>3
  <1> QED BY <1>16, <1>17

\* Closing a file (VirtualFS::close).
LEMMA CloseRan ==
  ASSUME NEW m, VmOk(m), NEW fd \in Nat, IsOpen(m.cpu, fd), m.cpu.pc + 1 \in Address
  PROVE  LET left == Ran(m, SetReg([m.cpu EXCEPT !.fds[fd + 1] = Closed], 0, 0)) IN
         VmOk(left.vm) /\ left.vm.cpu.steps = m.cpu.steps + 1 /\ left.pages = {}
  <1> DEFINE c == [m.cpu EXCEPT !.fds[fd + 1] = Closed]
  <1>1. fd + 1 \in DOMAIN m.cpu.fds
    BY OpenFile
  <1>2. m.cpu \in Cpu /\ m.heap \in [Addr -> Byte] /\ m.cpu.fds \in Seq(Descriptor) /\ m.cpu.files \in Files
    BY DEF VmOk, Vm, Cpu
  <1>3. Closed \in Descriptor /\ ~Closed.open
    BY DEF Closed, Descriptor
  <1>4. [m.cpu.fds EXCEPT ![fd + 1] = Closed] \in Seq(Descriptor)
    BY <1>1, <1>2, <1>3, SeqExcept
  <1>5. /\ c \in Cpu /\ c.files = m.cpu.files /\ c.fds = [m.cpu.fds EXCEPT ![fd + 1] = Closed]
        /\ c.steps = m.cpu.steps /\ c.pc = m.cpu.pc
    BY <1>2, <1>4 DEF Cpu
  <1> HIDE DEF c
  <1>6. \A p \in DOMAIN m.cpu.files : Len(m.cpu.files[p]) <= Len(m.cpu.files[p])
    BY <1>2 DEF Files
  <1>7. PICK left : left = RanWith(SetReg(c, 0, 0), m.heap, {})
    OBVIOUS
  <1>8. VmOk(left.vm) /\ left.vm.cpu.steps = m.cpu.steps + 1 /\ left.pages = {}
    <2>1. c.pc + 1 \in Address /\ 0 \in Address
      BY <1>5, Sizes
    <2> DEFINE r == RanWith(SetReg(c, 0, 0), m.heap, {})
    <2>3. VmOk(r.vm) /\ r.vm.cpu.steps = m.cpu.steps + 1 /\ r.pages = {}
      <3>1. Moved(m, c, fd + 1, Closed)
        BY <1>1, <1>2, <1>3, <1>5, <1>6, <2>1 DEF Moved
      <3> QED BY <1>2, <2>1, <3>1, FileRan
    <2> QED BY <1>7, <2>3
  <1> QED BY <1>7, <1>8 DEF Ran, c

\* What a choice among four guarded values and a last one is.
LEMMA OneOfFive ==
  ASSUME NEW p1, NEW p2, NEW p3, NEW p4, NEW v1, NEW v2, NEW v3, NEW v4, NEW v5, NEW v,
         v = CASE p1 -> v1 [] p2 -> v2 [] p3 -> v3 [] p4 -> v4 [] OTHER -> v5
  PROVE  (p1 /\ v = v1) \/ (p2 /\ v = v2) \/ (p3 /\ v = v3) \/ (p4 /\ v = v4) \/ v = v5
  OBVIOUS

\* What a system call comes to, its arguments the first three registers
\* (VMState::handle_syscall).
LEMMA SyscallForm ==
  ASSUME NEW m, NEW num, NEW x, NEW y, NEW z,
         x = m.cpu.regs[1], y = m.cpu.regs[2], z = m.cpu.regs[3]
  PROVE  \/ InHeap(x, y) /\ Syscall(m, num) = Open(m, ReadHeap(m.heap, x, y), z # 0)
         \/ InHeap(y, z) /\ IsOpen(m.cpu, x) /\ Syscall(m, num) = ReadFile(m, x, y, z)
         \/ InHeap(y, z) /\ IsOpen(m.cpu, x) /\ Syscall(m, num) = WriteFile(m, x, y, z)
         \/ IsOpen(m.cpu, x) /\ Syscall(m, num) = Ran(m, SetReg([m.cpu EXCEPT !.fds[x + 1] = Closed], 0, 0))
         \/ Syscall(m, num) = Stopped(m, "error")
  <1> DEFINE arg == [n \in 1..3 |-> m.cpu.regs[n]]
             opening == num = 0 /\ InHeap(arg[1], arg[2]) /\ Text(ReadHeap(m.heap, arg[1], arg[2]))
             reading == num = 1 /\ InHeap(arg[2], arg[3]) /\ IsOpen(m.cpu, arg[1])
             writing == num = 2 /\ InHeap(arg[2], arg[3]) /\ IsOpen(m.cpu, arg[1]) /\ m.cpu.fds[arg[1] + 1].writable
             closing == num = 3 /\ IsOpen(m.cpu, arg[1])
             opened == Open(m, ReadHeap(m.heap, arg[1], arg[2]), arg[3] # 0)
             read == ReadFile(m, arg[1], arg[2], arg[3])
             wrote == WriteFile(m, arg[1], arg[2], arg[3])
             closed == Ran(m, SetReg([m.cpu EXCEPT !.fds[arg[1] + 1] = Closed], 0, 0))
             failed == Stopped(m, "error")
  <1>1. arg[1] = x /\ arg[2] = y /\ arg[3] = z
    OBVIOUS
  <1>2. Syscall(m, num) =
          CASE opening -> opened [] reading -> read [] writing -> wrote [] closing -> closed [] OTHER -> failed
    BY Zenon DEF Syscall
  <1> HIDE DEF arg
  <1>3. opening => InHeap(x, y) /\ opened = Open(m, ReadHeap(m.heap, x, y), z # 0)
    BY <1>1, Zenon
  <1>4. reading => InHeap(y, z) /\ IsOpen(m.cpu, x) /\ read = ReadFile(m, x, y, z)
    BY <1>1, Zenon
  <1>5. writing => InHeap(y, z) /\ IsOpen(m.cpu, x) /\ wrote = WriteFile(m, x, y, z)
    BY <1>1, Zenon
  <1>6. closing => IsOpen(m.cpu, x) /\ closed = Ran(m, SetReg([m.cpu EXCEPT !.fds[x + 1] = Closed], 0, 0))
    BY <1>1, Zenon
  <1> HIDE DEF opening, reading, writing, closing, opened, read, wrote, closed
  <1>7. \/ opening /\ Syscall(m, num) = opened
        \/ reading /\ Syscall(m, num) = read
        \/ writing /\ Syscall(m, num) = wrote
        \/ closing /\ Syscall(m, num) = closed
        \/ Syscall(m, num) = failed
    BY <1>2, OneOfFive, Zenon
  <1> QED BY <1>3, <1>4, <1>5, <1>6, <1>7, Zenon

\* A system call (VMState::handle_syscall) that succeeds.
LEMMA SyscallRan ==
  ASSUME NEW m, VmOk(m), NEW num, m.cpu.pc + 1 \in Address, m.cpu.steps < MaxSteps,
         Syscall(m, num).result = "ok"
  PROVE  /\ VmOk(Syscall(m, num).vm) /\ Syscall(m, num).vm.cpu.steps = m.cpu.steps + 1
         /\ Syscall(m, num).pages \subseteq Pages
  <1> DEFINE x == m.cpu.regs[1]
             y == m.cpu.regs[2]
             z == m.cpu.regs[3]
             path == ReadHeap(m.heap, x, y)
  <1>1. x \in Nat /\ y \in Nat /\ z \in Nat /\ m.heap \in [Addr -> Byte]
    <2>1. m.cpu.regs \in [Reg -> Address] /\ m.heap \in [Addr -> Byte]
      BY DEF VmOk, Vm, Cpu
    <2> QED BY <2>1, Sizes
  <1>2. \/ InHeap(x, y) /\ Syscall(m, num) = Open(m, path, z # 0)
        \/ InHeap(y, z) /\ IsOpen(m.cpu, x) /\ Syscall(m, num) = ReadFile(m, x, y, z)
        \/ InHeap(y, z) /\ IsOpen(m.cpu, x) /\ Syscall(m, num) = WriteFile(m, x, y, z)
        \/ IsOpen(m.cpu, x) /\ Syscall(m, num) = Ran(m, SetReg([m.cpu EXCEPT !.fds[x + 1] = Closed], 0, 0))
        \/ Syscall(m, num) = Stopped(m, "error")
    BY SyscallForm, Zenon
  <1>3. Stopped(m, "error").result # "ok"
    BY DEF Stopped
  <1> HIDE DEF x, y, z
  <1>4. CASE InHeap(x, y) /\ Syscall(m, num) = Open(m, path, z # 0)
    <2>1. path \in Seq(Byte)
      BY <1>1, <1>4, HeapBytes
    <2>2. PICK w \in BOOLEAN : w = (z # 0)
      OBVIOUS
    <2>3. Syscall(m, num) = Open(m, path, w)
      BY <1>4, <2>2
    <2> HIDE DEF path
    <2> QED BY <2>1, <2>3, OpenRan
  <1>5. CASE InHeap(y, z) /\ IsOpen(m.cpu, x) /\ Syscall(m, num) = ReadFile(m, x, y, z)
    <2>1. PICK left : left = ReadFile(m, x, y, z)
      OBVIOUS
    <2>2. VmOk(left.vm) /\ left.vm.cpu.steps = m.cpu.steps + 1 /\ left.pages \subseteq Pages
      BY <1>1, <1>5, <2>1, ReadRan
    <2> QED BY <1>5, <2>1, <2>2
  <1>6. CASE InHeap(y, z) /\ IsOpen(m.cpu, x) /\ Syscall(m, num) = WriteFile(m, x, y, z)
    BY <1>1, <1>6, WriteRan
  <1>7. CASE IsOpen(m.cpu, x) /\ Syscall(m, num) = Ran(m, SetReg([m.cpu EXCEPT !.fds[x + 1] = Closed], 0, 0))
    BY <1>1, <1>7, CloseRan
  <1> QED BY <1>2, <1>3, <1>4, <1>5, <1>6, <1>7

\* What an instruction names is there.
LEMMA InstructionForm ==
  ASSUME NEW i \in Instruction
  PROVE  /\ i.op \in Computing => i.dst \in Reg
         /\ i.op = "LoadImm" => i.val \in Address
         /\ i.op = "Mov" => i.src \in Reg
         /\ i.op \in {"Add", "Sub", "Mul"} => i.a \in Reg /\ i.b \in Reg
         /\ i.op = "Jz" => i.cond \in Reg /\ i.off \in Int
         /\ i.op = "Jump" => i.off \in Int
         /\ i.op = "Call" => i.addr \in Address
         /\ i.op = "LoadMem" => i.dst \in Reg /\ i.addr \in Reg
         /\ i.op = "StoreMem" => i.addr \in Reg /\ i.src \in Reg
         /\ i.op = "Alloc" => i.dst \in Reg /\ i.size \in Reg
         /\ i.op \in Computing \cup {"Jz", "Jump", "Call", "Ret", "Halt", "Print", "LoadMem", "StoreMem", "Alloc", "Syscall"}
  BY DEF Instruction, Computing, Address

\* The programs are sequences of instructions that can be addressed.
LEMMA ProgramForm ==
  ASSUME program \in Programs
  PROVE  /\ program \in Seq(Instruction) /\ Len(program) \in Nat /\ Len(program) < Word
         /\ Len(program) \in Address
         /\ \A n \in DOMAIN program : program[n] \in Instruction
  <1>1. program \in Seq(Instruction) /\ Len(program) < Word
    BY MachineAssumption
  <1> HIDE DEF Instruction
  <1> QED BY <1>1, Sizes DEF Address

\* What a computing instruction computes is a word.
LEMMA ValueWord ==
  ASSUME NEW i \in Instruction, i.op \in Computing, NEW regs \in [Reg -> Address]
  PROVE  Value(i, regs) \in Address
  <1>1. /\ i.op = "LoadImm" => i.val \in Address
        /\ i.op = "Mov" => regs[i.src] \in Address
        /\ i.op \in {"Add", "Sub", "Mul"} => regs[i.a] \in Address /\ regs[i.b] \in Address
    BY InstructionForm
  <1>2. \A k, l \in Address : (k + l) % Word \in Address /\ (k - l) % Word \in Address /\ (k * l) % Word \in Address
    <2>1. \A k \in Int : k % Word \in Address
      BY Sizes DEF Address
    <2>2. \A k, l \in Address : k + l \in Int /\ k - l \in Int /\ k * l \in Int
      BY Sizes
    <2> QED BY <2>1, <2>2
  <1> QED BY <1>1, <1>2 DEF Value, Computing

-----------------------------------------------------------------------------
(* Runs.                                                                    *)

\* The states of a machine that runs on, one after the other.
LEMMA RunStates ==
  ASSUME NEW m
  PROVE  /\ Uninterrupted(m)[0] = m
         /\ \A n \in 1..MaxSteps : Uninterrupted(m)[n] = Step(Uninterrupted(m)[n - 1]).vm
  <1> DEFINE IsRun(f, n) == f = [k \in 0..n |-> IF k = 0 THEN m ELSE Step(f[k - 1]).vm]
             S == {n \in Nat : \E f : IsRun(f, n)}
  <1>0. MaxSteps \in Nat
    BY MachineAssumption
  <1>1. 0 \in S
    <2>1. IsRun([k \in 0..0 |-> m], 0)
      OBVIOUS
    <2> QED BY <2>1
  <1>2. ASSUME NEW n \in S PROVE n + 1 \in S
    <2>1. PICK f : IsRun(f, n)
      OBVIOUS
    <2> DEFINE next == Step(f[n]).vm
               g == [k \in 0..(n + 1) |-> IF k <= n THEN f[k] ELSE next]
    <2>2. \A k \in 0..n : f[k] = IF k = 0 THEN m ELSE Step(f[k - 1]).vm
      BY <2>1
    <2>3. \A k \in 0..(n + 1) : g[k] = IF k = 0 THEN m ELSE Step(g[k - 1]).vm
      <3> SUFFICES ASSUME NEW k \in 0..(n + 1) PROVE g[k] = IF k = 0 THEN m ELSE Step(g[k - 1]).vm
        OBVIOUS
      <3>1. CASE k <= n
        <4>1. g[k] = f[k] /\ (k # 0 => g[k - 1] = f[k - 1])
          BY <3>1
        <4> QED BY <2>2, <3>1, <4>1
      <3>2. CASE k = n + 1
        <4>1. g[k] = next /\ g[k - 1] = f[n] /\ k # 0
          BY <3>2
        <4> QED BY <4>1
      <3> QED BY <3>1, <3>2
    <2> HIDE DEF next
    <2>4. IsRun(g, n + 1)
      <3>1. g = [k \in 0..(n + 1) |-> g[k]]
        OBVIOUS
      <3> HIDE DEF g
      <3> QED BY <2>3, <3>1
    <2> HIDE DEF IsRun, g
    <2> QED BY <2>4
  <1>3. MaxSteps \in S
    <2>1. \A n \in 0..MaxSteps : n \in S
      <3> HIDE DEF S
      <3> QED BY <1>0, <1>1, <1>2, NumberInduction
    <2>2. MaxSteps \in 0..MaxSteps
      BY <1>0
    <2> HIDE DEF S
    <2> QED BY <2>1, <2>2
  <1>4. IsRun(Uninterrupted(m), MaxSteps)
    <2>1. Uninterrupted(m) = CHOOSE f : IsRun(f, MaxSteps)
      BY DEF Uninterrupted
    <2>2. \E f : IsRun(f, MaxSteps)
      BY <1>3
    <2> HIDE DEF IsRun
    <2> QED BY <2>1, <2>2
  <1> QED BY <1>0, <1>4

\* What a snapshot becomes patch by patch.
LEMMA PatchStages ==
  ASSUME NEW patches, Len(patches) \in Nat, NEW s
  PROVE  /\ Stages(patches, s)[0] = s
         /\ \A n \in 1..Len(patches) : Stages(patches, s)[n] = Applied(Stages(patches, s)[n - 1], patches[n])
  <1> DEFINE IsRun(f, n) == f = [k \in 0..n |-> IF k = 0 THEN s ELSE Applied(f[k - 1], patches[k])]
             S == {n \in Nat : \E f : IsRun(f, n)}
  <1>0. Len(patches) \in Nat
    OBVIOUS
  <1>1. 0 \in S
    <2>1. IsRun([k \in 0..0 |-> s], 0)
      OBVIOUS
    <2> QED BY <2>1
  <1>2. ASSUME NEW n \in S PROVE n + 1 \in S
    <2>1. PICK f : IsRun(f, n)
      OBVIOUS
    <2> DEFINE next == Applied(f[n], patches[n + 1])
               g == [k \in 0..(n + 1) |-> IF k <= n THEN f[k] ELSE next]
    <2>2. \A k \in 0..n : f[k] = IF k = 0 THEN s ELSE Applied(f[k - 1], patches[k])
      BY <2>1
    <2>3. \A k \in 0..(n + 1) : g[k] = IF k = 0 THEN s ELSE Applied(g[k - 1], patches[k])
      <3> SUFFICES ASSUME NEW k \in 0..(n + 1) PROVE g[k] = IF k = 0 THEN s ELSE Applied(g[k - 1], patches[k])
        OBVIOUS
      <3>1. CASE k <= n
        <4>1. g[k] = f[k] /\ (k # 0 => g[k - 1] = f[k - 1])
          BY <3>1
        <4> QED BY <2>2, <3>1, <4>1
      <3>2. CASE k = n + 1
        <4>1. g[k] = next /\ g[k - 1] = f[n] /\ k # 0 /\ patches[k] = patches[n + 1]
          BY <3>2
        <4> QED BY <4>1
      <3> QED BY <3>1, <3>2
    <2> HIDE DEF next
    <2>4. IsRun(g, n + 1)
      <3>1. g = [k \in 0..(n + 1) |-> g[k]]
        OBVIOUS
      <3> HIDE DEF g
      <3> QED BY <2>3, <3>1
    <2> HIDE DEF IsRun, g
    <2> QED BY <2>4
  <1>3. Len(patches) \in S
    <2>1. \A n \in 0..Len(patches) : n \in S
      <3> HIDE DEF S
      <3> QED BY <1>0, <1>1, <1>2, NumberInduction
    <2> QED BY <1>0, <2>1
  <1>4. IsRun(Stages(patches, s), Len(patches))
    <2>1. Stages(patches, s) = CHOOSE f : IsRun(f, Len(patches))
      BY DEF Stages
    <2>2. \E f : IsRun(f, Len(patches))
      BY <1>3
    <2> HIDE DEF IsRun
    <2> QED BY <2>1, <2>2
  <1> QED BY <1>0, <1>4

\* The registers of a block, instruction by instruction.
LEMMA BlockStages ==
  ASSUME NEW b \in Nat, NEW regs, BlockEnd(b) \in Nat, b <= BlockEnd(b)
  PROVE  /\ Computed(b, regs)[b] = regs
         /\ \A n \in (b + 1)..BlockEnd(b) : Computed(b, regs)[n] = Compute(Computed(b, regs)[n - 1], program[n])
  <1> DEFINE IsRun(f, n) == f = [k \in b..n |-> IF k = b THEN regs ELSE Compute(f[k - 1], program[k])]
             S == {n \in Nat : n >= b /\ \E f : IsRun(f, n)}
  <1>0. BlockEnd(b) \in Nat
    OBVIOUS
  <1>1. b \in S
    <2>1. IsRun([k \in b..b |-> regs], b)
      OBVIOUS
    <2> HIDE DEF IsRun
    <2> QED BY <2>1
  <1>2. ASSUME NEW n \in S PROVE n + 1 \in S
    <2>1. PICK f : IsRun(f, n)
      OBVIOUS
    <2> DEFINE next == Compute(f[n], program[n + 1])
               g == [k \in b..(n + 1) |-> IF k <= n THEN f[k] ELSE next]
    <2>2. \A k \in b..n : f[k] = IF k = b THEN regs ELSE Compute(f[k - 1], program[k])
      BY <2>1
    <2>3. \A k \in b..(n + 1) : g[k] = IF k = b THEN regs ELSE Compute(g[k - 1], program[k])
      <3> SUFFICES ASSUME NEW k \in b..(n + 1) PROVE g[k] = IF k = b THEN regs ELSE Compute(g[k - 1], program[k])
        OBVIOUS
      <3>1. CASE k <= n
        <4>1. g[k] = f[k] /\ (k # b => g[k - 1] = f[k - 1])
          BY <3>1
        <4> QED BY <2>2, <3>1, <4>1
      <3>2. CASE k = n + 1
        <4>1. g[k] = next /\ g[k - 1] = f[n] /\ k # b /\ program[k] = program[n + 1]
          BY <3>2
        <4> QED BY <4>1
      <3> QED BY <3>1, <3>2
    <2> HIDE DEF next
    <2>4. IsRun(g, n + 1)
      <3>1. g = [k \in b..(n + 1) |-> g[k]]
        OBVIOUS
      <3> HIDE DEF g
      <3> QED BY <2>3, <3>1
    <2> HIDE DEF IsRun, g
    <2> QED BY <2>4
  <1>3. BlockEnd(b) \in S
    <2>1. \A n \in b..BlockEnd(b) : n \in S
      <3> HIDE DEF S
      <3> QED BY <1>0, <1>1, <1>2, NumberInduction
    <2> QED BY <1>0, <2>1
  <1>4. IsRun(Computed(b, regs), BlockEnd(b))
    <2>1. Computed(b, regs) = CHOOSE f : IsRun(f, BlockEnd(b))
      BY DEF Computed
    <2>2. \E f : IsRun(f, BlockEnd(b))
      BY <1>3
    <2> HIDE DEF IsRun
    <2> QED BY <2>1, <2>2
  <1> QED BY <1>0, <1>4

\* An instruction that succeeds leaves a machine in order that executed one more.
LEMMA StepOk ==
  ASSUME program \in Programs, NEW m, VmOk(m), m.cpu.steps < MaxSteps, Step(m).result = "ok"
  PROVE  /\ VmOk(Step(m).vm) /\ Step(m).vm.cpu.steps = m.cpu.steps + 1
         /\ Step(m).pages \subseteq Pages
  <1> DEFINE c == m.cpu
             i == program[c.pc + 1]
  <1>1. /\ c \in Cpu /\ m.heap \in [Addr -> Byte] /\ FilesOk(c) /\ c.regs \in [Reg -> Address] /\ c.pc \in Address
        /\ c.stack \in Seq(Address) /\ c.top \in 0..HeapLen /\ c.steps \in Nat /\ c.fds \in Seq(Descriptor)
    BY DEF VmOk, Vm, Cpu
  <1>0. c.pc \in Nat /\ Len(program) \in Nat /\ Len(program) < Word
    <2>1. c.pc \in Address /\ Address \subseteq Nat
      BY <1>1, Sizes
    <2> QED BY <2>1, ProgramForm
  <1>2. c.pc < Len(program) /\ \A n, w : Stopped(n, w).result = w
    <2>1. \A n, w : Stopped(n, w).result = w
      BY DEF Stopped
    <2>2. ~(c.pc >= Len(program))
      <3> SUFFICES ASSUME c.pc >= Len(program) PROVE FALSE
        OBVIOUS
      <3>1. Step(m) = Stopped(m, "halted")
        BY DEF Step
      <3> QED BY <2>1, <3>1
    <2> QED BY <1>0, <2>1, <2>2
  <1>3. c.pc + 1 \in DOMAIN program /\ i \in Instruction /\ c.pc + 1 \in Address
    <2>1. c.pc + 1 \in 1..Len(program) /\ c.pc + 1 \in 0..(Word - 1)
      BY <1>0, <1>2, Sizes
    <2> QED BY <2>1, ProgramForm DEF Address
  <1> DEFINE left == Step(m)
  <1>4. \/ i.op \in Computing /\ left = Ran(m, SetReg(c, i.dst, Value(i, c.regs)))
        \/ i.op = "Jz" /\ left = Goto(m, IF c.regs[i.cond] = 0 THEN Target(c.pc, i.off) ELSE c.pc + 1)
        \/ i.op = "Jump" /\ left = Goto(m, Target(c.pc, i.off))
        \/ i.op = "Call" /\ left = Ran(m, [c EXCEPT !.stack = Append(@, c.pc + 1), !.pc = i.addr])
        \/ i.op = "Ret" /\ c.stack # <<>> /\ left = Ran(m, [c EXCEPT !.stack = Front(@), !.pc = Last(c.stack)])
        \/ i.op = "Print" /\ left = Goto(m, c.pc + 1)
        \/ i.op = "LoadMem" /\ c.regs[i.addr] \in Addr /\ left = Ran(m, SetReg(c, i.dst, m.heap[c.regs[i.addr]]))
        \/ /\ i.op = "StoreMem" /\ c.regs[i.addr] \in Addr
           /\ left = RanWith([c EXCEPT !.pc = @ + 1],
                             WriteHeap(m.heap, c.regs[i.addr], <<c.regs[i.src] % ByteSize>>),
                             PagesOf(c.regs[i.addr], 1))
        \/ /\ i.op = "Alloc" /\ c.top + c.regs[i.size] <= HeapLen
           /\ left = Ran(m, SetReg([c EXCEPT !.top = @ + c.regs[i.size]], i.dst, c.top))
        \/ i.op = "Syscall" /\ left = Syscall(m, i.num)
        \/ left.result # "ok"
    <2>0. ~(c.pc >= Len(program))
      BY <1>0, <1>2
    <2>1. i.op \in Computing => left = Ran(m, SetReg(c, i.dst, Value(i, c.regs)))
      BY <2>0 DEF Step, Computing
    <2>2. i.op = "Jz" => left = Goto(m, IF c.regs[i.cond] = 0 THEN Target(c.pc, i.off) ELSE c.pc + 1)
      BY <2>0 DEF Step, Computing
    <2>3. i.op = "Jump" => left = Goto(m, Target(c.pc, i.off))
      BY <2>0 DEF Step, Computing
    <2>4. i.op = "Call" => left = Ran(m, [c EXCEPT !.stack = Append(@, c.pc + 1), !.pc = i.addr])
      BY <2>0 DEF Step, Computing
    <2>5. i.op = "Ret" => \/ c.stack # <<>> /\ left = Ran(m, [c EXCEPT !.stack = Front(@), !.pc = Last(c.stack)])
                          \/ left = Stopped(m, "error")
      BY <2>0 DEF Step, Computing
    <2>6. i.op = "Print" => left = Goto(m, c.pc + 1)
      BY <2>0 DEF Step, Computing
    <2>7. i.op = "LoadMem" =>
            \/ c.regs[i.addr] \in Addr /\ left = Ran(m, SetReg(c, i.dst, m.heap[c.regs[i.addr]]))
            \/ left = Stopped(m, "error")
      BY <2>0 DEF Step, Computing
    <2>8. i.op = "StoreMem" =>
            \/ /\ c.regs[i.addr] \in Addr
               /\ left = RanWith([c EXCEPT !.pc = @ + 1],
                                 WriteHeap(m.heap, c.regs[i.addr], <<c.regs[i.src] % ByteSize>>),
                                 PagesOf(c.regs[i.addr], 1))
            \/ left = Stopped(m, "error")
      BY <2>0 DEF Step, Computing
    <2>9. i.op = "Alloc" =>
            \/ /\ c.top + c.regs[i.size] <= HeapLen
               /\ left = Ran(m, SetReg([c EXCEPT !.top = @ + c.regs[i.size]], i.dst, c.top))
            \/ left = Stopped(m, "error")
      BY <2>0 DEF Step, Computing
    <2>10. i.op = "Syscall" => left = Syscall(m, i.num)
      BY <2>0 DEF Step, Computing
    <2>11. i.op = "Halt" => left = Stopped(m, "halted")
      BY <2>0 DEF Step, Computing
    <2> HIDE DEF left, i
    <2>12. i.op \in Computing \cup {"Jz", "Jump", "Call", "Ret", "Halt", "Print", "LoadMem", "StoreMem", "Alloc", "Syscall"}
      BY <1>3, InstructionForm
    <2>13. Stopped(m, "error").result # "ok" /\ Stopped(m, "halted").result # "ok"
      BY <1>2
    <2> QED BY <2>1, <2>2, <2>3, <2>4, <2>5, <2>6, <2>7, <2>8, <2>9, <2>10, <2>11, <2>12, <2>13
  <1> HIDE DEF left, i
  <1>5. \A off \in Int : Target(c.pc, off) \in Address
    <2>1. c.pc \in Int /\ Word \in Nat \ {0}
      BY <1>0, Sizes
    <2> QED BY <2>1 DEF Target, Address
  <1>6. ASSUME NEW pages, pages \subseteq Pages, RanFrom(left, m, pages)
        PROVE  /\ VmOk(Step(m).vm) /\ Step(m).vm.cpu.steps = m.cpu.steps + 1
               /\ Step(m).pages \subseteq Pages
    BY <1>6, Zenon DEF RanFrom, left
  <1>7. CASE i.op \in Computing /\ left = Ran(m, SetReg(c, i.dst, Value(i, c.regs)))
    <2>1. i.dst \in Reg /\ Value(i, c.regs) \in Address
      BY <1>1, <1>3, <1>7, InstructionForm, ValueWord
    <2> QED BY <1>3, <1>7, <2>1, SetRan DEF left
  <1>8. CASE i.op = "Jz" /\ left = Goto(m, IF c.regs[i.cond] = 0 THEN Target(c.pc, i.off) ELSE c.pc + 1)
    <2>1. i.off \in Int
      BY <1>3, <1>8, InstructionForm
    <2>2. PICK pc \in Address : pc = (IF c.regs[i.cond] = 0 THEN Target(c.pc, i.off) ELSE c.pc + 1)
      BY <1>3, <1>5, <2>1
    <2> QED BY <1>8, <2>2, GotoRan DEF left
  <1>9. CASE i.op = "Jump" /\ left = Goto(m, Target(c.pc, i.off))
    <2>1. Target(c.pc, i.off) \in Address
      BY <1>3, <1>5, <1>9, InstructionForm
    <2> QED BY <1>9, <2>1, GotoRan DEF left
  <1>10. CASE i.op = "Call" /\ left = Ran(m, [c EXCEPT !.stack = Append(@, c.pc + 1), !.pc = i.addr])
    <2> DEFINE d == [[c EXCEPT !.stack = Append(c.stack, c.pc + 1)] EXCEPT !.pc = i.addr]
    <2>1. i.addr \in Address /\ Append(c.stack, c.pc + 1) \in Seq(Address)
      BY <1>1, <1>3, <1>10, InstructionForm
    <2>2. d \in Cpu /\ d.steps = c.steps /\ d.files = c.files /\ d.fds = c.fds
      BY <1>1, <2>1 DEF Cpu
    <2>3. left = RanWith(d, m.heap, {})
      BY <1>1, <1>10 DEF Ran, Cpu
    <2> HIDE DEF d
    <2>4. RanFrom(left, m, {})
      BY <1>1, <2>2, <2>3, RanKeeps, Zenon
    <2>5. {} \subseteq Pages
      OBVIOUS
    <2> QED BY <1>6, <2>4, <2>5
  <1>11. CASE i.op = "Ret" /\ c.stack # <<>> /\ left = Ran(m, [c EXCEPT !.stack = Front(@), !.pc = Last(c.stack)])
    <2> DEFINE d == [[c EXCEPT !.stack = Front(c.stack)] EXCEPT !.pc = Last(c.stack)]
    <2>1. Last(c.stack) \in Address /\ Front(c.stack) \in Seq(Address)
      BY <1>1, <1>11 DEF Last, Front
    <2>2. d \in Cpu /\ d.steps = c.steps /\ d.files = c.files /\ d.fds = c.fds
      BY <1>1, <2>1 DEF Cpu
    <2>3. left = RanWith(d, m.heap, {})
      BY <1>1, <1>11 DEF Ran, Cpu
    <2> HIDE DEF d
    <2>4. RanFrom(left, m, {})
      BY <1>1, <2>2, <2>3, RanKeeps, Zenon
    <2>5. {} \subseteq Pages
      OBVIOUS
    <2> QED BY <1>6, <2>4, <2>5
  <1>12. CASE i.op = "Print" /\ left = Goto(m, c.pc + 1)
    BY <1>3, <1>12, GotoRan DEF left
  <1>13. CASE i.op = "LoadMem" /\ c.regs[i.addr] \in Addr /\ left = Ran(m, SetReg(c, i.dst, m.heap[c.regs[i.addr]]))
    <2>1. i.dst \in Reg /\ m.heap[c.regs[i.addr]] \in Address
      BY <1>1, <1>3, <1>13, InstructionForm, Sizes
    <2>2. PICK v \in Address : v = m.heap[c.regs[i.addr]]
      BY <2>1
    <2>3. PICK r \in Reg : left = Ran(m, SetReg(m.cpu, r, v))
      BY <1>13, <2>1, <2>2
    <2> QED BY <1>3, <2>3, SetRan DEF left
  <1>14. CASE /\ i.op = "StoreMem" /\ c.regs[i.addr] \in Addr
              /\ left = RanWith([c EXCEPT !.pc = @ + 1],
                                WriteHeap(m.heap, c.regs[i.addr], <<c.regs[i.src] % ByteSize>>),
                                PagesOf(c.regs[i.addr], 1))
    <2> DEFINE d == [c EXCEPT !.pc = c.pc + 1]
               heap == WriteHeap(m.heap, c.regs[i.addr], <<c.regs[i.src] % ByteSize>>)
    <2>1. i.src \in Reg /\ c.regs[i.addr] \in Nat /\ c.regs[i.src] \in Nat
      BY <1>1, <1>3, <1>14, InstructionForm, Sizes
    <2>2. <<c.regs[i.src] % ByteSize>> \in Seq(Byte)
      <3>1. c.regs[i.src] % ByteSize \in Byte
        BY <2>1, Sizes DEF Byte
      <3> QED BY <3>1
    <2>3. heap \in [Addr -> Byte]
      BY <1>1, <2>1, <2>2, HeapBytes
    <2>4. d \in Cpu /\ d.steps = c.steps /\ d.files = c.files /\ d.fds = c.fds
      BY <1>1, <1>3 DEF Cpu
    <2>5. PICK pages : left = RanWith(d, heap, pages) /\ pages \subseteq Pages
      <3>1. PagesOf(c.regs[i.addr], 1) \subseteq Pages
        <4>1. InHeap(c.regs[i.addr], 1)
          BY <1>14, <2>1, Sizes DEF InHeap, Addr
        <4> QED BY <2>1, <4>1, PagesInHeap
      <3> QED BY <1>14, <3>1
    <2> HIDE DEF d, heap
    <2>6. RanFrom(left, m, pages)
      BY <1>1, <2>3, <2>4, <2>5, RanKeeps, Zenon
    <2> QED BY <1>6, <2>5, <2>6
  <1>15. CASE /\ i.op = "Alloc" /\ c.top + c.regs[i.size] <= HeapLen
              /\ left = Ran(m, SetReg([c EXCEPT !.top = @ + c.regs[i.size]], i.dst, c.top))
    <2> DEFINE d == [c EXCEPT !.top = c.top + c.regs[i.size]]
    <2>1. i.dst \in Reg /\ i.size \in Reg /\ c.regs[i.size] \in Nat /\ c.top \in Nat /\ c.top \in Address
      <3>1. i.dst \in Reg /\ i.size \in Reg
        BY <1>3, <1>15, InstructionForm
      <3>2. c.regs[i.size] \in Address /\ Address \subseteq Nat
        BY <1>1, <3>1, Sizes
      <3>3. c.top \in 0..(Word - 1)
        BY <1>1, Sizes
      <3> QED BY <3>1, <3>2, <3>3 DEF Address
    <2>2. c.top + c.regs[i.size] \in 0..HeapLen
      BY <1>15, <2>1, Sizes
    <2>3. d \in Cpu /\ d.steps = c.steps /\ d.files = c.files /\ d.fds = c.fds /\ d.pc = c.pc
      BY <1>1, <2>2 DEF Cpu
    <2>4. PICK e : e = SetReg(d, i.dst, c.top)
      OBVIOUS
    <2>5. left = RanWith(e, m.heap, {})
      BY <1>15, <2>4 DEF Ran
    <2> HIDE DEF d
    <2>6. e \in Cpu /\ e.steps = c.steps /\ e.files = c.files /\ e.fds = c.fds
      BY <1>3, <2>1, <2>3, <2>4, SetRegOk
    <2>7. RanFrom(left, m, {})
      BY <1>1, <2>5, <2>6, RanKeeps, Zenon
    <2>8. {} \subseteq Pages
      OBVIOUS
    <2> QED BY <1>6, <2>7, <2>8
  <1>16. CASE i.op = "Syscall" /\ left = Syscall(m, i.num)
    BY <1>3, <1>16, SyscallRan DEF left
  <1>17. CASE left.result # "ok"
    BY <1>17 DEF left
  <1> QED BY <1>4, <1>7, <1>8, <1>9, <1>10, <1>11, <1>12, <1>13, <1>14, <1>15, <1>16, <1>17

-----------------------------------------------------------------------------
(* Patch sets.                                                              *)

\* A machine in order within the bound on its steps.
Sound(m) == VmOk(m) /\ m.cpu.steps <= MaxSteps

\* A patch: what it changes, the new value and the old one.
Patch ==
  [kind : {"Reg", "Pc", "CallStackEntry", "HeapTop"}, index : Nat, new : Address, old : Address]
  \cup [kind : {"HeapRange"}, index : Nat, new : Seq(Byte), old : Seq(Byte)]

\* The fields of a patch and of an edit.
LEMMA PatchFields ==
  /\ \A p \in Patch : /\ p.kind \in {"Reg", "Pc", "CallStackEntry", "HeapTop", "HeapRange"} /\ p.index \in Nat
                      /\ p.kind # "HeapRange" => p.new \in Address /\ p.old \in Address
                      /\ p.kind = "HeapRange" => p.new \in Seq(Byte) /\ p.old \in Seq(Byte)
                      /\ p = [kind |-> p.kind, index |-> p.index, new |-> p.new, old |-> p.old]
  /\ \A e \in EditForm : /\ e.kind \in {"Reg", "Pc", "CallStackEntry", "HeapTop", "HeapRange"} /\ e.index \in Nat
                         /\ e.kind # "HeapRange" => e.new \in Address
                         /\ e.kind = "HeapRange" => e.new \in Seq(Byte)
  <1>1. ASSUME NEW p \in Patch
        PROVE  /\ p.kind \in {"Reg", "Pc", "CallStackEntry", "HeapTop", "HeapRange"} /\ p.index \in Nat
               /\ p.kind # "HeapRange" => p.new \in Address /\ p.old \in Address
               /\ p.kind = "HeapRange" => p.new \in Seq(Byte) /\ p.old \in Seq(Byte)
               /\ p = [kind |-> p.kind, index |-> p.index, new |-> p.new, old |-> p.old]
    BY DEF Patch
  <1>2. ASSUME NEW e \in EditForm
        PROVE  /\ e.kind \in {"Reg", "Pc", "CallStackEntry", "HeapTop", "HeapRange"} /\ e.index \in Nat
               /\ e.kind # "HeapRange" => e.new \in Address
               /\ e.kind = "HeapRange" => e.new \in Seq(Byte)
    BY DEF EditForm, Address, Byte
  <1> QED BY <1>1, <1>2

\* A patch that applies leaves a machine in order.
LEMMA AppliedOk ==
  ASSUME NEW s, Sound(s), NEW p \in Patch, Applies(p, s)
  PROVE  Sound(Applied(s, p)) /\ Applied(s, p).cpu.steps = s.cpu.steps
  <1>1. /\ s.cpu \in Cpu /\ s.heap \in [Addr -> Byte] /\ FilesOk(s.cpu) /\ s.cpu.steps <= MaxSteps
        /\ s = [cpu |-> s.cpu, heap |-> s.heap]
    BY DEF Sound, VmOk, Vm
  <1>2. /\ p.kind \in {"Reg", "Pc", "CallStackEntry", "HeapTop", "HeapRange"} /\ p.index \in Nat
        /\ p.kind # "HeapRange" => p.new \in Address
        /\ p.kind = "HeapRange" => p.new \in Seq(Byte)
    BY PatchFields
  <1> DEFINE t == Applied(s, p)
  <1>3. /\ t.cpu \in Cpu /\ t.heap \in [Addr -> Byte] /\ t = [cpu |-> t.cpu, heap |-> t.heap]
        /\ t.cpu.steps = s.cpu.steps /\ t.cpu.fds = s.cpu.fds /\ t.cpu.files = s.cpu.files
    <2>0. ASSUME NEW d \in Cpu, d.steps = s.cpu.steps, d.fds = s.cpu.fds, d.files = s.cpu.files,
                 t = [s EXCEPT !.cpu = d]
          PROVE  /\ t.cpu \in Cpu /\ t.heap \in [Addr -> Byte] /\ t = [cpu |-> t.cpu, heap |-> t.heap]
                 /\ t.cpu.steps = s.cpu.steps /\ t.cpu.fds = s.cpu.fds /\ t.cpu.files = s.cpu.files
      <3> HIDE DEF t
      <3>1. t = [cpu |-> d, heap |-> s.heap]
        BY <1>1, <2>0
      <3> QED BY <1>1, <2>0, <3>1
    <2>1. CASE p.kind = "Reg"
      <3> DEFINE d == [s.cpu EXCEPT !.regs = [s.cpu.regs EXCEPT ![p.index] = p.new]]
      <3>1. t = [s EXCEPT !.cpu = d]
        BY <1>1, <2>1 DEF Applied, Cpu
      <3>2. [s.cpu.regs EXCEPT ![p.index] = p.new] \in [Reg -> Address]
        BY <1>1, <1>2, <2>1 DEF Cpu
      <3>3. d \in Cpu /\ d.steps = s.cpu.steps /\ d.fds = s.cpu.fds /\ d.files = s.cpu.files
        BY <1>1, <3>2 DEF Cpu
      <3> HIDE DEF d, t
      <3> QED BY <2>0, <3>1, <3>3, Zenon
    <2>2. CASE p.kind = "Pc"
      <3> DEFINE d == [s.cpu EXCEPT !.pc = p.new]
      <3>1. t = [s EXCEPT !.cpu = d]
        BY <1>1, <2>2 DEF Applied, Cpu
      <3>2. d \in Cpu /\ d.steps = s.cpu.steps /\ d.fds = s.cpu.fds /\ d.files = s.cpu.files
        BY <1>1, <1>2, <2>2 DEF Cpu
      <3> HIDE DEF d, t
      <3> QED BY <2>0, <3>1, <3>2, Zenon
    <2>3. CASE p.kind = "CallStackEntry"
      <3> DEFINE d == [s.cpu EXCEPT !.stack = [s.cpu.stack EXCEPT ![p.index] = p.new]]
      <3>1. t = [s EXCEPT !.cpu = d]
        BY <1>1, <2>3 DEF Applied, Cpu
      <3>2. [s.cpu.stack EXCEPT ![p.index] = p.new] \in Seq(Address)
        <4>1. s.cpu.stack \in Seq(Address) /\ p.new \in Address
          BY <1>1, <1>2, <2>3 DEF Cpu
        <4>2. p.index \in DOMAIN s.cpu.stack
          BY <2>3 DEF Applies
        <4> QED BY <4>1, <4>2, SeqExcept
      <3>3. d \in Cpu /\ d.steps = s.cpu.steps /\ d.fds = s.cpu.fds /\ d.files = s.cpu.files
        BY <1>1, <3>2 DEF Cpu
      <3> HIDE DEF d, t
      <3> QED BY <2>0, <3>1, <3>3, Zenon
    <2>4. CASE p.kind = "HeapTop"
      <3> DEFINE d == [s.cpu EXCEPT !.top = p.new]
      <3>1. t = [s EXCEPT !.cpu = d]
        BY <1>1, <2>4 DEF Applied, Cpu
      <3>2. p.new \in 0..HeapLen
        BY <1>2, <2>4, Sizes DEF Applies
      <3>3. d \in Cpu /\ d.steps = s.cpu.steps /\ d.fds = s.cpu.fds /\ d.files = s.cpu.files
        BY <1>1, <3>2 DEF Cpu
      <3> HIDE DEF d, t
      <3> QED BY <2>0, <3>1, <3>3, Zenon
    <2>5. CASE p.kind = "HeapRange"
      <3>1. t = [s EXCEPT !.heap = WriteHeap(s.heap, p.index, p.new)]
        BY <1>1, <2>5 DEF Applied
      <3>2. WriteHeap(s.heap, p.index, p.new) \in [Addr -> Byte]
        BY <1>1, <1>2, <2>5, HeapBytes
      <3> QED BY <1>1, <3>1, <3>2
    <2> QED BY <1>2, <2>1, <2>2, <2>3, <2>4, <2>5
  <1> HIDE DEF t
  <1>4. t \in Vm
    BY <1>3 DEF Vm
  <1> QED BY <1>1, <1>3, <1>4 DEF t, Sound, VmOk, FilesOk

\* So does a patch set.
LEMMA StagesOk ==
  ASSUME NEW s, Sound(s), NEW patches \in Seq(Patch), CanApply(patches, s)
  PROVE  \A n \in 0..Len(patches) : Sound(Stages(patches, s)[n]) /\ Stages(patches, s)[n].cpu.steps = s.cpu.steps
  <1> DEFINE stage == Stages(patches, s)
             S == {n \in Nat : Sound(stage[n]) /\ stage[n].cpu.steps = s.cpu.steps}
  <1>1. Len(patches) \in Nat /\ DOMAIN patches = 1..Len(patches)
    OBVIOUS
  <1>2. stage[0] = s /\ \A n \in 1..Len(patches) : stage[n] = Applied(stage[n - 1], patches[n])
    BY <1>1, PatchStages
  <1>3. \A n \in 1..Len(patches) : patches[n] \in Patch /\ Applies(patches[n], stage[n - 1])
    BY DEF CanApply
  <1> HIDE DEF stage
  <1>4. 0 \in S
    BY <1>2
  <1>5. ASSUME NEW n \in 0..Len(patches), n \in S, n < Len(patches) PROVE n + 1 \in S
    <2>1. n + 1 \in 1..Len(patches) /\ n + 1 - 1 = n
      BY <1>1, <1>5
    <2>2. stage[n + 1] = Applied(stage[n], patches[n + 1]) /\ patches[n + 1] \in Patch /\ Applies(patches[n + 1], stage[n])
      BY <1>2, <1>3, <2>1
    <2> QED BY <1>5, <2>1, <2>2, AppliedOk
  <1>6. \A n \in 0..Len(patches) : n \in S
    <2> HIDE DEF S
    <2> QED BY <1>1, <1>4, <1>5, NumberInduction
  <1> QED BY <1>6 DEF stage

\* What an edit finds where it applies.
LEMMA OldForm ==
  ASSUME NEW s, Sound(s), NEW e \in EditForm, Applies(e, s)
  PROVE  [kind |-> e.kind, index |-> e.index, new |-> e.new, old |-> Old(e, s)] \in Patch
  <1>1. s.cpu \in Cpu /\ s.heap \in [Addr -> Byte]
    BY DEF Sound, VmOk, Vm
  <1>2. /\ e.kind \in {"Reg", "Pc", "CallStackEntry", "HeapTop", "HeapRange"} /\ e.index \in Nat
        /\ e.kind # "HeapRange" => e.new \in Address
        /\ e.kind = "HeapRange" => e.new \in Seq(Byte)
    BY PatchFields
  <1>3. CASE e.kind = "HeapRange"
    <2>1. Len(e.new) \in Nat /\ InHeap(e.index, Len(e.new))
      BY <1>2, <1>3 DEF Applies
    <2>2. ReadHeap(s.heap, e.index, Len(e.new)) \in Seq(Byte)
      BY <1>1, <1>2, <2>1, HeapBytes
    <2>3. Old(e, s) \in Seq(Byte)
      BY <1>3, <2>2 DEF Old
    <2> QED BY <1>2, <1>3, <2>3 DEF Patch
  <1>4. CASE e.kind # "HeapRange"
    <2>1. e.kind = "Reg" => e.index \in Reg
      BY DEF Applies
    <2>2. e.kind = "CallStackEntry" => e.index \in DOMAIN s.cpu.stack
      BY DEF Applies
    <2>3. s.cpu.regs \in [Reg -> Address] /\ s.cpu.stack \in Seq(Address) /\ s.cpu.pc \in Address /\ s.cpu.top \in Address
      <3>1. s.cpu.top \in 0..HeapLen
        BY <1>1 DEF Cpu
      <3>2. s.cpu.top \in 0..(Word - 1)
        BY <3>1, Sizes
      <3> QED BY <1>1, <3>2 DEF Cpu, Address
    <2>4. s.cpu.stack \in Seq(Address) => \A n \in DOMAIN s.cpu.stack : s.cpu.stack[n] \in Address
      OBVIOUS
    <2>5. Old(e, s) \in Address
      BY <1>2, <1>4, <2>1, <2>2, <2>3, <2>4 DEF Old
    <2> QED BY <1>2, <1>4, <2>5 DEF Patch
  <1> QED BY <1>3, <1>4

\* Setting a field of a processor and setting it back.
LEMMA SetBack ==
  ASSUME NEW c \in Cpu, NEW v
  PROVE  /\ [[c EXCEPT !.regs = v] EXCEPT !.regs = c.regs] = c
         /\ [[c EXCEPT !.pc = v] EXCEPT !.pc = c.pc] = c
         /\ [[c EXCEPT !.stack = v] EXCEPT !.stack = c.stack] = c
         /\ [[c EXCEPT !.top = v] EXCEPT !.top = c.top] = c
  BY DEF Cpu

\* A patch with the value it found undoes itself.
LEMMA UndoesPatch ==
  ASSUME NEW s, Sound(s), NEW p \in Patch, Applies(p, s), p.old = Old(p, s)
  PROVE  Applies(Undo(p), Applied(s, p)) /\ Applied(Applied(s, p), Undo(p)) = s
  <1>1. /\ s.cpu \in Cpu /\ s.heap \in [Addr -> Byte] /\ s = [cpu |-> s.cpu, heap |-> s.heap]
    BY DEF Sound, VmOk, Vm
  <1>2. /\ p.kind \in {"Reg", "Pc", "CallStackEntry", "HeapTop", "HeapRange"} /\ p.index \in Nat
        /\ p.kind # "HeapRange" => p.new \in Address /\ p.old \in Address
        /\ p.kind = "HeapRange" => p.new \in Seq(Byte) /\ p.old \in Seq(Byte)
    BY PatchFields
  <1> DEFINE u == Undo(p)
             t == Applied(s, p)
  <1>3. u.kind = p.kind /\ u.index = p.index /\ u.new = p.old /\ u.old = p.new
    BY DEF Undo, Patch
  <1> HIDE DEF u
  <1>4. CASE p.kind = "Reg"
    <2> DEFINE regs == s.cpu.regs
               changed == [regs EXCEPT ![p.index] = p.new]
    <2>1. t = [s EXCEPT !.cpu = [s.cpu EXCEPT !.regs = changed]]
      BY <1>1, <1>4 DEF Applied, Cpu
    <2>2. regs \in [Reg -> Address] /\ p.index \in Reg /\ p.old = regs[p.index]
      BY <1>1, <1>4 DEF Cpu, Applies, Old
    <2>3. [changed EXCEPT ![p.index] = p.old] = regs
      BY <2>2
    <2> HIDE DEF changed
    <2>4. t.cpu = [s.cpu EXCEPT !.regs = changed] /\ t = [cpu |-> t.cpu, heap |-> s.heap]
      BY <1>1, <2>1
    <2>5. Applied(t, u) = [t EXCEPT !.cpu = [t.cpu EXCEPT !.regs = [changed EXCEPT ![p.index] = p.old]]]
      BY <1>1, <1>3, <1>4, <2>4 DEF Applied, Cpu
    <2>6. Applied(t, u) = [cpu |-> [[s.cpu EXCEPT !.regs = changed] EXCEPT !.regs = s.cpu.regs], heap |-> s.heap]
      <3> HIDE DEF t
      <3>1. Applied(t, u) = [t EXCEPT !.cpu = [[s.cpu EXCEPT !.regs = changed] EXCEPT !.regs = s.cpu.regs]]
        BY <2>3, <2>4, <2>5
      <3>2. \A c : [t EXCEPT !.cpu = c] = [cpu |-> c, heap |-> s.heap]
        BY <2>4
      <3> QED BY <3>1, <3>2
    <2>7. [[s.cpu EXCEPT !.regs = changed] EXCEPT !.regs = s.cpu.regs] = s.cpu
      BY <1>1, SetBack
    <2> QED BY <1>1, <1>3, <1>4, <2>2, <2>6, <2>7 DEF Applies, u
  <1>5. CASE p.kind = "Pc"
    <2>1. t = [s EXCEPT !.cpu = [s.cpu EXCEPT !.pc = p.new]]
      BY <1>1, <1>5 DEF Applied, Cpu
    <2>2. Applied(t, u) = [t EXCEPT !.cpu = [t.cpu EXCEPT !.pc = s.cpu.pc]]
      BY <1>1, <1>3, <1>5, <2>1 DEF Applied, Old
    <2>3. Applied(t, u) = s
      <3>1. Applied(t, u) = [cpu |-> [[s.cpu EXCEPT !.pc = p.new] EXCEPT !.pc = s.cpu.pc], heap |-> s.heap]
        BY <1>1, <2>1, <2>2
      <3>2. [[s.cpu EXCEPT !.pc = p.new] EXCEPT !.pc = s.cpu.pc] = s.cpu
        BY <1>1, SetBack
      <3> QED BY <1>1, <3>1, <3>2
    <2> QED BY <1>3, <1>5, <2>3 DEF Applies, u
  <1>6. CASE p.kind = "CallStackEntry"
    <2> DEFINE stack == s.cpu.stack
               changed == [stack EXCEPT ![p.index] = p.new]
    <2>1. t = [s EXCEPT !.cpu = [s.cpu EXCEPT !.stack = changed]]
      BY <1>1, <1>6 DEF Applied, Cpu
    <2>2. stack \in Seq(Address) /\ p.index \in DOMAIN stack /\ p.old = stack[p.index]
      BY <1>1, <1>6 DEF Cpu, Applies, Old
    <2>3. [changed EXCEPT ![p.index] = p.old] = stack /\ p.index \in DOMAIN changed
      BY <2>2
    <2> HIDE DEF changed
    <2>4. t.cpu = [s.cpu EXCEPT !.stack = changed] /\ t = [cpu |-> t.cpu, heap |-> s.heap] /\ t.cpu.stack = changed
      BY <1>1, <2>1 DEF Cpu
    <2>5. Applied(t, u) = [t EXCEPT !.cpu = [t.cpu EXCEPT !.stack = [changed EXCEPT ![p.index] = p.old]]]
      BY <1>1, <1>3, <1>6, <2>4 DEF Applied, Cpu
    <2>6. Applied(t, u) = [cpu |-> [[s.cpu EXCEPT !.stack = changed] EXCEPT !.stack = s.cpu.stack], heap |-> s.heap]
      <3> HIDE DEF t
      <3>1. Applied(t, u) = [t EXCEPT !.cpu = [[s.cpu EXCEPT !.stack = changed] EXCEPT !.stack = s.cpu.stack]]
        BY <2>3, <2>4, <2>5
      <3>2. \A c : [t EXCEPT !.cpu = c] = [cpu |-> c, heap |-> s.heap]
        BY <2>4
      <3> QED BY <3>1, <3>2
    <2>7. [[s.cpu EXCEPT !.stack = changed] EXCEPT !.stack = s.cpu.stack] = s.cpu
      BY <1>1, SetBack
    <2>8. Applies(u, t)
      BY <1>3, <1>6, <2>3, <2>4 DEF Applies
    <2> QED BY <1>1, <2>6, <2>7, <2>8 DEF u
  <1>7. CASE p.kind = "HeapTop"
    <2>1. t = [s EXCEPT !.cpu = [s.cpu EXCEPT !.top = p.new]]
      BY <1>1, <1>7 DEF Applied, Cpu
    <2>2. Applied(t, u) = [t EXCEPT !.cpu = [t.cpu EXCEPT !.top = s.cpu.top]] /\ u.new = s.cpu.top
      BY <1>1, <1>3, <1>7, <2>1 DEF Applied, Old
    <2>3. Applied(t, u) = s
      <3>1. Applied(t, u) = [cpu |-> [[s.cpu EXCEPT !.top = p.new] EXCEPT !.top = s.cpu.top], heap |-> s.heap]
        BY <1>1, <2>1, <2>2
      <3>2. [[s.cpu EXCEPT !.top = p.new] EXCEPT !.top = s.cpu.top] = s.cpu
        BY <1>1, SetBack
      <3> QED BY <1>1, <3>1, <3>2
    <2>4. s.cpu.top <= HeapLen
      <3>1. s.cpu.top \in 0..HeapLen
        BY <1>1 DEF Cpu
      <3> QED BY <3>1, Sizes
    <2> QED BY <1>3, <1>7, <2>2, <2>3, <2>4 DEF Applies, u
  <1>8. CASE p.kind = "HeapRange"
    <2> DEFINE heap == s.heap
               changed == WriteHeap(heap, p.index, p.new)
               back == WriteHeap(changed, p.index, p.old)
    <2>1. Len(p.new) \in Nat /\ InHeap(p.index, Len(p.new))
      BY <1>2, <1>8 DEF Applies
    <2>2. p.old = ReadHeap(heap, p.index, Len(p.new))
      BY <1>8 DEF Old
    <2>3. Len(p.old) = Len(p.new) /\ \A n \in 1..Len(p.new) : p.old[n] = heap[p.index + n - 1]
      BY <1>1, <1>2, <2>1, <2>2, HeapBytes
    <2>4. back = heap
      <3>1. back = [a \in Addr |-> back[a]] /\ heap = [a \in Addr |-> heap[a]]
        BY <1>1 DEF WriteHeap
      <3>2. ASSUME NEW a \in Addr PROVE back[a] = heap[a]
        <4>0. a \in Nat /\ p.index \in Nat
          BY <1>2, Sizes
        <4>1. CASE a \in p.index..(p.index + Len(p.new) - 1)
          <5>1. back[a] = p.old[a - p.index + 1]
            BY <2>3, <4>1 DEF WriteHeap
          <5>2. a - p.index + 1 \in 1..Len(p.new) /\ p.index + (a - p.index + 1) - 1 = a
            BY <2>1, <4>0, <4>1
          <5> QED BY <2>3, <5>1, <5>2
        <4>2. CASE a \notin p.index..(p.index + Len(p.new) - 1)
          BY <2>3, <4>2 DEF WriteHeap
        <4> QED BY <4>1, <4>2
      <3> HIDE DEF back
      <3> QED BY <3>1, <3>2
    <2>5. t = [cpu |-> s.cpu, heap |-> changed]
      BY <1>1, <1>8 DEF Applied
    <2>6. Applied(t, u) = [cpu |-> s.cpu, heap |-> back]
      BY <1>3, <1>8, <2>5 DEF Applied
    <2> HIDE DEF back
    <2>7. Applies(u, t)
      BY <1>3, <1>8, <2>1, <2>3 DEF Applies
    <2> QED BY <1>1, <2>4, <2>6, <2>7 DEF u
  <1> QED BY <1>2, <1>4, <1>5, <1>6, <1>7, <1>8

\* The patches of an editor, in order, lead from its snapshot to what it shows; each
\* holds the value it found.
Edited(from, working, patches) ==
  /\ Sound(from) /\ Sound(working) /\ patches \in Seq(Patch)
  /\ CanApply(patches, from) /\ ApplyAll(patches, from) = working
  /\ \A n \in DOMAIN patches : patches[n].old = Old(patches[n], Stages(patches, from)[n - 1])

\* One more patch changes no earlier stage.
LEMMA StagesAppend ==
  ASSUME NEW s, NEW patches \in Seq(Patch), NEW p \in Patch
  PROVE  LET more == Append(patches, p) IN
         /\ \A n \in 0..Len(patches) : Stages(more, s)[n] = Stages(patches, s)[n]
         /\ Stages(more, s)[Len(patches) + 1] = Applied(Stages(patches, s)[Len(patches)], p)
  <1> DEFINE more == Append(patches, p)
             left == Stages(patches, s)
             right == Stages(more, s)
             last == Len(patches)
             S == {n \in Nat : right[n] = left[n]}
  <1>1. /\ last \in Nat /\ more \in Seq(Patch) /\ Len(more) = last + 1 /\ more[last + 1] = p
        /\ \A n \in 1..last : more[n] = patches[n]
    OBVIOUS
  <1>2. left[0] = s /\ \A n \in 1..last : left[n] = Applied(left[n - 1], patches[n])
    BY <1>1, PatchStages
  <1>3. right[0] = s /\ \A n \in 1..(last + 1) : right[n] = Applied(right[n - 1], more[n])
    <2>1. Len(more) \in Nat
      BY <1>1
    <2> HIDE DEF more
    <2>2. right[0] = s /\ \A n \in 1..Len(more) : right[n] = Applied(right[n - 1], more[n])
      BY <2>1, PatchStages
    <2> QED BY <1>1, <2>2
  <1> HIDE DEF left, right, more, last
  <1>4. 0 \in S
    BY <1>2, <1>3
  <1>5. ASSUME NEW n \in 0..last, n \in S, n < last PROVE n + 1 \in S
    <2>1. n + 1 \in 1..last /\ n + 1 \in 1..(last + 1) /\ n + 1 - 1 = n
      BY <1>1, <1>5
    <2>2. right[n + 1] = Applied(right[n], more[n + 1]) /\ left[n + 1] = Applied(left[n], patches[n + 1])
      BY <1>2, <1>3, <2>1
    <2> QED BY <1>1, <1>5, <2>1, <2>2
  <1>6. \A n \in 0..last : n \in S
    <2> HIDE DEF S
    <2> QED BY <1>1, <1>4, <1>5, NumberInduction
  <1>7. right[last + 1] = Applied(left[last], p)
    <2>1. last + 1 \in 1..(last + 1) /\ last + 1 - 1 = last /\ last \in 0..last
      BY <1>1
    <2> QED BY <1>1, <1>3, <1>6, <2>1
  <1> QED BY <1>6, <1>7 DEF left, right, more, last

\* A change that applies is one more patch of the editor.
LEMMA EditedMore ==
  ASSUME NEW from, NEW working, NEW patches, Edited(from, working, patches),
         NEW e \in EditForm, Applies(e, working)
  PROVE  LET p == [kind |-> e.kind, index |-> e.index, new |-> e.new, old |-> Old(e, working)] IN
         Edited(from, Applied(working, p), Append(patches, p))
  <1> DEFINE p == [kind |-> e.kind, index |-> e.index, new |-> e.new, old |-> Old(e, working)]
             more == Append(patches, p)
             last == Len(patches)
  <1>1. p \in Patch
    BY OldForm DEF Edited
  <1>2. Applies(p, working) /\ p.old = Old(p, working)
    BY DEF Applies, Old
  <1> HIDE DEF p
  <1>3. /\ last \in Nat /\ more \in Seq(Patch) /\ Len(more) = last + 1 /\ more[last + 1] = p
        /\ DOMAIN more = 1..(last + 1) /\ DOMAIN patches = 1..last
        /\ \A n \in 1..last : more[n] = patches[n]
    BY <1>1 DEF Edited
  <1>4. /\ \A n \in 0..last : Stages(more, from)[n] = Stages(patches, from)[n]
        /\ Stages(more, from)[last + 1] = Applied(Stages(patches, from)[last], p)
    BY <1>1, StagesAppend DEF Edited
  <1>5. Stages(patches, from)[last] = working
    BY DEF Edited, ApplyAll
  <1> HIDE DEF more, last
  <1>6. Sound(Applied(working, p))
    BY <1>1, <1>2, AppliedOk DEF Edited
  <1>7. ASSUME NEW n \in DOMAIN more
        PROVE  Applies(more[n], Stages(more, from)[n - 1]) /\ more[n].old = Old(more[n], Stages(more, from)[n - 1])
    <2>0. n \in 1..(last + 1) /\ n - 1 \in 0..last
      BY <1>3
    <2>1. CASE n = last + 1
      <3>1. n - 1 = last /\ last \in 0..last
        BY <1>3, <2>1
      <3> QED BY <1>2, <1>3, <1>4, <1>5, <2>1, <3>1
    <2>2. CASE n # last + 1
      <3>1. n \in DOMAIN patches
        BY <1>3, <2>0, <2>2
      <3> QED BY <1>3, <1>4, <2>0, <3>1 DEF Edited, CanApply
    <2> QED BY <2>1, <2>2
  <1>8. ApplyAll(more, from) = Applied(working, p)
    BY <1>3, <1>4, <1>5 DEF ApplyAll
  <1>9. CanApply(more, from)
    BY <1>7 DEF CanApply
  <1> QED BY <1>3, <1>6, <1>7, <1>8, <1>9 DEF Edited, more, p

\* The reverse of a patch set goes through the same stages backwards.
LEMMA ReverseLeadsBack ==
  ASSUME NEW from, NEW working, NEW patches, Edited(from, working, patches)
  PROVE  CanApply(Reversed(patches), working) /\ ApplyAll(Reversed(patches), working) = from
  <1> DEFINE back == Reversed(patches)
             last == Len(patches)
             left == Stages(patches, from)
             right == Stages(back, working)
             S == {n \in Nat : right[n] = left[last - n]}
  <1>1. /\ last \in Nat /\ DOMAIN patches = 1..last
        /\ DOMAIN back = 1..last /\ Len(back) = last
        /\ \A n \in 1..last : back[n] = Undo(patches[last + 1 - n])
    <2>1. last \in Nat /\ DOMAIN patches = 1..last
      BY DEF Edited
    <2>2. back = [n \in 1..last |-> Undo(patches[last + 1 - n])]
      BY <2>1 DEF Reversed
    <2> HIDE DEF back, last
    <2> QED BY <2>1, <2>2
  <1>2. left[0] = from /\ \A n \in 1..last : left[n] = Applied(left[n - 1], patches[n])
    BY <1>1, PatchStages
  <1>3. right[0] = working /\ \A n \in 1..last : right[n] = Applied(right[n - 1], back[n])
    <2>1. Len(back) \in Nat
      BY <1>1
    <2> HIDE DEF back
    <2>2. right[0] = working /\ \A n \in 1..Len(back) : right[n] = Applied(right[n - 1], back[n])
      BY <2>1, PatchStages
    <2> QED BY <1>1, <2>2
  <1>4. left[last] = working
    BY DEF Edited, ApplyAll
  <1>5. \A n \in 0..last : Sound(left[n])
    BY StagesOk DEF Edited
  <1>6. \A n \in 1..last : /\ patches[n] \in Patch /\ Applies(patches[n], left[n - 1])
                           /\ patches[n].old = Old(patches[n], left[n - 1])
    BY <1>1 DEF Edited, CanApply
  <1> HIDE DEF left, right, back, last
  <1>7. ASSUME NEW n \in 0..last, n < last, right[n] = left[last - n]
        PROVE  right[n + 1] = left[last - (n + 1)] /\ Applies(back[n + 1], right[n])
    <2> DEFINE k == last - n
    <2>1. k \in 1..last /\ n + 1 \in 1..last /\ n + 1 - 1 = n /\ last + 1 - (n + 1) = k /\ k - 1 \in 0..last
          /\ last - (n + 1) = k - 1
      BY <1>1, <1>7
    <2>2. right[n + 1] = Applied(left[k], Undo(patches[k])) /\ back[n + 1] = Undo(patches[k])
      BY <1>1, <1>3, <1>7, <2>1
    <2> HIDE DEF k
    <2>3. left[k] = Applied(left[k - 1], patches[k])
      BY <1>2, <2>1
    <2>4. Applies(Undo(patches[k]), left[k]) /\ Applied(left[k], Undo(patches[k])) = left[k - 1]
      BY <1>5, <1>6, <2>1, <2>3, UndoesPatch
    <2> QED BY <1>7, <2>1, <2>2, <2>4 DEF k
  <1>8. 0 \in S
    BY <1>1, <1>3, <1>4
  <1>9. ASSUME NEW n \in 0..last, n \in S, n < last PROVE n + 1 \in S
    BY <1>1, <1>7, <1>9
  <1>10. \A n \in 0..last : n \in S
    <2> HIDE DEF S
    <2> QED BY <1>1, <1>8, <1>9, NumberInduction
  <1>11. ASSUME NEW n \in 1..last PROVE Applies(back[n], right[n - 1])
    <2>1. n - 1 \in 0..last /\ n - 1 < last /\ n - 1 + 1 = n
      BY <1>1
    <2>2. right[n - 1] = left[last - (n - 1)]
      BY <1>10, <2>1
    <2>3. \A k \in 0..last : k < last /\ right[k] = left[last - k] => Applies(back[k + 1], right[k])
      BY <1>7
    <2>4. Applies(back[n - 1 + 1], right[n - 1])
      BY <2>1, <2>2, <2>3
    <2> QED BY <2>1, <2>4
  <1>12. right[last] = from
    <2>1. last \in 0..last /\ last - last = 0
      BY <1>1
    <2>2. right[last] = left[last - last]
      BY <1>10, <2>1
    <2> QED BY <1>2, <2>1, <2>2
  <1> QED BY <1>1, <1>11, <1>12 DEF CanApply, ApplyAll, right, back

-----------------------------------------------------------------------------
(* The compiled program.                                                    *)

\* The blocks of a program that can be compiled: they begin in it, a later one begins
\* where one ends, and only their last instructions go elsewhere.
LEMMA Blocks ==
  ASSUME program \in Programs, Supported
  PROVE  /\ Leaders \subseteq 0..Len(program) /\ Len(program) \in Leaders /\ 0 \in Leaders
         /\ \A b \in Leaders : b < Len(program) =>
              /\ BlockEnd(b) \in Leaders /\ b < BlockEnd(b)
              /\ \A n \in (b + 1)..(BlockEnd(b) - 1) : program[n].op \in Computing
  <1>1. Len(program) \in Nat /\ DOMAIN program = 1..Len(program)
    <2>1. program \in Seq(Instruction)
      BY ProgramForm
    <2> HIDE DEF Instruction
    <2> QED BY <2>1
  <1>2. Leaders \subseteq 0..Len(program) /\ Len(program) \in Leaders /\ 0 \in Leaders
    BY <1>1 DEF Leaders, Supported
  <1>3. ASSUME NEW b \in Leaders, b < Len(program)
        PROVE  /\ BlockEnd(b) \in Leaders /\ b < BlockEnd(b)
               /\ \A n \in (b + 1)..(BlockEnd(b) - 1) : program[n].op \in Computing
    <2> DEFINE later == {l \in Leaders : l > b}
    <2>0. Leaders \subseteq Nat /\ b \in Nat /\ \A l \in Leaders : l <= Len(program)
      <3>1. \A l \in 0..Len(program) : l \in Nat /\ l <= Len(program)
        BY <1>1
      <3> QED BY <1>2, <3>1
    <2>1. later \subseteq Nat /\ later # {}
      BY <1>1, <1>2, <1>3, <2>0
    <2>2. PICK l \in later : \A k \in later : l <= k
      BY <2>1, LeastNumber
    <2>3. \E k \in Leaders : k > b /\ \A j \in Leaders : j > b => k <= j
      BY <2>2
    <2>4. BlockEnd(b) \in Leaders /\ BlockEnd(b) > b /\ \A j \in Leaders : j > b => BlockEnd(b) <= j
      BY <2>3 DEF BlockEnd
    <2>5. ASSUME NEW n \in (b + 1)..(BlockEnd(b) - 1) PROVE program[n].op \in Computing
      <3>1. n \in 1..Len(program) /\ n > b /\ ~(BlockEnd(b) <= n)
        <4>1. BlockEnd(b) \in Nat /\ BlockEnd(b) <= Len(program)
          BY <2>0, <2>4
        <4> QED BY <1>1, <2>0, <4>1
      <3>2. n \notin Leaders
        BY <2>4, <3>1
      <3>3. program[n].op \notin {"Jz", "Jump", "Halt"}
        BY <3>1, <3>2 DEF Leaders
      <3> QED BY <1>1, <3>1, <3>3 DEF Supported
    <2>6. b \in Nat /\ BlockEnd(b) \in Nat
      BY <2>0, <2>4
    <2> QED BY <2>4, <2>5, <2>6
  <1> QED BY <1>2, <1>3

\* Instruction k takes machine m to the next one, with the touched registers that the
\* compiled instruction computes.
Agrees(k, touched, regs, m) ==
  LET left == Step(m).vm
      after == Compute(touched, program[k]) IN
  /\ left \in Vm /\ left.cpu.pc = k /\ after \in [Touched -> Address]
  /\ left.cpu.regs = WithTouched(after, regs)

\* A computing instruction does the same to the machine and to the touched registers.
LEMMA ComputeAgrees ==
  ASSUME program \in Programs, NEW k \in DOMAIN program, program[k].op \in Computing,
         NEW touched \in [Touched -> Address], NEW regs \in [Reg -> Address],
         NEW m \in Vm, m.cpu.pc = k - 1, m.cpu.regs = WithTouched(touched, regs)
  PROVE  Agrees(k, touched, regs, m)
  <1> DEFINE i == program[k]
             c == m.cpu
             after == Compute(touched, i)
  <1>1. /\ k \in 1..Len(program) /\ Len(program) \in Nat /\ Len(program) < Word /\ i \in Instruction
        /\ c.pc + 1 = k /\ c.pc \in Nat /\ c.pc + 1 \in Address
    <2>1. program \in Seq(Instruction) /\ Len(program) \in Nat /\ Len(program) < Word /\ i \in Instruction
      BY ProgramForm
    <2> HIDE DEF Instruction
    <2>2. k \in 1..Len(program)
      BY <2>1
    <2> HIDE DEF i
    <2> QED BY <2>1, <2>2, Sizes DEF Address
  <1>2. c \in Cpu /\ m.heap \in [Addr -> Byte] /\ c.regs \in [Reg -> Address]
    BY DEF Vm, Cpu
  <1>3. Touched \subseteq Reg /\ DOMAIN touched = Touched
    BY DEF Touched
  <1>4. /\ i.dst \in Touched /\ i.dst \in Reg
        /\ i.op = "Mov" => i.src \in Touched
        /\ i.op \in {"Add", "Sub", "Mul"} => i.a \in Touched /\ i.b \in Touched
    <2>1. /\ i.dst \in Reg
          /\ i.op = "Mov" => i.src \in Reg
          /\ i.op \in {"Add", "Sub", "Mul"} => i.a \in Reg /\ i.b \in Reg
      BY <1>1, InstructionForm
    <2> QED BY <2>1 DEF Touched
  <1>5. \A r \in Touched : c.regs[r] = touched[r]
    BY <1>3 DEF WithTouched
  <1>6. Value(i, c.regs) = Value(i, touched)
    BY <1>4, <1>5 DEF Value, Computing
  <1>7. Value(i, c.regs) \in Address
    BY <1>1, <1>2, ValueWord
  <1>8. Step(m) = Ran(m, SetReg(c, i.dst, Value(i, c.regs)))
    <2>1. ~(c.pc >= Len(program))
      BY <1>1
    <2>2. i = program[m.cpu.pc + 1]
      BY <1>1
    <2> QED BY <2>1, <2>2 DEF Step, Computing
  <1>9. after = [touched EXCEPT ![i.dst] = Value(i, touched)]
    BY DEF Compute
  <1> HIDE DEF i, after
  <1>10. PICK v \in Address : v = Value(i, c.regs) /\ v = Value(i, touched)
    BY <1>6, <1>7
  <1>11. PICK r \in Reg : r = i.dst /\ r \in Touched
    BY <1>4
  <1>12. PICK d : d = SetReg(c, r, v)
    OBVIOUS
  <1>13. d \in Cpu /\ d.pc = c.pc + 1 /\ d.regs = [c.regs EXCEPT ![r] = v]
    <2>1. c \in Cpu /\ c.pc + 1 \in Address /\ v \in Address /\ r \in Reg
      BY <1>1, <1>2, <1>10, <1>11
    <2> HIDE DEF c
    <2> QED BY <1>12, <2>1, SetRegOk
  <1>14. Step(m).vm = [cpu |-> [d EXCEPT !.steps = d.steps + 1], heap |-> m.heap]
    BY <1>8, <1>10, <1>11, <1>12 DEF Ran, RanWith
  <1>15. Step(m).vm \in Vm /\ Step(m).vm.cpu.pc = k /\ Step(m).vm.cpu.regs = [c.regs EXCEPT ![r] = v]
    <2> DEFINE e == [d EXCEPT !.steps = d.steps + 1]
    <2>0. d \in Cpu
      BY <1>13
    <2>1. e \in Cpu /\ e.pc = d.pc /\ e.regs = d.regs
      BY <2>0 DEF Cpu
    <2> HIDE DEF e
    <2>2. [cpu |-> e, heap |-> m.heap] \in Vm
      BY <1>2, <2>1 DEF Vm
    <2>3. Step(m).vm = [cpu |-> e, heap |-> m.heap]
      BY <1>14 DEF e
    <2> QED BY <1>1, <1>13, <2>1, <2>2, <2>3
  <1>16. after = [touched EXCEPT ![r] = v] /\ after \in [Touched -> Address]
    BY <1>9, <1>10, <1>11
  <1>17. [c.regs EXCEPT ![r] = v] = WithTouched(after, regs)
    <2>1. [c.regs EXCEPT ![r] = v] = [q \in Reg |-> IF q = r THEN v ELSE c.regs[q]]
      BY <1>2
    <2>2. WithTouched(after, regs) = [q \in Reg |-> IF q \in Touched THEN after[q] ELSE regs[q]]
      BY <1>16 DEF WithTouched
    <2>3. \A q \in Reg : c.regs[q] = IF q \in Touched THEN touched[q] ELSE regs[q]
      BY <1>3 DEF WithTouched
    <2>4. \A q \in Touched : after[q] = IF q = r THEN v ELSE touched[q]
      BY <1>16
    <2> QED BY <1>11, <2>1, <2>2, <2>3, <2>4
  <1> QED BY <1>15, <1>16, <1>17 DEF Agrees, after, i

\* The interpreter, n instructions after machine v, is before instruction pc with the
\* registers of v but for the touched ones.
Reached(v, n, pc, touched) ==
  LET m == Uninterrupted(v)[n] IN
  /\ m \in Vm /\ m.cpu.pc = pc
  /\ touched \in [Touched -> Address] /\ m.cpu.regs = WithTouched(touched, v.cpu.regs)

\* A computing instruction takes the interpreter to the next.
LEMMA ReachedNext ==
  ASSUME program \in Programs, NEW v \in Vm, NEW n \in Nat, n < MaxSteps,
         NEW pc \in Nat, pc < Len(program), program[pc + 1].op \in Computing,
         NEW touched, Reached(v, n, pc, touched)
  PROVE  Reached(v, n + 1, pc + 1, Compute(touched, program[pc + 1]))
  <1> DEFINE m == Uninterrupted(v)[n]
  <1>1. n + 1 \in 1..MaxSteps /\ n + 1 - 1 = n
    BY Sizes
  <1>2. Uninterrupted(v)[n + 1] = Step(m).vm
    BY <1>1, RunStates
  <1>3. m \in Vm /\ m.cpu.pc = pc /\ touched \in [Touched -> Address] /\ m.cpu.regs = WithTouched(touched, v.cpu.regs)
    BY DEF Reached
  <1> HIDE DEF m
  <1>4. pc + 1 \in DOMAIN program /\ pc = (pc + 1) - 1
    <2>1. program \in Seq(Instruction) /\ Len(program) \in Nat
      BY ProgramForm
    <2> HIDE DEF Instruction
    <2> QED BY <2>1
  <1>5. v.cpu.regs \in [Reg -> Address]
    BY DEF Vm, Cpu
  <1> DEFINE after == Compute(touched, program[pc + 1])
             left == Step(m).vm
  <1>6. left \in Vm /\ left.cpu.pc = pc + 1 /\ after \in [Touched -> Address] /\ left.cpu.regs = WithTouched(after, v.cpu.regs)
    <2>1. PICK k \in DOMAIN program : k = pc + 1
      BY <1>4
    <2>2. program[k].op \in Computing /\ m.cpu.pc = k - 1
      BY <1>3, <1>4, <2>1, Zenon
    <2>3. Agrees(k, touched, v.cpu.regs, m)
      BY <1>3, <1>5, <2>2, ComputeAgrees, Zenon
    <2>4. Agrees(pc + 1, touched, v.cpu.regs, m)
      BY <2>1, <2>3, Zenon
    <2> QED BY <2>4, Zenon DEF Agrees
  <1> HIDE DEF after, left
  <1> QED BY <1>2, <1>6 DEF Reached, after, left

\* A branch goes where the compiler says, and changes no register.
LEMMA ReachedBranch ==
  ASSUME program \in Programs, Supported, NEW v \in Vm, NEW n \in Nat, n < MaxSteps,
         NEW pc \in Nat, pc < Len(program), program[pc + 1].op \in {"Jz", "Jump"},
         NEW touched, Reached(v, n, pc, touched)
  PROVE  LET i == program[pc + 1]
             next == IF i.op = "Jump" \/ touched[i.cond] = 0 THEN BranchTarget(pc) ELSE pc + 1 IN
         Reached(v, n + 1, next, touched) /\ pc \in Branches /\ BranchTarget(pc) \in 0..Len(program)
  <1> DEFINE m == Uninterrupted(v)[n]
             i == program[pc + 1]
             c == m.cpu
             next == IF i.op = "Jump" \/ touched[i.cond] = 0 THEN BranchTarget(pc) ELSE pc + 1
  <1>1. Uninterrupted(v)[n + 1] = Step(m).vm
    <2>1. n + 1 \in 1..MaxSteps /\ n + 1 - 1 = n
      BY Sizes
    <2> QED BY <2>1, RunStates
  <1>2. m \in Vm /\ c.pc = pc /\ touched \in [Touched -> Address] /\ c.regs = WithTouched(touched, v.cpu.regs)
    BY DEF Reached
  <1> HIDE DEF m
  <1>3. pc + 1 \in DOMAIN program /\ i \in Instruction /\ Len(program) \in Nat /\ Len(program) < Word
    <2>1. program \in Seq(Instruction) /\ Len(program) \in Nat /\ Len(program) < Word
      BY ProgramForm
    <2>2. pc + 1 \in DOMAIN program
      <3> HIDE DEF Instruction, i
      <3> QED BY <2>1
    <2> QED BY <2>1, <2>2, ProgramForm
  <1>4. i.off \in Int /\ (i.op = "Jz" => i.cond \in Touched /\ i.cond \in Reg)
    <2>1. i.off \in Int /\ (i.op = "Jz" => i.cond \in Reg)
      BY <1>3, InstructionForm
    <2> QED BY <1>3, <2>1 DEF Touched
  <1>5. pc \in Branches /\ BranchTarget(pc) \in 0..Len(program) /\ BranchTarget(pc) = pc + i.off
    <2>1. pc \in 0..(Len(program) - 1)
      BY <1>3
    <2>2. pc \in Branches
      BY <2>1 DEF Branches
    <2> QED BY <2>2 DEF Supported, BranchTarget
  <1>6. Target(pc, i.off) = BranchTarget(pc)
    <2>1. pc + i.off \in 0..(Word - 1)
      BY <1>3, <1>5, Sizes
    <2>2. \A k \in 0..(Word - 1) : k % Word = k
      BY Sizes
    <2> QED BY <1>5, <2>1, <2>2 DEF Target
  <1>7. i.op = "Jz" => c.regs[i.cond] = touched[i.cond]
    BY <1>2, <1>4 DEF WithTouched
  <1>8. Step(m) = Goto(m, next)
    <2>1. ~(c.pc >= Len(program)) /\ i = program[m.cpu.pc + 1]
      BY <1>2, <1>3
    <2>2. i.op = "Jz" => Step(m) = Goto(m, IF c.regs[i.cond] = 0 THEN Target(c.pc, i.off) ELSE c.pc + 1)
      BY <2>1 DEF Step, Computing
    <2>3. i.op = "Jump" => Step(m) = Goto(m, Target(c.pc, i.off))
      BY <2>1 DEF Step, Computing
    <2> HIDE DEF i
    <2> QED BY <1>2, <1>6, <1>7, <2>2, <2>3 DEF i
  <1>9. next \in Address
    BY <1>3, <1>5, Sizes DEF Address
  <1> HIDE DEF next
  <1>10. Step(m).vm \in Vm /\ Step(m).vm.cpu.pc = next /\ Step(m).vm.cpu.regs = c.regs
    <2>1. c \in Cpu /\ m.heap \in [Addr -> Byte]
      BY <1>2 DEF Vm
    <2> HIDE DEF c
    <2> DEFINE d == [c EXCEPT !.pc = next]
               e == [d EXCEPT !.steps = d.steps + 1]
    <2>2. d \in Cpu /\ d.pc = next /\ d.regs = c.regs
      BY <1>9, <2>1 DEF Cpu
    <2> HIDE DEF d
    <2>3. e \in Cpu /\ e.pc = next /\ e.regs = c.regs
      BY <2>2 DEF Cpu
    <2>4. Step(m).vm = [cpu |-> e, heap |-> m.heap]
      BY <1>8 DEF Goto, Ran, RanWith, c, d
    <2> HIDE DEF e
    <2>5. [cpu |-> e, heap |-> m.heap] \in Vm
      BY <2>1, <2>3 DEF Vm
    <2> QED BY <2>3, <2>4, <2>5
  <1>11. Reached(v, n + 1, next, touched)
    BY <1>1, <1>2, <1>10 DEF Reached
  <1> QED BY <1>5, <1>11 DEF next, i

\* The interpreter is at the beginning of a block, or the program has halted.
AtBlock(v, n, block, touched) ==
  \/ Reached(v, n, block, touched)
  \/ /\ block = Len(program) /\ Step(Uninterrupted(v)[n]).result = "halted"
     /\ \E pc \in Nat : Reached(v, n, pc, touched)

\* The interpreter within a block has computed what the compiled code has.
LEMMA WithinBlock ==
  ASSUME program \in Programs, Supported, NEW v \in Vm, NEW b \in Leaders, b < Len(program),
         NEW ran \in Nat, ran + BlockEnd(b) - b <= MaxSteps, NEW touched, Reached(v, ran, b, touched)
  PROVE  \A n \in b..(BlockEnd(b) - 1) : Reached(v, ran + n - b, n, Computed(b, touched)[n])
  <1> DEFINE end == BlockEnd(b)
             after == Computed(b, touched)
             S == {n \in Nat : Reached(v, ran + n - b, n, after[n])}
  <1>1. /\ b \in Nat /\ end \in Nat /\ b < end /\ end <= Len(program) /\ Len(program) \in Nat
        /\ \A n \in (b + 1)..(end - 1) : program[n].op \in Computing
    <2>1. Leaders \subseteq 0..Len(program) /\ end \in Leaders /\ b < end /\ Len(program) \in Nat
      BY Blocks, ProgramForm
    <2> HIDE DEF end
    <2>2. \A n \in 0..Len(program) : n \in Nat /\ n <= Len(program)
      BY <2>1
    <2>3. \A n \in (b + 1)..(end - 1) : program[n].op \in Computing
      BY Blocks DEF end
    <2> QED BY <2>1, <2>2, <2>3
  <1>2. after[b] = touched /\ \A n \in (b + 1)..end : after[n] = Compute(after[n - 1], program[n])
    <2>1. b \in Nat /\ end \in Nat /\ b <= end
      BY <1>1
    <2> QED BY <2>1, BlockStages
  <1> HIDE DEF end, after
  <1>3. b \in S
    <2>1. ran + b - b = ran
      BY <1>1
    <2> QED BY <1>1, <1>2, <2>1
  <1>4. ASSUME NEW n \in b..(end - 1), n \in S, n < end - 1 PROVE n + 1 \in S
    <2>1. /\ n \in Nat /\ n < Len(program) /\ n + 1 \in (b + 1)..(end - 1) /\ n + 1 \in (b + 1)..end /\ n + 1 - 1 = n
          /\ ran + n - b \in Nat /\ ran + n - b < MaxSteps /\ ran + n - b + 1 = ran + (n + 1) - b
      <3>1. ran + end - b <= MaxSteps
        BY DEF end
      <3> QED BY <1>1, <1>4, <3>1, Sizes
    <2>2. program[n + 1].op \in Computing /\ after[n + 1] = Compute(after[n], program[n + 1])
      BY <1>1, <1>2, <2>1
    <2>3. Reached(v, ran + n - b, n, after[n])
      BY <1>4
    <2>4. PICK k \in Nat : k = ran + n - b
      BY <2>1
    <2>5. Reached(v, k + 1, n + 1, after[n + 1])
      BY <2>1, <2>2, <2>3, <2>4, ReachedNext
    <2> QED BY <2>1, <2>4, <2>5
  <1>5. \A n \in b..(end - 1) : n \in S
    <2> HIDE DEF S
    <2>1. end - 1 \in Nat
      BY <1>1
    <2> QED BY <1>1, <1>3, <1>4, <2>1, NumberInduction
  <1> QED BY <1>5 DEF end, after

\* A block leaves the compiled code where the interpreter gets with its instructions.
LEMMA BlockAgrees ==
  ASSUME program \in Programs, Supported, NEW v \in Vm, NEW b \in Leaders, b < Len(program),
         jit.ran \in Nat, jit.ran + BlockEnd(b) - b <= MaxSteps, NEW touched, AtBlock(v, jit.ran, b, touched)
  PROVE  LET next == RunBlock(b, touched) IN
         /\ next.on /\ next.block \in Leaders /\ next.ran \in 0..MaxSteps
         /\ next.regs \in [Touched -> Address] /\ AtBlock(v, next.ran, next.block, next.regs)
  <1> DEFINE end == BlockEnd(b)
             after == Computed(b, touched)
             i == program[end]
             ran == jit.ran
             last == ran + end - b
             next == RunBlock(b, touched)
             goal == /\ next.block \in Leaders /\ after[end] \in [Touched -> Address]
                     /\ AtBlock(v, last, next.block, after[end])
  <1>1. /\ b \in Nat /\ end \in Nat /\ b < end /\ end <= Len(program) /\ Len(program) \in Nat /\ end \in Leaders
        /\ Len(program) \in Leaders
    <2>1. Leaders \subseteq 0..Len(program) /\ end \in Leaders /\ b < end /\ Len(program) \in Nat
      BY Blocks, ProgramForm
    <2> HIDE DEF end
    <2>2. \A n \in 0..Len(program) : n \in Nat /\ n <= Len(program)
      BY <2>1
    <2> QED BY <2>1, <2>2, Blocks
  <1>2. Reached(v, ran, b, touched)
    BY <1>1 DEF AtBlock
  <1>3. after[end] = Compute(after[end - 1], i)
    <2>1. b \in Nat /\ end \in Nat /\ b <= end /\ end \in (b + 1)..end
      BY <1>1
    <2> QED BY <2>1, BlockStages
  <1>4. PICK n \in Nat, pc \in Nat : /\ n = last - 1 /\ n + 1 = last /\ n < MaxSteps /\ n + 1 \in 1..MaxSteps
                                     /\ pc = end - 1 /\ pc + 1 = end /\ pc < Len(program) /\ last \in 0..MaxSteps
    <2>1. last <= MaxSteps /\ ran \in Nat
      OBVIOUS
    <2> HIDE DEF end, ran
    <2>2. last - 1 \in Nat /\ last - 1 < MaxSteps /\ end - 1 \in Nat /\ end - 1 < Len(program)
          /\ last \in 0..MaxSteps /\ last \in 1..MaxSteps /\ last - 1 + 1 = last /\ end - 1 + 1 = end
      BY <1>1, <2>1, Sizes
    <2> HIDE DEF last
    <2> QED BY <2>2
  <1>5. Reached(v, n, pc, after[pc])
    <2>1. end - 1 \in b..(end - 1) /\ ran + (end - 1) - b = last - 1
      <3>1. ran \in Nat
        OBVIOUS
      <3> HIDE DEF end, ran
      <3> QED BY <1>1, <3>1
    <2>2. Reached(v, ran + (end - 1) - b, end - 1, after[end - 1])
      BY <1>2, <2>1, WithinBlock
    <2> QED BY <1>4, <2>1, <2>2
  <1>6. next = [on |-> TRUE, regs |-> after[end], ran |-> last,
                block |-> CASE i.op = "Jz" -> IF after[end][i.cond] = 0 THEN BranchTarget(pc) ELSE end
                            [] i.op = "Jump" -> BranchTarget(pc)
                            [] i.op = "Halt" -> Len(program)
                            [] OTHER -> end]
    BY <1>4 DEF RunBlock
  <1>7. i.op \in Computing \cup {"Jz", "Jump", "Halt"} /\ i = program[pc + 1]
    <2>1. end \in DOMAIN program
      <3>1. program \in Seq(Instruction)
        BY ProgramForm
      <3> HIDE DEF Instruction, end
      <3> QED BY <1>1, <3>1
    <2> QED BY <1>4, <2>1 DEF Supported
  <1> HIDE DEF after, ran, last, next, i, end
  <1> SUFFICES goal
    BY <1>4, <1>6 DEF next
  <1>8. CASE i.op \in Computing
    <2>1. Reached(v, n + 1, pc + 1, Compute(after[pc], i))
      BY <1>4, <1>5, <1>7, <1>8, ReachedNext
    <2>2. Reached(v, last, end, after[end])
      BY <1>3, <1>4, <2>1
    <2>3. next.block = end
      BY <1>6, <1>8 DEF Computing
    <2> QED BY <1>1, <2>2, <2>3 DEF AtBlock, Reached
  <1>9. CASE i.op \in {"Jz", "Jump"}
    <2>1. after[end] = after[pc]
      BY <1>3, <1>4, <1>9 DEF Compute, Computing
    <2> DEFINE to == IF i.op = "Jump" \/ after[pc][i.cond] = 0 THEN BranchTarget(pc) ELSE pc + 1
    <2>2. Reached(v, n + 1, to, after[pc]) /\ pc \in Branches
      BY <1>4, <1>5, <1>7, <1>9, ReachedBranch
    <2>3. next.block = to
      BY <1>4, <1>6, <1>9, <2>1
    <2>4. to \in Leaders
      <3>1. BranchTarget(pc) \in Leaders
        BY <2>2 DEF Leaders
      <3> QED BY <1>1, <1>4, <3>1
    <2> QED BY <1>4, <2>1, <2>2, <2>3, <2>4 DEF AtBlock, Reached
  <1>10. CASE i.op = "Halt"
    <2> DEFINE m == Uninterrupted(v)[n]
    <2>1. after[end] = after[pc]
      BY <1>3, <1>4, <1>10 DEF Compute, Computing
    <2>2. m.cpu.pc = pc
      BY <1>5 DEF Reached
    <2>3. Uninterrupted(v)[last] = Step(m).vm
      BY <1>4, RunStates
    <2> HIDE DEF m
    <2>4. Step(m) = Stopped(m, "halted")
      <3>1. ~(m.cpu.pc >= Len(program)) /\ program[m.cpu.pc + 1].op = "Halt"
        BY <1>1, <1>4, <1>7, <1>10, <2>2
      <3> QED BY <3>1 DEF Step, Computing
    <2>5. Uninterrupted(v)[last] = m /\ Step(m).result = "halted"
      BY <2>3, <2>4 DEF Stopped
    <2>6. Reached(v, last, pc, after[end])
      BY <1>5, <2>1, <2>5 DEF Reached, m
    <2>7. next.block = Len(program)
      BY <1>6, <1>10
    <2> QED BY <1>1, <2>5, <2>6, <2>7 DEF AtBlock, Reached
  <1> QED BY <1>7, <1>8, <1>9, <1>10

-----------------------------------------------------------------------------
(* The invariant of the machine.                                            *)

\* A machine runs on from another.
RunsOn(o, m) ==
  /\ Sound(o) /\ Sound(m) /\ o.cpu.steps <= m.cpu.steps
  /\ m = Uninterrupted(o)[m.cpu.steps - o.cpu.steps]

\* The program stays; counters stay within their bounds.
Counters ==
  /\ program \in Programs /\ dirty \subseteq Pages
  /\ hot \in 0..(HotThreshold + 1) /\ cached \in BOOLEAN /\ saves \in 0..MaxSaves

\* The machine and its last snapshot run on from their origins.
Runs ==
  /\ origin = [vm |-> origin.vm, snap |-> origin.snap]
  /\ RunsOn(origin.vm, vm) /\ RunsOn(origin.snap, snap)

\* An open editor holds what its patches lead to.
Editor ==
  /\ edit = [on |-> edit.on, from |-> edit.from, working |-> edit.working, patches |-> edit.patches]
  /\ edit.on => Edited(edit.from, edit.working, edit.patches)

\* Only supported programs are compiled; the compiled code is where the interpreter is
\* at the beginning of a block.
Compiled ==
  /\ cached => Supported
  /\ jit.on => /\ Supported /\ vm.cpu.pc = 0
               /\ jit.block \in Leaders /\ jit.ran \in 0..MaxSteps /\ jit.regs \in [Touched -> Address]
               /\ AtBlock(vm, jit.ran, jit.block, jit.regs)

\* The inductive invariant of the machine, with CleanPagesAgree.
MachineInv == Counters /\ Runs /\ Editor /\ Compiled

\* The machine before its first instruction is in order.
LEMMA NewVmSound == Sound(NewVm)
  <1>1. [r \in Reg |-> 0] \in [Reg -> Address] /\ [a \in Addr |-> 0] \in [Addr -> Byte] /\ 0 \in Address /\ 0 \in 0..HeapLen
    BY Sizes
  <1>2. [p \in {} |-> <<>>] \in Files
    <2>1. [p \in {} |-> <<>>] \in [{} -> Seq(Byte)] /\ {} \in SUBSET Seq(Byte)
      OBVIOUS
    <2> QED BY <2>1 DEF Files
  <1>3. <<>> \in Seq(Address) /\ <<>> \in Seq(Descriptor) /\ Len(<<>>) = 0 /\ DOMAIN <<>> = {}
    <2> HIDE DEF Descriptor, Address
    <2> QED OBVIOUS
  <1> DEFINE files == [p \in {} |-> <<>>]
  <1> HIDE DEF files
  <1> DEFINE c == [regs |-> [r \in Reg |-> 0], pc |-> 0, stack |-> <<>>, steps |-> 0, top |-> 0,
                   files |-> files, fds |-> <<>>]
  <1>4. c \in Cpu
    BY <1>1, <1>2, <1>3 DEF Cpu, files
  <1>5. NewVm = [cpu |-> c, heap |-> [a \in Addr |-> 0]]
    BY DEF NewVm, files
  <1>6. FilesOk(c)
    BY <1>3 DEF FilesOk
  <1>7. c.steps = 0
    OBVIOUS
  <1> HIDE DEF c
  <1>8. NewVm \in Vm /\ NewVm.cpu = c
    BY <1>1, <1>4, <1>5 DEF Vm
  <1> QED BY <1>6, <1>7, <1>8, Sizes DEF Sound, VmOk

\* Every machine runs on from itself.
LEMMA RunsFromSelf == ASSUME NEW m, Sound(m) PROVE RunsOn(m, m)
  <1>1. m.cpu.steps \in Nat
    BY DEF Sound, VmOk, Vm, Cpu
  <1>2. m.cpu.steps - m.cpu.steps = 0 /\ m.cpu.steps <= m.cpu.steps
    BY <1>1
  <1>3. Uninterrupted(m)[0] = m
    BY RunStates
  <1> QED BY <1>2, <1>3 DEF RunsOn

\* One more instruction.
LEMMA RunsFurther ==
  ASSUME program \in Programs, NEW o, NEW m, RunsOn(o, m), m.cpu.steps < MaxSteps, Step(m).result = "ok"
  PROVE  RunsOn(o, Step(m).vm) /\ Step(m).pages \subseteq Pages
  <1> DEFINE n == m.cpu.steps - o.cpu.steps
             left == Step(m).vm
  <1>1. VmOk(left) /\ left.cpu.steps = m.cpu.steps + 1 /\ Step(m).pages \subseteq Pages
    BY StepOk DEF RunsOn, Sound
  <1>2. m.cpu.steps \in Nat /\ o.cpu.steps \in Nat /\ o.cpu.steps <= m.cpu.steps
    BY DEF RunsOn, Sound, VmOk, Vm, Cpu
  <1>3. Uninterrupted(o)[n + 1] = left
    <2>1. n \in Nat /\ n + 1 \in 1..MaxSteps /\ n + 1 - 1 = n
      BY <1>2, Sizes
    <2>2. m = Uninterrupted(o)[n]
      BY DEF RunsOn
    <2> HIDE DEF n
    <2> QED BY <2>1, <2>2, RunStates
  <1> HIDE DEF left
  <1>4. left.cpu.steps - o.cpu.steps = n + 1 /\ left.cpu.steps <= MaxSteps /\ o.cpu.steps <= left.cpu.steps
    BY <1>1, <1>2, Sizes
  <1> HIDE DEF n
  <1>5. Sound(left)
    BY <1>1, <1>4 DEF Sound
  <1> QED BY <1>1, <1>3, <1>4, <1>5 DEF RunsOn, left

\* The bounds are numbers.
LEMMA Bounds == HotThreshold \in Nat /\ MaxSaves \in Nat
  <1>1. {HotThreshold, MaxSteps, MaxSaves, MaxPatches} \subseteq Nat
    BY MachineAssumption
  <1> QED BY <1>1

\* One more snapshot.
LEMMA SavesOn ==
  ASSUME Counters, saves < MaxSaves, saves' = saves + 1
  PROVE  saves' \in 0..MaxSaves
  BY Bounds DEF Counters

\* The first state.
LEMMA MachineFirst == MachineInit => MachineInv
  <1> SUFFICES ASSUME MachineInit PROVE MachineInv
    OBVIOUS
  <1>1. RunsOn(NewVm, NewVm)
    BY NewVmSound, RunsFromSelf
  <1>2. Counters
    <2>2. HotThreshold \in Nat /\ MaxSaves \in Nat
      BY Bounds
    <2>3. hot = 0 /\ saves = 0 /\ cached = FALSE /\ dirty = {} /\ program \in Programs
      BY DEF MachineInit
    <2>4. hot \in 0..(HotThreshold + 1) /\ saves \in 0..MaxSaves
      BY <2>2, <2>3
    <2>5. cached \in BOOLEAN
      BY <2>3
    <2> QED BY <2>3, <2>4, <2>5 DEF Counters
  <1>3. Runs
    BY <1>1 DEF MachineInit, Runs
  <1>4. Editor
    BY DEF MachineInit, Editor, NoEdit
  <1>5. Compiled
    BY DEF MachineInit, Compiled, NoJit
  <1> QED BY <1>2, <1>3, <1>4, <1>5 DEF MachineInv

\* What does not depend on more of the state than the program.
LEMMA SameProgram ==
  ASSUME program' = program
  PROVE  /\ Supported' = Supported /\ Leaders' = Leaders /\ Touched' = Touched
         /\ \A o, m : RunsOn(o, m)' = RunsOn(o, m)
         /\ \A v, n, block, touched : AtBlock(v, n, block, touched)' = AtBlock(v, n, block, touched)
  <1>1. \A m : Step(m)' = Step(m)
    BY DEF Step
  <1>2. \A m : Uninterrupted(m)' = Uninterrupted(m)
    BY DEF Uninterrupted, Step
  <1>3. Touched' = Touched
    BY DEF Touched
  <1>4. \A v, n, pc, touched : Reached(v, n, pc, touched)' = Reached(v, n, pc, touched)
    BY <1>2, <1>3 DEF Reached
  <1>5. Supported' = Supported /\ Leaders' = Leaders
    BY DEF Supported, Leaders, Branches, BranchTarget
  <1>6. \A o, m : RunsOn(o, m)' = RunsOn(o, m)
    BY <1>2 DEF RunsOn
  <1>7. \A v, n, block, touched : AtBlock(v, n, block, touched)' = AtBlock(v, n, block, touched)
    BY <1>1, <1>2, <1>4 DEF AtBlock
  <1> QED BY <1>3, <1>5, <1>6, <1>7

\* Actions that leave the machine, its snapshot and their origins alone.
LEMMA RunsStay ==
  ASSUME Runs, UNCHANGED <<program, vm, snap, origin>>
  PROVE  Runs'
  <1>1. RunsOn(origin'.vm, vm') /\ RunsOn(origin'.snap, snap')
    BY DEF Runs
  <1> QED BY <1>1, SameProgram DEF Runs

\* Actions that leave the compiled code alone, of which there is none in progress.
LEMMA CompiledStays ==
  ASSUME Compiled, Idle, UNCHANGED <<program, cached, jit>>
  PROVE  Compiled'
  BY SameProgram DEF Compiled, Idle

\* Actions that leave the editor alone.
LEMMA EditorStays ==
  ASSUME Editor, UNCHANGED edit
  PROVE  Editor'
  BY DEF Editor, Edited, CanApply, ApplyAll

\* Restoring what was last written as base and delta gives the machine.
LEMMA DeltaIsMachine ==
  ASSUME CleanPagesAgree, Sound(vm), Sound(snap)
  PROVE  ApplyTo(Delta(vm, dirty), snap) = vm
  <1>1. vm.heap \in [Addr -> Byte] /\ vm = [cpu |-> vm.cpu, heap |-> vm.heap]
    BY DEF Sound, VmOk, Vm
  <1> DEFINE whole == ApplyTo(Delta(vm, dirty), snap)
  <1>2. whole = [cpu |-> vm.cpu, heap |-> [a \in Addr |-> whole.heap[a]]]
    BY DEF ApplyTo, Delta
  <1>3. \A a \in Addr : whole.heap[a] = vm.heap[a]
    BY DEF ApplyTo, Delta, CleanPagesAgree
  <1>4. vm.heap = [a \in Addr |-> vm.heap[a]]
    BY <1>1
  <1> HIDE DEF whole
  <1>5. [a \in Addr |-> whole.heap[a]] = vm.heap
    BY <1>3, <1>4
  <1>6. whole = vm
    BY <1>1, <1>2, <1>5
  <1> QED BY <1>6 DEF whole

\* Every step keeps the invariant.
LEMMA MachineStep == MachineInv /\ CleanPagesAgree /\ [MachineNext]_machineVars => MachineInv'
  <1> SUFFICES ASSUME MachineInv, CleanPagesAgree, [MachineNext]_machineVars
               PROVE  MachineInv'
    OBVIOUS
  <1>0. Counters /\ Runs /\ Editor /\ Compiled
    BY DEF MachineInv
  <1>1. CASE Run
    <2>1. RunsOn(origin.vm, vm') /\ dirty' \subseteq Pages
      <3>1. RunsOn(origin.vm, Step(vm).vm) /\ Step(vm).pages \subseteq Pages
        BY <1>0, <1>1, RunsFurther DEF Run, Runs, Counters
      <3> QED BY <1>0, <1>1, <3>1 DEF Run, Counters
    <2>2. Counters'
      BY <1>0, <1>1, <2>1 DEF Run, Counters, Pages
    <2>3. RunsOn(origin'.vm, vm') /\ RunsOn(origin'.snap, snap')
      BY <1>0, <1>1, <2>1 DEF Run, Runs
    <2>4. Runs'
      BY <1>0, <1>1, <2>3, SameProgram DEF Runs, Run
    <2>5. Editor' /\ Compiled'
      BY <1>0, <1>1, EditorStays, CompiledStays DEF Run
    <2> QED BY <2>2, <2>4, <2>5 DEF MachineInv
  <1>2. CASE Capture
    <2>2. Counters'
      BY <1>0, <1>2, SavesOn DEF Capture, Counters, Pages
    <2>3. RunsOn(origin'.vm, vm') /\ RunsOn(origin'.snap, snap')
      BY <1>0, <1>2 DEF Capture, Runs
    <2>4. Runs'
      BY <1>0, <1>2, <2>3, SameProgram DEF Runs, Capture
    <2>5. Editor' /\ Compiled'
      BY <1>0, <1>2, EditorStays, CompiledStays DEF Capture
    <2> QED BY <2>2, <2>4, <2>5 DEF MachineInv
  <1>3. CASE SaveDelta
    <2>1. snap' = vm
      BY <1>0, <1>3, DeltaIsMachine DEF SaveDelta, Runs, RunsOn
    <2>2. Counters'
      BY <1>0, <1>3, SavesOn DEF SaveDelta, Counters, Pages
    <2>3. RunsOn(origin'.vm, vm') /\ RunsOn(origin'.snap, snap')
      BY <1>0, <1>3, <2>1 DEF SaveDelta, Runs
    <2>4. Runs'
      BY <1>0, <1>3, <2>3, SameProgram DEF Runs, SaveDelta
    <2>5. Editor' /\ Compiled'
      BY <1>0, <1>3, EditorStays, CompiledStays DEF SaveDelta
    <2> QED BY <2>2, <2>4, <2>5 DEF MachineInv
  <1>4. CASE Restore
    <2>2. Counters'
      BY <1>0, <1>4 DEF Restore, Counters, Pages
    <2>3. RunsOn(origin'.vm, vm') /\ RunsOn(origin'.snap, snap')
      BY <1>0, <1>4 DEF Restore, Runs, Restored
    <2>4. Runs'
      BY <1>0, <1>4, <2>3, SameProgram DEF Runs, Restore
    <2>5. Editor' /\ Compiled'
      BY <1>0, <1>4, EditorStays, CompiledStays DEF Restore
    <2> QED BY <2>2, <2>4, <2>5 DEF MachineInv
  <1>5. CASE OpenEditor
    <2>1. Edited(snap, snap, <<>>)
      <3>1. Sound(snap)
        BY <1>0 DEF Runs, RunsOn
      <3>2. <<>> \in Seq(Patch) /\ Len(<<>>) = 0 /\ DOMAIN <<>> = {}
        <4> HIDE DEF Patch
        <4> QED OBVIOUS
      <3>3. Stages(<<>>, snap)[0] = snap
        BY <3>2, PatchStages
      <3> QED BY <3>1, <3>2, <3>3 DEF Edited, CanApply, ApplyAll
    <2>2. edit' = [on |-> TRUE, from |-> snap, working |-> snap, patches |-> <<>>]
      BY <1>5 DEF OpenEditor
    <2>3. Edited(edit'.from, edit'.working, edit'.patches)
      BY <2>1, <2>2
    <2>4. Editor'
      BY <2>2, <2>3 DEF Editor, Edited, CanApply, ApplyAll
    <2>5. Counters' /\ Compiled' /\ Runs'
      BY <1>0, <1>5, RunsStay, CompiledStays DEF OpenEditor, Counters, Pages
    <2> QED BY <2>4, <2>5 DEF MachineInv
  <1>6. ASSUME NEW e \in Edits, MakePatch(e) PROVE MachineInv'
    <2> DEFINE p == [kind |-> e.kind, index |-> e.index, new |-> e.new, old |-> Old(e, edit.working)]
    <2>1. e \in EditForm
      BY MachineAssumption
    <2>2. Edited(edit.from, Applied(edit.working, p), Append(edit.patches, p))
      <3>1. edit.on /\ Applies(e, edit.working)
        BY <1>6 DEF MakePatch
      <3> QED BY <1>0, <2>1, <3>1, EditedMore DEF Editor
    <2>3. edit' = [edit EXCEPT !.working = Applied(@, p), !.patches = Append(@, p)] /\ edit.on
      BY <1>6 DEF MakePatch
    <2> HIDE DEF p
    <2>4. /\ edit' = [on |-> edit'.on, from |-> edit'.from, working |-> edit'.working, patches |-> edit'.patches]
          /\ edit'.from = edit.from /\ edit'.working = Applied(edit.working, p) /\ edit'.patches = Append(edit.patches, p)
      BY <1>0, <2>3 DEF Editor
    <2>5. Edited(edit'.from, edit'.working, edit'.patches)
      BY <2>2, <2>4
    <2>6. Editor'
      BY <2>4, <2>5 DEF Editor, Edited, CanApply, ApplyAll
    <2>7. Counters' /\ Compiled' /\ Runs'
      BY <1>0, <1>6, RunsStay, CompiledStays DEF MakePatch, Counters, Pages
    <2> QED BY <2>6, <2>7 DEF MachineInv
  <1>7. CASE CloseEditor
    <2>1. Editor'
      BY <1>7 DEF CloseEditor, Editor, NoEdit
    <2>2. Counters' /\ Compiled' /\ Runs'
      BY <1>0, <1>7, RunsStay, CompiledStays DEF CloseEditor, Counters, Pages
    <2> QED BY <2>1, <2>2 DEF MachineInv
  <1>8. CASE ResumeEdited
    <2> DEFINE s == ApplyAll(edit.patches, snap)
    <2>1. RunsOn(s, s)
      <3>1. edit.patches \in Seq(Patch) /\ Sound(snap) /\ CanApply(edit.patches, snap)
        BY <1>0, <1>8 DEF ResumeEdited, Editor, Edited, Runs, RunsOn
      <3>2. Len(edit.patches) \in 0..Len(edit.patches)
        BY <3>1
      <3>3. Sound(s)
        BY <3>1, <3>2, StagesOk DEF ApplyAll
      <3> HIDE DEF s
      <3> QED BY <3>3, RunsFromSelf
    <2>2. vm' = s /\ snap' = s /\ origin' = [vm |-> s, snap |-> s]
      BY <1>8 DEF ResumeEdited, Restored
    <2> HIDE DEF s
    <2>3. RunsOn(origin'.vm, vm') /\ RunsOn(origin'.snap, snap')
      BY <2>1, <2>2
    <2>4. Runs'
      BY <1>8, <2>2, <2>3, SameProgram DEF Runs, ResumeEdited
    <2>5. Editor'
      BY <1>8 DEF ResumeEdited, Editor, NoEdit
    <2>6. Counters' /\ Compiled'
      <3>1. saves' \in 0..MaxSaves
        BY <1>0, <1>8, SavesOn DEF ResumeEdited
      <3> QED BY <1>0, <1>8, <3>1, CompiledStays DEF ResumeEdited, Counters, Pages
    <2> QED BY <2>4, <2>5, <2>6 DEF MachineInv
  <1>9. CASE RunHot
    <2>1. Editor' /\ Runs'
      BY <1>0, <1>9, RunsStay, EditorStays DEF RunHot
    <2>2. Counters'
      <3>1. hot' \in 0..(HotThreshold + 1)
        BY <1>0, <1>9, Bounds DEF RunHot, Counters
      <3>2. cached' \in BOOLEAN
        BY <1>0, <1>9 DEF RunHot, Counters
      <3> QED BY <1>0, <1>9, <3>1, <3>2 DEF RunHot, Counters, Pages
    <2>3. cached' => Supported
      BY <1>0, <1>9 DEF RunHot, Compiled
    <2>4. CASE jit' = jit
      <3>1. program' = program /\ ~jit'.on
        BY <1>9, <2>4 DEF RunHot, Idle
      <3>2. Compiled'
        BY <2>3, <3>1, SameProgram DEF Compiled
      <3> QED BY <2>1, <2>2, <3>2 DEF MachineInv
    <2>5. CASE jit' # jit
      <3> DEFINE touched == [r \in Touched |-> vm.cpu.regs[r]]
      <3>1. Supported /\ vm.cpu.pc = 0 /\ jit' = [on |-> TRUE, block |-> 0, regs |-> touched, ran |-> 0]
        BY <1>0, <1>9, <2>5 DEF RunHot, Compiled
      <3>2. vm \in Vm /\ vm.cpu.regs \in [Reg -> Address]
        BY <1>0 DEF Runs, RunsOn, Sound, VmOk, Vm, Cpu
      <3>3. touched \in [Touched -> Address] /\ WithTouched(touched, vm.cpu.regs) = vm.cpu.regs
        BY <3>2 DEF Touched, WithTouched
      <3>4. AtBlock(vm, 0, 0, touched)
        BY <3>1, <3>2, <3>3, RunStates DEF AtBlock, Reached
      <3>5. 0 \in Leaders /\ 0 \in 0..MaxSteps
        BY <1>0, <3>1, Blocks, Sizes DEF Counters
      <3> HIDE DEF touched
      <3>6. AtBlock(vm', jit'.ran, jit'.block, jit'.regs)
        BY <1>9, <3>1, <3>4 DEF RunHot
      <3>7. program' = program /\ vm' = vm
        BY <1>9 DEF RunHot
      <3>8. Compiled'
        BY <2>3, <3>1, <3>3, <3>5, <3>6, <3>7, SameProgram DEF Compiled
      <3> QED BY <2>1, <2>2, <3>8 DEF MachineInv
    <2> QED BY <2>1, <2>2, <2>4, <2>5 DEF MachineInv
  <1>10. CASE JitBlock
    <2>1. Editor' /\ Runs'
      BY <1>0, <1>10, RunsStay, EditorStays DEF JitBlock
    <2>2. Counters'
      BY <1>0, <1>10 DEF JitBlock, Counters, Pages
    <2>3. /\ Supported /\ vm.cpu.pc = 0 /\ jit.block \in Leaders /\ jit.ran \in Nat
          /\ AtBlock(vm, jit.ran, jit.block, jit.regs) /\ vm \in Vm
          /\ jit.block < Len(program) /\ jit.ran + BlockEnd(jit.block) - jit.block <= MaxSteps
          /\ jit' = RunBlock(jit.block, jit.regs) /\ program' = program /\ vm' = vm /\ cached' = cached
      BY <1>0, <1>10 DEF JitBlock, Compiled, Runs, RunsOn, Sound, VmOk
    <2>4. /\ jit'.on /\ jit'.block \in Leaders /\ jit'.ran \in 0..MaxSteps
          /\ jit'.regs \in [Touched -> Address] /\ AtBlock(vm, jit'.ran, jit'.block, jit'.regs)
      BY <1>0, <2>3, BlockAgrees DEF Counters
    <2>5. AtBlock(vm', jit'.ran, jit'.block, jit'.regs)
      BY <2>3, <2>4
    <2>6. Compiled'
      BY <1>0, <2>3, <2>4, <2>5, SameProgram DEF Compiled
    <2> QED BY <2>1, <2>2, <2>6 DEF MachineInv
  <1>11. CASE JitReturn
    <2>1. Editor'
      BY <1>0, <1>11, EditorStays DEF JitReturn
    <2>2. Counters'
      BY <1>0, <1>11 DEF JitReturn, Counters, Pages
    <2>3. Sound(vm')
      <3>1. /\ vm.cpu \in Cpu /\ vm.heap \in [Addr -> Byte] /\ FilesOk(vm.cpu) /\ vm.cpu.steps <= MaxSteps
            /\ vm.cpu.regs \in [Reg -> Address]
        BY <1>0 DEF Runs, RunsOn, Sound, VmOk, Vm, Cpu
      <3>2. jit.regs \in [Touched -> Address]
        BY <1>0, <1>11 DEF JitReturn, Compiled
      <3> DEFINE regs == WithTouched(jit.regs, vm.cpu.regs)
                 c == [[vm.cpu EXCEPT !.regs = regs] EXCEPT !.pc = Len(program)]
      <3>3. regs \in [Reg -> Address]
        BY <3>1, <3>2 DEF WithTouched
      <3>4. Len(program) \in Address
        BY <1>0, ProgramForm DEF Counters
      <3>5. vm' = [cpu |-> c, heap |-> vm.heap]
        BY <1>11 DEF JitReturn
      <3> HIDE DEF regs
      <3>6. c \in Cpu /\ c.steps = vm.cpu.steps /\ c.fds = vm.cpu.fds /\ c.files = vm.cpu.files
        BY <3>1, <3>3, <3>4 DEF Cpu
      <3> HIDE DEF c
      <3> QED BY <3>1, <3>5, <3>6 DEF Sound, VmOk, Vm, FilesOk
    <2>4. RunsOn(vm', vm')
      <3>1. PICK m : m = vm'
        OBVIOUS
      <3> QED BY <2>3, <3>1, RunsFromSelf
    <2>5. origin' = [vm |-> vm', snap |-> origin.snap] /\ snap' = snap /\ program' = program
      BY <1>0, <1>11 DEF JitReturn, Runs
    <2>6. RunsOn(origin'.vm, vm') /\ RunsOn(origin'.snap, snap')
      BY <1>0, <2>4, <2>5 DEF Runs
    <2>7. Runs'
      BY <2>5, <2>6, SameProgram DEF Runs
    <2>8. Compiled'
      BY <1>0, <1>11, SameProgram DEF JitReturn, Compiled, NoJit
    <2> QED BY <2>1, <2>2, <2>7, <2>8 DEF MachineInv
  <1>12. CASE UNCHANGED machineVars
    <2>1. Editor' /\ Runs'
      BY <1>0, <1>12, RunsStay, EditorStays DEF machineVars
    <2>2. Counters'
      BY <1>0, <1>12 DEF machineVars, Counters, Pages
    <2>3. Compiled'
      BY <1>0, <1>12, SameProgram DEF machineVars, Compiled
    <2> QED BY <2>1, <2>2, <2>3 DEF MachineInv
  <1> QED BY <1>1, <1>2, <1>3, <1>4, <1>5, <1>6, <1>7, <1>8, <1>9, <1>10, <1>11, <1>12 DEF MachineNext

\* A machine in order is well typed.
LEMMA SoundTyped == ASSUME NEW m, Sound(m) PROVE MachineType(m)
  <1>1. /\ m.cpu \in Cpu /\ m.heap \in [Addr -> Byte] /\ FilesOk(m.cpu) /\ m.cpu.steps <= MaxSteps
        /\ m.cpu.files \in Files /\ m.cpu.steps \in Nat
    BY DEF Sound, VmOk, Vm, Cpu
  <1>2. \A path \in DOMAIN m.cpu.files : path \in Seq(Byte) /\ m.cpu.files[path] \in Seq(Byte)
    BY <1>1 DEF Files
  <1>3. m.cpu.steps \in 0..MaxSteps
    BY <1>1, Sizes
  <1> QED BY <1>1, <1>2, <1>3 DEF MachineType, Cpu, FilesOk

\* The invariant keeps every value within its type.
LEMMA MachineTyped == MachineInv => TypeOK
  <1> SUFFICES ASSUME MachineInv PROVE TypeOK
    OBVIOUS
  <1>1. Counters /\ Runs /\ Editor /\ Compiled
    BY DEF MachineInv
  <1>2. MachineType(vm) /\ MachineType(snap)
    BY <1>1, SoundTyped DEF Runs, RunsOn
  <1>3. edit.on => MachineType(edit.from) /\ MachineType(edit.working)
    BY <1>1, SoundTyped DEF Editor, Edited
  <1>4. jit.on => jit.block \in 0..Len(program) /\ jit.regs \in [Touched -> Address]
    BY <1>1, Blocks DEF Compiled, Counters
  <1> QED BY <1>1, <1>2, <1>3, <1>4 DEF TypeOK, Counters, Pages

\* The invariant, and the agreement of the clean pages that saving a delta needs.
LEMMA MachineAlways == MachineSpec => [](MachineInv /\ CleanPagesAgree)
  <1>1. MachineInit => CleanPagesAgree
    BY DEF MachineInit, CleanPagesAgree
  <1>2. (MachineInv /\ CleanPagesAgree) /\ [MachineNext]_machineVars => (MachineInv /\ CleanPagesAgree)'
    BY MachineStep, NextClean
  <1> QED BY <1>1, <1>2, MachineFirst, PTL DEF MachineSpec

\* Whatever programs and users do, registers, heap and files keep their width, the heap
\* top stays in the heap, and an open descriptor has a file that reaches to its cursor.
THEOREM MachineTypeCorrect == MachineSpec => []TypeOK
  BY MachineAlways, MachineTyped, PTL

\* A machine saved in full or as base and delta, and restored any number of times, is
\* where one that was never interrupted is after as many instructions.
THEOREM ResumedRunsAgree == MachineSpec => []ResumedRunAgrees
  <1>1. MachineInv => ResumedRunAgrees
    BY DEF MachineInv, Runs, RunsOn, ResumedRunAgrees
  <1> QED BY <1>1, MachineAlways, PTL

\* The patches of an editor (SnapshotEditor) do to its snapshot what it showed, and
\* PatchSet::reverse undoes them, also where they overlap.
THEOREM EditsAreUndone == MachineSpec => []ReverseUndoes
  <1>1. MachineInv => ReverseUndoes
    BY ReverseLeadsBack DEF MachineInv, Editor, Edited, ReverseUndoes
  <1> QED BY <1>1, MachineAlways, PTL

\* When the compiled program returns.
LEMMA ReturnAgrees ==
  ASSUME MachineInv, [MachineNext]_machineVars, jit.on, ~jit'.on
  PROVE  \E n \in 0..MaxSteps :
           LET m == Uninterrupted(vm)[n] IN Step(m).result = "halted" /\ m.cpu.regs = vm'.cpu.regs
  <1>1. /\ Runs /\ jit.ran \in 0..MaxSteps /\ AtBlock(vm, jit.ran, jit.block, jit.regs)
        /\ Len(program) \in Nat
    BY ProgramForm DEF MachineInv, Compiled, Counters
  <1>2. JitReturn
    <2>1. ~JitBlock
      <3> SUFFICES ASSUME JitBlock PROVE FALSE
        OBVIOUS
      <3>1. jit'.on
        BY DEF JitBlock, RunBlock
      <3> QED BY <3>1
    <2>2. ~UNCHANGED machineVars
      BY DEF machineVars
    <2> QED BY <2>1, <2>2
          DEF MachineNext, Idle, Run, Capture, SaveDelta, Restore, OpenEditor, MakePatch, CloseEditor, ResumeEdited, RunHot
  <1>3. PICK pc \in Nat : /\ Reached(vm, jit.ran, pc, jit.regs)
                          /\ pc = Len(program) \/ Step(Uninterrupted(vm)[jit.ran]).result = "halted"
    BY <1>1, <1>2 DEF AtBlock, JitReturn
  <1> DEFINE m == Uninterrupted(vm)[jit.ran]
  <1>4. m.cpu.pc = pc /\ m.cpu.regs = WithTouched(jit.regs, vm.cpu.regs)
    BY <1>3 DEF Reached
  <1>5. Step(m).result = "halted"
    <2> HIDE DEF m
    <2>1. CASE pc = Len(program)
      <3>1. m.cpu.pc >= Len(program)
        BY <1>1, <1>4, <2>1
      <3>2. Step(m) = Stopped(m, "halted")
        BY <3>1 DEF Step
      <3> QED BY <3>2 DEF Stopped
    <2> QED BY <1>3, <2>1 DEF m
  <1>6. vm'.cpu.regs = WithTouched(jit.regs, vm.cpu.regs)
    <2>1. vm.cpu \in Cpu
      BY <1>1 DEF Runs, RunsOn, Sound, VmOk, Vm
    <2>2. vm'.cpu = [vm.cpu EXCEPT !.regs = WithTouched(jit.regs, @), !.pc = Len(program)]
      BY <1>2 DEF JitReturn
    <2> QED BY <2>1, <2>2 DEF Cpu
  <1> QED BY <1>1, <1>4, <1>5, <1>6

\* A compiled program (run_hot) that returns leaves the registers as the interpreter
\* does, started in the same state, and the interpreter halts without an error.
THEOREM CompiledCodeAgrees == MachineSpec => CompiledAgrees
  <1>1. MachineInv /\ CleanPagesAgree /\ [MachineNext]_machineVars =>
          [jit.on /\ ~jit'.on =>
             \E n \in 0..MaxSteps :
               LET m == Uninterrupted(vm)[n] IN Step(m).result = "halted" /\ m.cpu.regs = vm'.cpu.regs]_machineVars
    BY ReturnAgrees
  <1> QED BY <1>1, MachineAlways, PTL DEF MachineSpec, CompiledAgrees
=============================================================================
