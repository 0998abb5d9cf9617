------------------------------ MODULE FilesProofs ------------------------------
(***************************************************************************)
(* Proofs about AgentFiles, for every set of devices, paths and contents   *)
(* and all bounds.                                                         *)
(***************************************************************************)
EXTENDS AgentFiles, FiniteSetTheorems, SequenceTheorems, TLAPS

-----------------------------------------------------------------------------
(* Tombstones.                                                              *)

IsSeq(s) == \E S : s \in Seq(S)

KeptAtLeast == MaxTombs + 1 - Drained

\* The list ends like its history, and is as long as the code promises.
EndsLike(list, hist) ==
  /\ IsSeq(list) /\ IsSeq(hist)
  /\ Len(list) <= Len(hist) /\ Len(hist) <= MaxTombs
  /\ KeptAtLeast <= Len(list) \/ Len(list) = Len(hist)
  /\ \A k \in 0..(Len(list) - 1) : list[Len(list) - k] = hist[Len(hist) - k]

\* What a sequence is after an element was added at its end.
LEMMA Appended ==
  ASSUME NEW s, IsSeq(s), NEW e
  PROVE  LET a == Append(s, e)
         IN /\ IsSeq(a) /\ Len(s) \in Nat /\ Len(a) = Len(s) + 1
            /\ a[Len(s) + 1] = e /\ \A n \in 1..Len(s) : a[n] = s[n]
  <1>1. PICK S : s \in Seq(S)
    BY DEF IsSeq
  <1>2. s \in Seq(S \cup {e}) /\ Len(s) \in Nat
    BY <1>1
  <1>3. Append(s, e) \in Seq(S \cup {e})
    BY <1>2
  <1> QED BY <1>2, <1>3 DEF IsSeq

\* What it is after its first element was taken off.
LEMMA TakenOff ==
  ASSUME NEW s, IsSeq(s), s # <<>>
  PROVE  /\ IsSeq(Tail(s)) /\ Len(s) \in Nat \ {0} /\ Len(Tail(s)) = Len(s) - 1
         /\ Head(s) = s[1] /\ \A n \in 1..(Len(s) - 1) : Tail(s)[n] = s[n + 1]
  <1>1. PICK S : s \in Seq(S)
    BY DEF IsSeq
  <1>2. Tail(s) \in Seq(S)
    BY <1>1
  <1> QED BY <1>1, <1>2 DEF IsSeq

\* Adding a tombstone keeps the list ending like its history.
LEMMA AddKeeps ==
  ASSUME NEW list, NEW hist, NEW t, EndsLike(list, hist)
  PROVE  EndsLike(AddTombstone(list, t), Lately(hist, t))
  <1>1. /\ Len(list) \in Nat /\ Len(hist) \in Nat /\ MaxTombs \in Nat \ {0}
        /\ Drained \in 1..(MaxTombs + 1) /\ KeptAtLeast = MaxTombs + 1 - Drained
    BY Appended, FilesAssumption DEF EndsLike, KeptAtLeast
  <1>2. /\ Len(list) <= Len(hist) /\ Len(hist) <= MaxTombs
        /\ KeptAtLeast <= Len(list) \/ Len(list) = Len(hist)
        /\ \A k \in 0..(Len(list) - 1) : list[Len(list) - k] = hist[Len(hist) - k]
    BY DEF EndsLike
  <1> DEFINE l1 == Append(list, t)
             h1 == Lately(hist, t)
  \* The history, and its end.
  <1>3. /\ IsSeq(h1) /\ Len(h1) = IF Len(hist) < MaxTombs THEN Len(hist) + 1 ELSE MaxTombs
        /\ h1[Len(h1)] = t
        /\ \A k \in 1..(Len(h1) - 1) : h1[Len(h1) - k] = hist[Len(hist) + 1 - k]
    <2>1. CASE Len(hist) < MaxTombs
      <3>1. h1 = Append(hist, t)
        BY <2>1 DEF Lately
      <3> HIDE DEF h1
      <3>2. /\ IsSeq(h1) /\ Len(h1) = Len(hist) + 1 /\ h1[Len(hist) + 1] = t
            /\ \A n \in 1..Len(hist) : h1[n] = hist[n]
        BY <3>1, Appended DEF EndsLike
      <3> QED BY <1>1, <2>1, <3>2
    <2>2. CASE ~(Len(hist) < MaxTombs)
      <3> DEFINE tl == Tail(hist)
      <3>1. Len(hist) = MaxTombs /\ hist # <<>> /\ h1 = Append(tl, t)
        BY <1>1, <1>2, <2>2 DEF Lately
      <3>2. /\ IsSeq(tl) /\ Len(tl) = Len(hist) - 1
            /\ \A n \in 1..(Len(hist) - 1) : tl[n] = hist[n + 1]
        BY <3>1, TakenOff DEF EndsLike
      <3> HIDE DEF h1, tl
      <3>3. /\ IsSeq(h1) /\ Len(h1) = Len(tl) + 1 /\ h1[Len(tl) + 1] = t
            /\ \A n \in 1..Len(tl) : h1[n] = tl[n]
        BY <3>1, <3>2, Appended
      <3>4. Len(h1) = MaxTombs /\ h1[Len(h1)] = t
        BY <1>1, <3>1, <3>2, <3>3
      <3>5. ASSUME NEW k \in 1..(Len(h1) - 1) PROVE h1[Len(h1) - k] = hist[Len(hist) + 1 - k]
        <4>1. Len(h1) - k \in 1..Len(tl) /\ Len(h1) - k \in 1..(Len(hist) - 1)
          BY <1>1, <3>1, <3>2, <3>4
        <4>2. h1[Len(h1) - k] = hist[Len(h1) - k + 1]
          BY <4>1, <3>2, <3>3
        <4>3. Len(h1) - k + 1 = Len(hist) + 1 - k
          BY <1>1, <3>1, <3>4
        <4> QED BY <4>2, <4>3
      <3> QED BY <2>2, <3>3, <3>4, <3>5
    <2> QED BY <2>1, <2>2
  <1>4. /\ IsSeq(l1) /\ Len(l1) = Len(list) + 1 /\ l1[Len(list) + 1] = t
        /\ \A n \in 1..Len(list) : l1[n] = list[n]
    BY Appended DEF EndsLike
  \* The new end of the list is the new end of the history.
  <1>5. ASSUME NEW k \in 0..Len(list), k < Len(h1) PROVE l1[Len(l1) - k] = h1[Len(h1) - k]
    <2> HIDE DEF l1, h1
    <2>1. CASE k = 0
      <3>1. Len(l1) - k = Len(list) + 1 /\ Len(h1) - k = Len(h1)
        BY <1>1, <1>3, <1>4, <2>1
      <3> QED BY <3>1, <1>3, <1>4
    <2>2. CASE k # 0
      <3>1. k - 1 \in 0..(Len(list) - 1) /\ Len(list) + 1 - k \in 1..Len(list)
        BY <1>1, <2>2
      <3>2. l1[Len(l1) - k] = list[Len(list) + 1 - k]
        BY <3>1, <1>4
      <3>3. Len(list) - (k - 1) = Len(list) + 1 - k /\ Len(hist) - (k - 1) = Len(hist) + 1 - k
        BY <1>1
      <3>4. list[Len(list) + 1 - k] = hist[Len(hist) + 1 - k]
        BY <3>1, <3>3, <1>2
      <3>5. k \in 1..(Len(h1) - 1)
        BY <1>1, <1>3, <1>5, <2>2
      <3> QED BY <3>2, <3>4, <3>5, <1>3
    <2> QED BY <2>1, <2>2
  <1>6. CASE Len(list) < MaxTombs
    <2>1. AddTombstone(list, t) = l1
      BY <1>6 DEF AddTombstone
    <2>2. Len(l1) <= Len(h1) /\ Len(h1) <= MaxTombs
      BY <1>1, <1>2, <1>3, <1>4, <1>6
    <2>3. KeptAtLeast <= Len(l1) \/ Len(l1) = Len(h1)
      BY <1>1, <1>2, <1>3, <1>4, <1>6
    <2>4. \A k \in 0..(Len(l1) - 1) : l1[Len(l1) - k] = h1[Len(h1) - k]
      <3> HIDE DEF l1, h1
      <3> SUFFICES ASSUME NEW k \in 0..(Len(l1) - 1) PROVE l1[Len(l1) - k] = h1[Len(h1) - k]
        OBVIOUS
      <3>1. k \in 0..Len(list) /\ k < Len(h1)
        BY <1>1, <1>3, <1>4, <2>2
      <3> QED BY <3>1, <1>5
    <2> HIDE DEF l1, h1
    <2>5. EndsLike(l1, h1)
      BY <1>3, <1>4, <2>2, <2>3, <2>4 DEF EndsLike
    <2> QED BY <2>1, <2>5 DEF h1
  <1>7. CASE ~(Len(list) < MaxTombs)
    <2> DEFINE l2 == SubSeq(l1, Drained + 1, MaxTombs + 1)
    <2>1. AddTombstone(list, t) = l2
      BY <1>7 DEF AddTombstone
    <2>2. Len(list) = MaxTombs /\ Len(hist) = MaxTombs /\ Len(h1) = MaxTombs /\ Len(l1) = MaxTombs + 1
      BY <1>1, <1>2, <1>3, <1>4, <1>7
    <2>3. /\ IsSeq(l2) /\ Len(l2) = KeptAtLeast
          /\ \A n \in 1..Len(l2) : l2[n] = l1[Drained + n]
      <3> HIDE DEF l1, h1
      <3>1. PICK S : l1 \in Seq(S)
        BY <1>4 DEF IsSeq
      <3>2. Drained + 1 \in 1..(MaxTombs + 2) /\ MaxTombs + 1 \in 0..Len(l1)
        BY <1>1, <2>2
      <3>3. l2 \in Seq(S)
        BY <3>1, <3>2, <1>1
      <3>4. Len(l2) = KeptAtLeast
        BY <3>1, <3>2, <1>1, <2>2
      <3>5. \A n \in 1..Len(l2) : l2[n] = l1[Drained + n]
        BY <3>1, <3>2, <1>1, <2>2, <3>4
      <3> QED BY <3>3, <3>4, <3>5 DEF IsSeq
    <2> HIDE DEF l2, h1, l1
    <2>4. ASSUME NEW k \in 0..(Len(l2) - 1) PROVE l2[Len(l2) - k] = h1[Len(h1) - k]
      <3>1. Len(l2) - k \in 1..Len(l2) /\ Drained + (Len(l2) - k) = Len(l1) - k
        BY <1>1, <2>2, <2>3
      <3>2. l2[Len(l2) - k] = l1[Len(l1) - k]
        BY <3>1, <2>3
      <3>3. k \in 0..Len(list) /\ k < Len(h1)
        BY <1>1, <2>2, <2>3
      <3> QED BY <3>2, <3>3, <1>5
    <2>5. Len(l2) <= Len(h1) /\ Len(h1) <= MaxTombs /\ KeptAtLeast <= Len(l2)
      BY <1>1, <2>2, <2>3
    <2>6. EndsLike(l2, h1)
      BY <1>3, <2>3, <2>4, <2>5 DEF EndsLike
    <2> QED BY <2>1, <2>6 DEF h1
  <1> QED BY <1>6, <1>7

-----------------------------------------------------------------------------
(* The latest tombstones.                                                   *)

TombInv ==
  /\ tombs = [d \in Devices |-> tombs[d]] /\ added = [d \in Devices |-> added[d]]
  /\ \A d \in Devices : EndsLike(tombs[d], added[d])

\* The empty list ends like the empty history, and a short one like itself.
LEMMA EmptyEnds == IsSeq(<<>>) /\ EndsLike(<<>>, <<>>)
  <1>1. <<>> \in Seq({}) /\ Len(<<>>) = 0
    OBVIOUS
  <1>2. IsSeq(<<>>)
    BY <1>1 DEF IsSeq
  <1> QED BY <1>1, <1>2, FilesAssumption DEF EndsLike

\* A list that ends like some history ends like itself.
LEMMA EndsItself ==
  ASSUME NEW list, NEW hist, EndsLike(list, hist)
  PROVE  EndsLike(list, list)
  <1>1. Len(list) \in Nat /\ Len(hist) \in Nat /\ MaxTombs \in Nat
    BY Appended, FilesAssumption DEF EndsLike
  <1> QED BY <1>1 DEF EndsLike

\* What TombInv says is what the property asks for.
LEMMA TombsKept == TombInv => LatestTombstonesKept
  <1> SUFFICES ASSUME TombInv, NEW d \in Devices
               PROVE  LET kept == MaxTombs + 1 - Drained
                          n == IF Len(added[d]) < kept THEN Len(added[d]) ELSE kept
                      IN \A k \in 0..(n - 1) :
                           tombs[d][Len(tombs[d]) - k] = added[d][Len(added[d]) - k]
    BY DEF LatestTombstonesKept
  <1> DEFINE l == tombs[d]
             h == added[d]
             n == IF Len(h) < KeptAtLeast THEN Len(h) ELSE KeptAtLeast
  <1>1. EndsLike(l, h)
    BY DEF TombInv
  <1>2. Len(l) \in Nat /\ Len(h) \in Nat /\ KeptAtLeast \in Nat
    BY <1>1, Appended, FilesAssumption DEF EndsLike, KeptAtLeast
  <1>3. /\ Len(l) <= Len(h) /\ (KeptAtLeast <= Len(l) \/ Len(l) = Len(h))
        /\ \A k \in 0..(Len(l) - 1) : l[Len(l) - k] = h[Len(h) - k]
    BY <1>1 DEF EndsLike
  <1> HIDE DEF l, h
  <1>4. n \in Nat /\ n <= Len(l)
    BY <1>2, <1>3
  <1> HIDE DEF n
  <1>5. \A k \in 0..(n - 1) : l[Len(l) - k] = h[Len(h) - k]
    <2> SUFFICES ASSUME NEW k \in 0..(n - 1) PROVE l[Len(l) - k] = h[Len(h) - k]
      OBVIOUS
    <2>1. k \in 0..(Len(l) - 1)
      BY <1>2, <1>4
    <2> QED BY <2>1, <1>3
  <1> QED BY <1>5 DEF l, h, n, KeptAtLeast

\* One device is given a tombstone.
LEMMA TombAdded ==
  ASSUME TombInv, NEW e \in Devices, NEW t,
         tombs' = [tombs EXCEPT ![e] = AddTombstone(@, t)],
         added' = [added EXCEPT ![e] = Lately(@, t)]
  PROVE  TombInv'
  <1>1. /\ tombs' = [d \in Devices |-> IF d = e THEN AddTombstone(tombs[e], t) ELSE tombs[d]]
        /\ added' = [d \in Devices |-> IF d = e THEN Lately(added[e], t) ELSE added[d]]
    BY DEF TombInv
  <1>2. EndsLike(AddTombstone(tombs[e], t), Lately(added[e], t))
    BY AddKeeps DEF TombInv
  <1>3. \A d \in Devices : EndsLike(tombs'[d], added'[d])
    BY <1>1, <1>2 DEF TombInv
  <1>4. tombs' = [d \in Devices |-> tombs'[d]] /\ added' = [d \in Devices |-> added'[d]]
    BY <1>1
  <1> QED BY <1>3, <1>4 DEF TombInv

\* Every step keeps TombInv.
LEMMA TombStep == TombInv /\ [Next]_vars => TombInv'
  <1> SUFFICES ASSUME TombInv, [Next]_vars PROVE TombInv'
    OBVIOUS
  <1>0. ASSUME UNCHANGED <<tombs, added>> PROVE TombInv'
    BY <1>0 DEF TombInv
  <1>1. CASE UNCHANGED vars
    BY <1>0, <1>1 DEF vars, stateVars
  <1>2. CASE Tick
    BY <1>0, <1>2 DEF Tick, stateVars
  <1>3. ASSUME NEW d \in Devices, NEW p \in Paths, FileCreated(d, p) PROVE TombInv'
    BY <1>0, <1>3 DEF FileCreated
  <1>4. ASSUME NEW d \in Devices, NEW p \in Paths, FileDeleted(d, p) PROVE TombInv'
    <2>1. CASE UNCHANGED <<tombs, added>>
      BY <1>0, <2>1
    <2>2. CASE ~UNCHANGED <<tombs, added>>
      BY <1>4, <2>2, TombAdded DEF FileDeleted
    <2> QED BY <2>1, <2>2
  <1>5. ASSUME NEW d \in Devices, NEW a \in Devices, FileIngest(a, d) PROVE TombInv'
    BY <1>0, <1>5 DEF FileIngest
  <1>6. ASSUME NEW d \in Devices, NEW a \in Devices, Deleted(a, d) PROVE TombInv'
    BY <1>6, TombAdded DEF Deleted
  <1>7. ASSUME NEW d \in Devices, User(d) PROVE TombInv'
    BY <1>0, <1>7 DEF User, UserWrite, UserDelete, stateVars
  <1>8. ASSUME NEW e \in Devices, NEW torn \in BOOLEAN, Restart(e, torn) PROVE TombInv'
    <2> DEFINE kept == IF torn THEN <<>> ELSE tombs[e]
    <2>1. tombs' = [tombs EXCEPT ![e] = kept] /\ added' = [added EXCEPT ![e] = kept]
      BY <1>8 DEF Restart
    <2>2. EndsLike(kept, kept)
      BY EmptyEnds, EndsItself DEF TombInv
    <2> HIDE DEF kept
    <2>3. /\ tombs' = [d \in Devices |-> IF d = e THEN kept ELSE tombs[d]]
          /\ added' = [d \in Devices |-> IF d = e THEN kept ELSE added[d]]
      BY <2>1 DEF TombInv
    <2>4. \A d \in Devices : EndsLike(tombs'[d], added'[d])
      BY <2>2, <2>3 DEF TombInv
    <2>5. tombs' = [d \in Devices |-> tombs'[d]] /\ added' = [d \in Devices |-> added'[d]]
      BY <2>3
    <2> QED BY <2>4, <2>5 DEF TombInv
  <1> QED BY <1>1, <1>2, <1>3, <1>4, <1>5, <1>6, <1>7, <1>8 DEF Next, Program

-----------------------------------------------------------------------------
(* Files and the deletions a device was told of.                            *)

FilesDated ==
  /\ file = [d \in Devices |-> file[d]]
  /\ \A d \in Devices : \A p \in DOMAIN file[d] : file[d][p].mtime \in Nat

WireDated ==
  /\ wire = [w \in Devices \X Devices |-> wire[w]]
  /\ \A w \in Devices \X Devices :
       /\ IsSeq(wire[w])
       /\ \A n \in 1..Len(wire[w]) : wire[w][n].tomb.at \in Nat /\ wire[w][n].tomb.at <= now

HeardDated ==
  /\ heard = [d \in Devices |-> heard[d]]
  /\ \A d \in Devices : \A t \in heard[d] : t.at \in Nat /\ t.at <= now

\* No deletion is announced with a time to come, so a file written now is newer
\* than every deletion its device was told of.
FilesInv == now \in Nat /\ FilesDated /\ WireDated /\ HeardDated /\ DeletionsApplied

\* Files only go.
Shrinks ==
  /\ file' = [d \in Devices |-> file'[d]]
  /\ \A d \in Devices : \A p \in DOMAIN file'[d] :
       p \in DOMAIN file[d] /\ file'[d][p] = file[d][p]

\* Files that go disturb neither dates nor the deletions heard.
LEMMA ShrinkKeeps ==
  ASSUME FilesInv, Shrinks, heard' = heard
  PROVE  FilesDated' /\ DeletionsApplied'
  <1>1. FilesDated'
    BY DEF FilesInv, FilesDated, Shrinks
  <1>2. DeletionsApplied'
    BY DEF FilesInv, DeletionsApplied, Shrinks
  <1> QED BY <1>1, <1>2

\* An announcement with the present time keeps the messages dated.
LEMMA SendKeeps ==
  ASSUME FilesInv, NEW e \in Devices, NEW kind, NEW p, NEW c,
         SendAll(e, Msg(kind, p, c)), now' = now
  PROVE  WireDated'
  <1> DEFINE m == Msg(kind, p, c)
  <1>1. m.tomb.at = now
    BY DEF Msg, Tomb
  <1> HIDE DEF m
  <1>2. wire' = [w \in Devices \X Devices |->
                   IF w[1] = e /\ w[2] # e THEN Append(wire[w], m) ELSE wire[w]]
    BY DEF SendAll, m
  <1>3. ASSUME NEW w \in Devices \X Devices
        PROVE  /\ IsSeq(wire'[w])
               /\ \A n \in 1..Len(wire'[w]) : wire'[w][n].tomb.at \in Nat /\ wire'[w][n].tomb.at <= now
    <2>1. /\ IsSeq(wire[w])
          /\ \A n \in 1..Len(wire[w]) : wire[w][n].tomb.at \in Nat /\ wire[w][n].tomb.at <= now
      BY DEF FilesInv, WireDated
    <2>2. CASE wire'[w] = wire[w]
      BY <2>1, <2>2
    <2>3. CASE wire'[w] = Append(wire[w], m)
      <3> DEFINE s == Append(wire[w], m)
      <3>1. /\ IsSeq(s) /\ Len(wire[w]) \in Nat /\ Len(s) = Len(wire[w]) + 1
            /\ s[Len(wire[w]) + 1] = m /\ \A n \in 1..Len(wire[w]) : s[n] = wire[w][n]
        BY <2>1, Appended
      <3>2. now \in Nat
        BY DEF FilesInv
      <3> HIDE DEF s
      <3>3. ASSUME NEW n \in 1..Len(s) PROVE s[n].tomb.at \in Nat /\ s[n].tomb.at <= now
        <4>1. n \in 1..Len(wire[w]) \/ n = Len(wire[w]) + 1
          BY <3>1
        <4>2. CASE n = Len(wire[w]) + 1
          BY <4>2, <3>1, <3>2, <1>1
        <4>3. CASE n \in 1..Len(wire[w])
          BY <4>3, <3>1, <2>1
        <4> QED BY <4>1, <4>2, <4>3
      <3> QED BY <2>3, <3>1, <3>3 DEF s
    <2> QED BY <1>2, <2>2, <2>3
  <1>4. wire' = [w \in Devices \X Devices |-> wire'[w]]
    BY <1>2
  <1> QED BY <1>3, <1>4 DEF WireDated

\* So does taking a message off.
LEMMA TakeKeeps ==
  ASSUME FilesInv, NEW v \in Devices \X Devices, wire[v] # <<>>,
         wire' = [wire EXCEPT ![v] = Tail(@)], now' = now
  PROVE  WireDated' /\ Head(wire[v]).tomb.at \in Nat /\ Head(wire[v]).tomb.at <= now
  <1>1. wire' = [w \in Devices \X Devices |-> IF w = v THEN Tail(wire[v]) ELSE wire[w]]
    BY DEF FilesInv, WireDated
  <1>2. /\ IsSeq(wire[v])
        /\ \A n \in 1..Len(wire[v]) : wire[v][n].tomb.at \in Nat /\ wire[v][n].tomb.at <= now
    BY DEF FilesInv, WireDated
  <1>3. /\ IsSeq(Tail(wire[v])) /\ Len(wire[v]) \in Nat \ {0} /\ Len(Tail(wire[v])) = Len(wire[v]) - 1
        /\ Head(wire[v]) = wire[v][1] /\ \A n \in 1..(Len(wire[v]) - 1) : Tail(wire[v])[n] = wire[v][n + 1]
    BY <1>2, TakenOff
  <1>4. Head(wire[v]).tomb.at \in Nat /\ Head(wire[v]).tomb.at <= now
    <2>1. 1 \in 1..Len(wire[v])
      BY <1>3
    <2> QED BY <2>1, <1>2, <1>3
  <1>5. \A n \in 1..Len(Tail(wire[v])) : Tail(wire[v])[n].tomb.at \in Nat /\ Tail(wire[v])[n].tomb.at <= now
    <2> SUFFICES ASSUME NEW n \in 1..Len(Tail(wire[v]))
                 PROVE  Tail(wire[v])[n].tomb.at \in Nat /\ Tail(wire[v])[n].tomb.at <= now
      OBVIOUS
    <2>1. n \in 1..(Len(wire[v]) - 1) /\ n + 1 \in 1..Len(wire[v])
      BY <1>3
    <2> QED BY <2>1, <1>2, <1>3
  <1>6. \A w \in Devices \X Devices :
          /\ IsSeq(wire'[w])
          /\ \A n \in 1..Len(wire'[w]) : wire'[w][n].tomb.at \in Nat /\ wire'[w][n].tomb.at <= now
    BY <1>1, <1>3, <1>5 DEF FilesInv, WireDated
  <1>7. wire' = [w \in Devices \X Devices |-> wire'[w]]
    BY <1>1
  <1> QED BY <1>4, <1>6, <1>7 DEF WireDated

\* Every step keeps FilesInv.
LEMMA FilesStep == FilesInv /\ [Next]_vars => FilesInv'
  <1> SUFFICES ASSUME FilesInv, [Next]_vars PROVE FilesInv'
    OBVIOUS
  <1> USE DEF memoryVars, stateVars
  <1>1. CASE UNCHANGED vars
    BY <1>1 DEF vars, FilesInv, FilesDated, WireDated, HeardDated, DeletionsApplied
  <1>2. CASE Tick
    <2>1. now \in Nat /\ now' = now + 1 /\ UNCHANGED <<file, wire, heard>>
      BY <1>2 DEF Tick, FilesInv
    <2>2. FilesDated' /\ DeletionsApplied'
      BY <2>1 DEF FilesInv, FilesDated, DeletionsApplied
    <2>3. \A x \in Nat : x <= now => x <= now'
      BY <2>1
    <2>4. HeardDated'
      BY <2>1, <2>3 DEF FilesInv, HeardDated
    <2>5. WireDated'
      BY <2>1, <2>3 DEF FilesInv, WireDated
    <2> QED BY <2>1, <2>2, <2>4, <2>5 DEF FilesInv
  <1>3. ASSUME NEW e \in Devices, NEW p \in Paths, NEW c \in Cids, UserWrite(e, p, c) PROVE FilesInv'
    <2>1. /\ now' = now /\ now \in Nat /\ UNCHANGED <<wire, heard>>
          /\ file' = [file EXCEPT ![e] = Set(@, p, [cid |-> c, mtime |-> now])]
      BY <1>3 DEF UserWrite, FilesInv
    <2>2. WireDated' /\ HeardDated'
      BY <2>1 DEF FilesInv, WireDated, HeardDated
    <2>3. file' = [d \in Devices |-> IF d = e THEN Set(file[e], p, [cid |-> c, mtime |-> now]) ELSE file[d]]
      BY <2>1 DEF FilesInv, FilesDated
    <2>4. ASSUME NEW d \in Devices, NEW q \in DOMAIN file'[d]
          PROVE  \/ q \in DOMAIN file[d] /\ file'[d][q] = file[d][q]
                 \/ file'[d][q] = [cid |-> c, mtime |-> now]
      BY <2>3, <2>4 DEF Set
    <2>5. FilesDated'
      <3>1. file' = [d \in Devices |-> file'[d]]
        BY <2>3
      <3>2. \A d \in Devices : \A q \in DOMAIN file'[d] : file'[d][q].mtime \in Nat
        BY <2>1, <2>4 DEF FilesInv, FilesDated
      <3> QED BY <3>1, <3>2 DEF FilesDated
    <2>6. DeletionsApplied'
      <3> SUFFICES ASSUME NEW d \in Devices, NEW t \in heard[d], t.path \in DOMAIN file'[d]
                   PROVE  file'[d][t.path].mtime >= t.at
        BY <2>1 DEF DeletionsApplied
      <3>1. CASE t.path \in DOMAIN file[d] /\ file'[d][t.path] = file[d][t.path]
        BY <3>1 DEF FilesInv, DeletionsApplied
      <3>2. CASE file'[d][t.path] = [cid |-> c, mtime |-> now]
        <4>1. file'[d][t.path].mtime = now
          BY <3>2
        <4>2. t.at \in Nat /\ t.at <= now
          BY DEF FilesInv, HeardDated
        <4> QED BY <4>1, <4>2, <2>1
      <3> QED BY <3>1, <3>2, <2>4
    <2> QED BY <2>1, <2>2, <2>5, <2>6 DEF FilesInv
  <1>4. ASSUME NEW e \in Devices, NEW p \in Paths, UserDelete(e, p) PROVE FilesInv'
    <2>1. /\ now' = now /\ now \in Nat /\ UNCHANGED <<wire, heard>>
          /\ file' = [file EXCEPT ![e] = Unset(@, p)]
      BY <1>4 DEF UserDelete, FilesInv
    <2>2. file' = [d \in Devices |-> IF d = e THEN Unset(file[e], p) ELSE file[d]]
      BY <2>1 DEF FilesInv, FilesDated
    <2>3. Shrinks
      BY <2>2 DEF Shrinks, Unset
    <2>4. WireDated' /\ HeardDated'
      BY <2>1 DEF FilesInv, WireDated, HeardDated
    <2> QED BY <2>1, <2>3, <2>4, ShrinkKeeps DEF FilesInv
  <1>5. ASSUME NEW e \in Devices, NEW p \in Paths, FileCreated(e, p) \/ FileDeleted(e, p) PROVE FilesInv'
    <2>1. now' = now /\ now \in Nat /\ UNCHANGED <<file, heard>>
      BY <1>5 DEF FileCreated, FileDeleted, FilesInv
    <2>2. WireDated'
      <3>1. CASE wire' = wire
        BY <2>1, <3>1 DEF FilesInv, WireDated
      <3>2. CASE SendAll(e, Msg("FileIngest", p, file[e][p].cid))
        BY <2>1, <3>2, SendKeeps
      <3>3. CASE SendAll(e, Msg("Deleted", p, Tomb(p, index[e][p]).cid))
        BY <2>1, <3>3, SendKeeps
      <3> QED BY <1>5, <3>1, <3>2, <3>3 DEF FileCreated, FileDeleted
    <2>3. FilesDated' /\ HeardDated' /\ DeletionsApplied'
      BY <2>1 DEF FilesInv, FilesDated, HeardDated, DeletionsApplied
    <2> QED BY <2>1, <2>2, <2>3 DEF FilesInv
  <1>6. ASSUME NEW a \in Devices, NEW e \in Devices, FileIngest(a, e) PROVE FilesInv'
    <2>1. now' = now /\ now \in Nat /\ UNCHANGED <<file, heard>>
      BY <1>6 DEF FileIngest, FilesInv
    <2>2. WireDated'
      BY <1>6, <2>1, TakeKeeps DEF FileIngest
    <2>3. FilesDated' /\ HeardDated' /\ DeletionsApplied'
      BY <2>1 DEF FilesInv, FilesDated, HeardDated, DeletionsApplied
    <2> QED BY <2>1, <2>2, <2>3 DEF FilesInv
  <1>7. ASSUME NEW a \in Devices, NEW e \in Devices, Deleted(a, e) PROVE FilesInv'
    <2> DEFINE w == <<a, e>>
               t == Head(wire[w]).tomb
               gone == Removed(file[e], t)
    <2>1. /\ now' = now /\ now \in Nat /\ wire[w] # <<>> /\ w \in Devices \X Devices
          /\ wire' = [wire EXCEPT ![w] = Tail(@)]
          /\ heard' = [heard EXCEPT ![e] = @ \cup {t}]
          /\ file' = [file EXCEPT ![e] = [p \in DOMAIN @ \ gone |-> @[p]]]
      BY <1>7 DEF Deleted, RemoveFiles, FilesInv
    <2>2. WireDated' /\ t.at \in Nat /\ t.at <= now
      BY <2>1, TakeKeeps
    <2>3. file' = [d \in Devices |-> IF d = e THEN [p \in DOMAIN file[e] \ gone |-> file[e][p]] ELSE file[d]]
      BY <2>1 DEF FilesInv, FilesDated
    <2>4. heard' = [d \in Devices |-> IF d = e THEN heard[e] \cup {t} ELSE heard[d]]
      BY <2>1 DEF FilesInv, HeardDated
    <2>5. \A p \in DOMAIN file[e] : p = t.path /\ file[e][p].mtime <= t.at => p \in gone
      BY DEF Removed
    <2> HIDE DEF t, gone
    <2>6. HeardDated'
      <3>1. heard' = [d \in Devices |-> heard'[d]]
        BY <2>4
      <3>2. \A d \in Devices : \A u \in heard'[d] : u.at \in Nat /\ u.at <= now
        BY <2>2, <2>4 DEF FilesInv, HeardDated
      <3> QED BY <3>1, <3>2, <2>1 DEF HeardDated
    <2>7. Shrinks
      BY <2>3 DEF Shrinks
    <2>8. FilesDated'
      BY <2>7 DEF Shrinks, FilesInv, FilesDated
    <2>9. DeletionsApplied'
      <3> SUFFICES ASSUME NEW d \in Devices, NEW u \in heard'[d], u.path \in DOMAIN file'[d]
                   PROVE  file'[d][u.path].mtime >= u.at
        BY DEF DeletionsApplied
      <3>1. u.path \in DOMAIN file[d] /\ file'[d][u.path] = file[d][u.path]
        BY <2>7 DEF Shrinks
      <3>2. CASE u \in heard[d]
        BY <3>1, <3>2 DEF FilesInv, DeletionsApplied
      <3>3. CASE d = e /\ u = t
        <4>1. u.path \notin gone
          BY <2>3, <3>3
        <4>2. ~(file[e][u.path].mtime <= t.at)
          BY <4>1, <3>1, <3>3, <2>5
        <4>3. file[e][u.path].mtime \in Nat
          BY <3>1, <3>3 DEF FilesInv, FilesDated
        <4> QED BY <4>2, <4>3, <2>2, <3>1, <3>3
      <3> QED BY <3>2, <3>3, <2>4
    <2> QED BY <2>1, <2>2, <2>6, <2>8, <2>9 DEF FilesInv
  <1>8. ASSUME NEW e \in Devices, NEW torn \in BOOLEAN, Restart(e, torn) PROVE FilesInv'
    <2> DEFINE gone == RemovedByAll(file[e], IF torn THEN <<>> ELSE tombs[e])
    <2>1. /\ now' = now /\ now \in Nat /\ UNCHANGED heard
          /\ wire' = [w \in Devices \X Devices |-> IF e \in {w[1], w[2]} THEN <<>> ELSE wire[w]]
          /\ file' = [file EXCEPT ![e] = [p \in DOMAIN @ \ gone |-> @[p]]]
      BY <1>8 DEF Restart, FilesInv
    <2> HIDE DEF gone
    <2>2. file' = [d \in Devices |-> IF d = e THEN [p \in DOMAIN file[e] \ gone |-> file[e][p]] ELSE file[d]]
      BY <2>1 DEF FilesInv, FilesDated
    <2>3. Shrinks
      BY <2>2 DEF Shrinks
    <2>4. HeardDated'
      BY <2>1 DEF FilesInv, HeardDated
    <2>5. WireDated'
      <3>1. wire' = [w \in Devices \X Devices |-> wire'[w]]
        BY <2>1
      <3>2. \A w \in Devices \X Devices : wire'[w] = <<>> \/ wire'[w] = wire[w]
        BY <2>1
      <3>3. IsSeq(<<>>) /\ 1..Len(<<>>) = {}
        BY EmptyEnds
      <3>4. \A w \in Devices \X Devices :
              /\ IsSeq(wire'[w])
              /\ \A n \in 1..Len(wire'[w]) : wire'[w][n].tomb.at \in Nat /\ wire'[w][n].tomb.at <= now
        BY <3>2, <3>3 DEF FilesInv, WireDated
      <3> QED BY <2>1, <3>1, <3>4 DEF WireDated
    <2> QED BY <2>1, <2>3, <2>4, <2>5, ShrinkKeeps DEF FilesInv
  <1> QED BY <1>1, <1>2, <1>3, <1>4, <1>5, <1>6, <1>7, <1>8 DEF Next, Program, User

\* Both invariants hold at the start.
LEMMA FilesInit == Init => TombInv /\ FilesInv
  <1> SUFFICES ASSUME Init PROVE TombInv /\ FilesInv
    OBVIOUS
  <1>1. TombInv
    BY EmptyEnds DEF Init, TombInv
  <1>2. FilesDated /\ HeardDated /\ DeletionsApplied /\ now \in Nat
    BY DEF Init, FilesDated, HeardDated, DeletionsApplied, NoMap
  <1>3. WireDated
    <2>1. wire = [w \in Devices \X Devices |-> <<>>]
      BY DEF Init
    <2>2. IsSeq(<<>>) /\ 1..Len(<<>>) = {}
      BY EmptyEnds
    <2> QED BY <2>1, <2>2 DEF WireDated
  <1> QED BY <1>1, <1>2, <1>3 DEF FilesInv

\* Whatever a device was told is deleted is gone or written again, and the latest
\* tombstones are there for its next start, for any devices, paths and contents,
\* any number of tombstones kept and any restarts, torn state files included.
THEOREM DeletionsAreKept == Spec => []DeletionsKept
  <1>1. TombInv /\ FilesInv => DeletionsKept
    BY TombsKept DEF FilesInv, DeletionsKept
  <1> QED BY <1>1, FilesInit, TombStep, FilesStep, PTL DEF Spec

-----------------------------------------------------------------------------
(* The index and the files.                                                 *)

\* Event n of queue q is the last about p.
LastAbout(q, p, n) == q[n].path = p /\ \A m \in (n + 1)..Len(q) : q[m].path # p

\* Index idx is right about p.
Settled(files, idx, p) ==
  /\ p \in DOMAIN idx <=> p \in DOMAIN files
  /\ p \in DOMAIN files => idx[p] = files[p].cid

\* The last event about p tells whether there is a file, and without one the
\* index is right about it.
QueueTells(q, files, idx, p) ==
  /\ \A n \in 1..Len(q) : LastAbout(q, p, n) => (q[n].kind = "Created" <=> p \in DOMAIN files)
  /\ (\A n \in 1..Len(q) : q[n].path # p) => Settled(files, idx, p)

QueueInv(q, files, idx) ==
  /\ IsSeq(q) /\ idx = [p \in DOMAIN idx |-> idx[p]]
  /\ DOMAIN idx \subseteq Paths /\ DOMAIN files \subseteq Paths
  /\ \A p \in Paths : QueueTells(q, files, idx, p)

IndexInv ==
  /\ restarts = [d \in Devices |-> restarts[d]] /\ \A d \in Devices : restarts[d] \in Nat
  /\ events = [d \in Devices |-> events[d]] /\ file = [d \in Devices |-> file[d]]
  /\ index = [d \in Devices |-> index[d]]
  /\ \A d \in Devices : restarts[d] = 0 => QueueInv(events[d], file[d], index[d])

\* A file is written or removed and its event queued.
LEMMA EventQueued ==
  ASSUME NEW q, NEW files, NEW idx, QueueInv(q, files, idx),
         NEW kind, NEW p0 \in Paths, NEW files1,
         DOMAIN files1 \subseteq Paths, kind = "Created" <=> p0 \in DOMAIN files1,
         \A p \in Paths : p # p0 => /\ (p \in DOMAIN files1 <=> p \in DOMAIN files)
                                    /\ p \in DOMAIN files => files1[p] = files[p]
  PROVE  QueueInv(Append(q, Ev(kind, p0)), files1, idx)
  <1> DEFINE e == Ev(kind, p0)
             q1 == Append(q, e)
  <1>1. e.kind = kind /\ e.path = p0
    BY DEF Ev
  <1>2. /\ IsSeq(q1) /\ Len(q) \in Nat /\ Len(q1) = Len(q) + 1
        /\ q1[Len(q) + 1] = e /\ \A n \in 1..Len(q) : q1[n] = q[n]
    BY Appended DEF QueueInv
  <1> HIDE DEF e, q1
  <1>3. ASSUME NEW p \in Paths PROVE QueueTells(q1, files1, idx, p)
    <2>0. QueueTells(q, files, idx, p)
      BY DEF QueueInv
    <2>1. ASSUME NEW n \in 1..Len(q1), LastAbout(q1, p, n)
          PROVE  q1[n].kind = "Created" <=> p \in DOMAIN files1
      <3>1. CASE n = Len(q) + 1
        BY <1>1, <1>2, <2>1, <3>1 DEF LastAbout
      <3>2. CASE n # Len(q) + 1
        <4>1. n \in 1..Len(q) /\ Len(q) + 1 \in (n + 1)..Len(q1)
          BY <1>2, <3>2
        <4>2. p # p0
          BY <1>1, <1>2, <2>1, <4>1 DEF LastAbout
        <4>3. LastAbout(q, p, n)
          <5>1. q[n].path = p
            BY <1>2, <2>1, <4>1 DEF LastAbout
          <5>2. ASSUME NEW m \in (n + 1)..Len(q) PROVE q[m].path # p
            <6>1. m \in (n + 1)..Len(q1) /\ m \in 1..Len(q)
              BY <1>2, <4>1
            <6> QED BY <1>2, <2>1, <6>1 DEF LastAbout
          <5> QED BY <5>1, <5>2 DEF LastAbout
        <4>4. p \in DOMAIN files1 <=> p \in DOMAIN files
          BY <4>2
        <4>5. q[n].kind = "Created" <=> p \in DOMAIN files
          BY <2>0, <4>1, <4>3 DEF QueueTells
        <4> QED BY <1>2, <4>1, <4>4, <4>5
      <3> QED BY <3>1, <3>2
    <2>2. ASSUME \A n \in 1..Len(q1) : q1[n].path # p PROVE Settled(files1, idx, p)
      <3>1. p # p0
        <4>1. Len(q) + 1 \in 1..Len(q1)
          BY <1>2
        <4> QED BY <1>1, <1>2, <2>2, <4>1
      <3>2. \A n \in 1..Len(q) : q[n].path # p
        <4> SUFFICES ASSUME NEW n \in 1..Len(q) PROVE q[n].path # p
          OBVIOUS
        <4>1. n \in 1..Len(q1)
          BY <1>2
        <4> QED BY <1>2, <2>2, <4>1
      <3>3. Settled(files, idx, p)
        BY <2>0, <3>2 DEF QueueTells
      <3>4. p \in DOMAIN files1 <=> p \in DOMAIN files
        BY <3>1
      <3>5. p \in DOMAIN files => files1[p] = files[p]
        BY <3>1
      <3> QED BY <3>3, <3>4, <3>5 DEF Settled
    <2> QED BY <2>1, <2>2 DEF QueueTells
  <1> QED BY <1>2, <1>3 DEF QueueInv, q1, e

\* The first event is handled, and leaves the index right about its file if the
\* event is.
LEMMA EventHandled ==
  ASSUME NEW q, NEW files, NEW idx, QueueInv(q, files, idx), q # <<>>,
         NEW kind, NEW p0 \in Paths, Head(q) = Ev(kind, p0), NEW idx1,
         idx1 = [p \in DOMAIN idx1 |-> idx1[p]], DOMAIN idx1 \subseteq Paths,
         (kind = "Created" <=> p0 \in DOMAIN files) => Settled(files, idx1, p0),
         \A p \in Paths : p # p0 => /\ (p \in DOMAIN idx1 <=> p \in DOMAIN idx)
                                    /\ p \in DOMAIN idx => idx1[p] = idx[p]
  PROVE  QueueInv(Tail(q), files, idx1)
  <1> DEFINE q1 == Tail(q)
  <1>1. /\ IsSeq(q1) /\ Len(q) \in Nat \ {0} /\ Len(q1) = Len(q) - 1
        /\ Head(q) = q[1] /\ \A n \in 1..(Len(q) - 1) : q1[n] = q[n + 1]
    BY TakenOff DEF QueueInv
  <1>2. q[1].kind = kind /\ q[1].path = p0
    BY <1>1 DEF Ev
  <1> HIDE DEF q1
  <1>3. ASSUME NEW p \in Paths PROVE QueueTells(q1, files, idx1, p)
    <2>0. QueueTells(q, files, idx, p)
      BY DEF QueueInv
    <2>1. ASSUME NEW n \in 1..Len(q1), LastAbout(q1, p, n)
          PROVE  q1[n].kind = "Created" <=> p \in DOMAIN files
      <3>1. n + 1 \in 1..Len(q) /\ n \in 1..(Len(q) - 1)
        BY <1>1
      <3>2. ASSUME NEW m \in (n + 1 + 1)..Len(q) PROVE q[m].path # p
        <4>1. m - 1 \in (n + 1)..Len(q1) /\ m - 1 \in 1..(Len(q) - 1) /\ m - 1 + 1 = m
          BY <1>1, <3>1
        <4>2. q1[m - 1].path # p
          BY <2>1, <4>1 DEF LastAbout
        <4>3. q1[m - 1] = q[m]
          BY <1>1, <4>1
        <4> QED BY <4>2, <4>3
      <3>3. LastAbout(q, p, n + 1)
        BY <1>1, <2>1, <3>1, <3>2 DEF LastAbout
      <3> QED BY <1>1, <2>0, <3>1, <3>3 DEF QueueTells
    <2>2. ASSUME \A n \in 1..Len(q1) : q1[n].path # p PROVE Settled(files, idx1, p)
      <3>1. \A m \in (1 + 1)..Len(q) : q[m].path # p
        <4> SUFFICES ASSUME NEW m \in (1 + 1)..Len(q) PROVE q[m].path # p
          OBVIOUS
        <4>1. m - 1 \in 1..Len(q1) /\ m - 1 \in 1..(Len(q) - 1) /\ m - 1 + 1 = m
          BY <1>1
        <4>2. q1[m - 1].path # p /\ q1[m - 1] = q[m]
          BY <1>1, <2>2, <4>1
        <4> QED BY <4>2
      <3>2. CASE p = p0
        <4>1. LastAbout(q, p, 1) /\ 1 \in 1..Len(q)
          BY <1>1, <1>2, <3>1, <3>2 DEF LastAbout
        <4>2. kind = "Created" <=> p0 \in DOMAIN files
          BY <1>2, <2>0, <3>2, <4>1 DEF QueueTells
        <4> QED BY <3>2, <4>2
      <3>3. CASE p # p0
        <4>1. \A n \in 1..Len(q) : q[n].path # p
          <5> SUFFICES ASSUME NEW n \in 1..Len(q) PROVE q[n].path # p
            OBVIOUS
          <5>1. n = 1 \/ n \in (1 + 1)..Len(q)
            BY <1>1
          <5> QED BY <1>2, <3>1, <3>3, <5>1
        <4>2. Settled(files, idx, p)
          BY <2>0, <4>1 DEF QueueTells
        <4>3. p \in DOMAIN idx1 <=> p \in DOMAIN idx
          BY <3>3
        <4>4. p \in DOMAIN idx => idx1[p] = idx[p]
          BY <3>3
        <4> QED BY <4>2, <4>3, <4>4 DEF Settled
      <3> QED BY <3>2, <3>3
    <2> QED BY <2>1, <2>2 DEF QueueTells
  <1> QED BY <1>1, <1>3 DEF QueueInv, q1

\* The files an announced deletion removes are one or none.
LEMMA FilesRemoved ==
  ASSUME NEW q, NEW files, NEW idx, QueueInv(q, files, idx), NEW t
  PROVE  LET gone == Removed(files, t)
         IN QueueInv(q \o [n \in 1..Cardinality(gone) |-> Ev("Deleted", SetToSeq(gone)[n])],
                     [p \in DOMAIN files \ gone |-> files[p]], idx)
  <1> DEFINE gone == Removed(files, t)
             more == [n \in 1..Cardinality(gone) |-> Ev("Deleted", SetToSeq(gone)[n])]
             left == [p \in DOMAIN files \ gone |-> files[p]]
  <1>1. PICK S : q \in Seq(S)
    BY DEF QueueInv, IsSeq
  <1>2. CASE gone = {}
    <2>1. Cardinality(gone) = 0
      BY <1>2, FS_EmptySet
    <2>2. more = <<>>
      BY <2>1
    <2>3. q \o more = q
      BY <1>1, <2>2, ConcatEmptySeq
    <2>4. \A p \in Paths : /\ p \in DOMAIN left <=> p \in DOMAIN files
                           /\ p \in DOMAIN files => left[p] = files[p]
      BY <1>2
    <2>5. DOMAIN left = DOMAIN files
      BY <1>2
    <2> HIDE DEF left, more, gone
    <2>6. \A p \in Paths : QueueTells(q, left, idx, p)
      <3> SUFFICES ASSUME NEW p \in Paths PROVE QueueTells(q, left, idx, p)
        OBVIOUS
      <3>1. QueueTells(q, files, idx, p)
        BY DEF QueueInv
      <3>2. p \in DOMAIN files => left[p] = files[p]
        BY <2>4
      <3>3. Settled(files, idx, p) => Settled(left, idx, p)
        BY <2>5, <3>2 DEF Settled
      <3> QED BY <2>5, <3>1, <3>3 DEF QueueTells
    <2> QED BY <2>3, <2>5, <2>6 DEF QueueInv, gone, more, left
  <1>3. CASE gone # {}
    <2>1. gone = {t.path} /\ t.path \in DOMAIN files
      BY <1>3 DEF Removed
    <2>2. t.path \in Paths
      BY <2>1 DEF QueueInv
    <2>3. Cardinality(gone) = 1
      BY <2>1, FS_Singleton
    <2>4. SetToSeq(gone)[1] = t.path
      <3> DEFINE one == [i \in 1..1 |-> t.path]
      <3>1. one \in [1..Cardinality(gone) -> gone] /\ IsInjective(one)
        BY <2>1, <2>3 DEF IsInjective
      <3>2. SetToSeq(gone) \in [1..Cardinality(gone) -> gone]
        <4> HIDE DEF gone, one
        <4> QED BY <3>1 DEF SetToSeq
      <3> QED BY <2>1, <2>3, <3>2
    <2>5. more = <<Ev("Deleted", t.path)>>
      BY <2>3, <2>4
    <2>6. q \o more = Append(q, Ev("Deleted", t.path))
      <3> DEFINE e == Ev("Deleted", t.path)
      <3>1. e \in S \cup {e} /\ q \in Seq(S \cup {e})
        BY <1>1
      <3> HIDE DEF e
      <3>2. Append(q, e) = q \o <<e>>
        BY <3>1, AppendIsConcat
      <3> QED BY <2>5, <3>2 DEF e
    <2>7. \A p \in Paths : p # t.path => /\ p \in DOMAIN left <=> p \in DOMAIN files
                                         /\ p \in DOMAIN files => left[p] = files[p]
      BY <2>1
    <2>8. t.path \notin DOMAIN left /\ DOMAIN left \subseteq Paths
      BY <2>1 DEF QueueInv
    <2> HIDE DEF left, more, gone
    <2>9. "Deleted" = "Created" <=> t.path \in DOMAIN left
      BY <2>8
    <2>10. QueueInv(Append(q, Ev("Deleted", t.path)), left, idx)
      BY <2>2, <2>7, <2>8, <2>9, EventQueued
    <2> QED BY <2>6, <2>10 DEF gone, more, left
  <1> QED BY <1>2, <1>3

LEMMA EntryMade ==
  ASSUME NEW q, NEW files, NEW idx, QueueInv(q, files, idx), q # <<>>,
         NEW p0 \in Paths, Head(q) = Ev("Created", p0)
  PROVE  /\ (p0 \in DOMAIN files => p0 \in DOMAIN idx /\ idx[p0] = files[p0].cid) => QueueInv(Tail(q), files, idx)
         /\ QueueInv(Tail(q), files, Set(idx, p0, files[p0].cid))
  <1>1. idx = [p \in DOMAIN idx |-> idx[p]] /\ DOMAIN idx \subseteq Paths
    BY DEF QueueInv
  <1>2. ASSUME p0 \in DOMAIN files => p0 \in DOMAIN idx /\ idx[p0] = files[p0].cid
        PROVE  QueueInv(Tail(q), files, idx)
    <2>1. ("Created" = "Created" <=> p0 \in DOMAIN files) => Settled(files, idx, p0)
      BY <1>2 DEF Settled
    <2> QED BY <1>1, <2>1, EventHandled
  <1>3. QueueInv(Tail(q), files, Set(idx, p0, files[p0].cid))
    <2> DEFINE idx1 == Set(idx, p0, files[p0].cid)
    <2>1. /\ idx1 = [p \in DOMAIN idx1 |-> idx1[p]] /\ DOMAIN idx1 = DOMAIN idx \cup {p0}
          /\ idx1[p0] = files[p0].cid /\ \A p \in DOMAIN idx : p # p0 => idx1[p] = idx[p]
      BY DEF Set
    <2> HIDE DEF idx1
    <2>2. ("Created" = "Created" <=> p0 \in DOMAIN files) => Settled(files, idx1, p0)
      BY <2>1 DEF Settled
    <2>3. DOMAIN idx1 \subseteq Paths
      BY <1>1, <2>1
    <2>4. \A p \in Paths : p # p0 => /\ p \in DOMAIN idx1 <=> p \in DOMAIN idx
                                     /\ p \in DOMAIN idx => idx1[p] = idx[p]
      BY <2>1
    <2>5. QueueInv(Tail(q), files, idx1)
      BY <2>1, <2>2, <2>3, <2>4, EventHandled
    <2> QED BY <2>5 DEF idx1
  <1> QED BY <1>2, <1>3

LEMMA EntryGone ==
  ASSUME NEW q, NEW files, NEW idx, QueueInv(q, files, idx), q # <<>>,
         NEW p0 \in Paths, Head(q) = Ev("Deleted", p0)
  PROVE  /\ p0 \notin DOMAIN idx => QueueInv(Tail(q), files, idx)
         /\ QueueInv(Tail(q), files, Unset(idx, p0))
  <1>1. idx = [p \in DOMAIN idx |-> idx[p]] /\ DOMAIN idx \subseteq Paths
    BY DEF QueueInv
  <1>2. ASSUME p0 \notin DOMAIN idx PROVE QueueInv(Tail(q), files, idx)
    <2>1. ("Deleted" = "Created" <=> p0 \in DOMAIN files) => Settled(files, idx, p0)
      BY <1>2 DEF Settled
    <2> QED BY <1>1, <2>1, EventHandled
  <1>3. QueueInv(Tail(q), files, Unset(idx, p0))
    <2> DEFINE idx1 == Unset(idx, p0)
    <2>1. /\ idx1 = [p \in DOMAIN idx1 |-> idx1[p]] /\ DOMAIN idx1 = DOMAIN idx \ {p0}
          /\ \A p \in DOMAIN idx : p # p0 => idx1[p] = idx[p]
      BY DEF Unset
    <2> HIDE DEF idx1
    <2>2. ("Deleted" = "Created" <=> p0 \in DOMAIN files) => Settled(files, idx1, p0)
      BY <2>1 DEF Settled
    <2>3. DOMAIN idx1 \subseteq Paths
      BY <1>1, <2>1
    <2>4. \A p \in Paths : p # p0 => /\ p \in DOMAIN idx1 <=> p \in DOMAIN idx
                                     /\ p \in DOMAIN idx => idx1[p] = idx[p]
      BY <2>1
    <2>5. QueueInv(Tail(q), files, idx1)
      BY <2>1, <2>2, <2>3, <2>4, EventHandled
    <2> QED BY <2>5 DEF idx1
  <1> QED BY <1>2, <1>3

\* One device's queue, files and index change.
LEMMA DeviceStep ==
  ASSUME IndexInv, NEW d \in Devices, UNCHANGED restarts,
         NEW q, NEW files, NEW idx, QueueInv(events[d], file[d], index[d]) => QueueInv(q, files, idx),
         events' = [events EXCEPT ![d] = q], file' = [file EXCEPT ![d] = files],
         index' = [index EXCEPT ![d] = idx]
  PROVE  IndexInv'
  <1>1. /\ events' = [e \in Devices |-> IF e = d THEN q ELSE events[e]]
        /\ file' = [e \in Devices |-> IF e = d THEN files ELSE file[e]]
        /\ index' = [e \in Devices |-> IF e = d THEN idx ELSE index[e]]
    BY DEF IndexInv
  <1>2. \A e \in Devices : restarts'[e] = 0 => QueueInv(events'[e], file'[e], index'[e])
    <2> SUFFICES ASSUME NEW e \in Devices, restarts'[e] = 0 PROVE QueueInv(events'[e], file'[e], index'[e])
      OBVIOUS
    <2>1. QueueInv(events[e], file[e], index[e])
      BY DEF IndexInv
    <2>2. CASE e = d
      BY <1>1, <2>1, <2>2
    <2>3. CASE e # d
      BY <1>1, <2>1, <2>3
    <2> QED BY <2>2, <2>3
  <1>3. /\ events' = [e \in Devices |-> events'[e]] /\ file' = [e \in Devices |-> file'[e]]
        /\ index' = [e \in Devices |-> index'[e]]
    BY <1>1
  <1> QED BY <1>2, <1>3 DEF IndexInv

LEMMA IndexStep == IndexInv /\ [Next]_vars => IndexInv'
  <1> SUFFICES ASSUME IndexInv, [Next]_vars PROVE IndexInv'
    OBVIOUS
  <1> USE DEF memoryVars, stateVars
  <1>0. \A d \in Devices : /\ file = [file EXCEPT ![d] = file[d]] /\ index = [index EXCEPT ![d] = index[d]]
                           /\ events = [events EXCEPT ![d] = events[d]]
    BY DEF IndexInv
  <1>1. ASSUME UNCHANGED <<restarts, events, file, index>> PROVE IndexInv'
    BY <1>1 DEF IndexInv
  <1>2. CASE UNCHANGED vars
    BY <1>1, <1>2 DEF vars
  <1>3. CASE Tick
    BY <1>1, <1>3 DEF Tick
  <1>4. ASSUME NEW d \in Devices, NEW p \in Paths, FileCreated(d, p) PROVE IndexInv'
    <2> DEFINE q == events[d]
               c == file[d][p].cid
    <2>1. /\ q # <<>> /\ Head(q) = Ev("Created", p) /\ events' = [events EXCEPT ![d] = Tail(q)]
          /\ UNCHANGED <<restarts, file>>
      BY <1>4 DEF FileCreated, NextEvent
    <2>2. CASE (p \in DOMAIN file[d] => p \in DOMAIN index[d] /\ index[d][p] = c) /\ UNCHANGED index
      <3>1. QueueInv(q, file[d], index[d]) => QueueInv(Tail(q), file[d], index[d])
        BY <2>1, <2>2, EntryMade
      <3>2. file' = [file EXCEPT ![d] = file[d]] /\ index' = [index EXCEPT ![d] = index[d]]
        BY <1>0, <2>1, <2>2
      <3> QED BY <2>1, <3>1, <3>2, DeviceStep
    <2>3. CASE index' = [index EXCEPT ![d] = Set(index[d], p, c)]
      <3>1. QueueInv(q, file[d], index[d]) => QueueInv(Tail(q), file[d], Set(index[d], p, c))
        BY <2>1, EntryMade
      <3>2. file' = [file EXCEPT ![d] = file[d]]
        BY <1>0, <2>1
      <3> HIDE DEF c
      <3> QED BY <2>1, <2>3, <3>1, <3>2, DeviceStep
    <2> QED BY <1>4, <2>2, <2>3 DEF FileCreated, Indexed
  <1>5. ASSUME NEW d \in Devices, NEW p \in Paths, FileDeleted(d, p) PROVE IndexInv'
    <2> DEFINE q == events[d]
    <2>1. /\ q # <<>> /\ Head(q) = Ev("Deleted", p) /\ events' = [events EXCEPT ![d] = Tail(q)]
          /\ UNCHANGED <<restarts, file>>
      BY <1>5 DEF FileDeleted, NextEvent
    <2>2. CASE p \notin DOMAIN index[d] /\ UNCHANGED index
      <3>1. QueueInv(q, file[d], index[d]) => QueueInv(Tail(q), file[d], index[d])
        BY <2>1, <2>2, EntryGone
      <3>2. file' = [file EXCEPT ![d] = file[d]] /\ index' = [index EXCEPT ![d] = index[d]]
        BY <1>0, <2>1, <2>2
      <3> QED BY <2>1, <3>1, <3>2, DeviceStep
    <2>3. CASE index' = [index EXCEPT ![d] = Unset(index[d], p)]
      <3>1. QueueInv(q, file[d], index[d]) => QueueInv(Tail(q), file[d], Unset(index[d], p))
        BY <2>1, EntryGone
      <3>2. file' = [file EXCEPT ![d] = file[d]]
        BY <1>0, <2>1
      <3> QED BY <2>1, <2>3, <3>1, <3>2, DeviceStep
    <2> QED BY <1>5, <2>2, <2>3 DEF FileDeleted
  <1>6. ASSUME NEW d \in Devices, NEW a \in Devices, FileIngest(a, d) PROVE IndexInv'
    BY <1>1, <1>6 DEF FileIngest
  <1>7. ASSUME NEW d \in Devices, NEW a \in Devices, Deleted(a, d) PROVE IndexInv'
    <2> DEFINE t == Head(wire[<<a, d>>]).tomb
               gone == Removed(file[d], t)
               q == events[d] \o [n \in 1..Cardinality(gone) |-> Ev("Deleted", SetToSeq(gone)[n])]
               left == [p \in DOMAIN file[d] \ gone |-> file[d][p]]
    <2>1. /\ events' = [events EXCEPT ![d] = q] /\ file' = [file EXCEPT ![d] = left]
          /\ UNCHANGED <<restarts, index>>
      BY <1>7 DEF Deleted, RemoveFiles
    <2>2. QueueInv(events[d], file[d], index[d]) => QueueInv(q, left, index[d])
      BY FilesRemoved
    <2>3. index' = [index EXCEPT ![d] = index[d]]
      BY <1>0, <2>1
    <2> HIDE DEF q, left
    <2> QED BY <2>1, <2>2, <2>3, DeviceStep
  <1>8. ASSUME NEW d \in Devices, NEW p \in Paths, NEW c \in Cids, UserWrite(d, p, c) PROVE IndexInv'
    <2> DEFINE files == Set(file[d], p, [cid |-> c, mtime |-> now])
               q == Append(events[d], Ev("Created", p))
    <2>1. /\ events' = [events EXCEPT ![d] = q] /\ file' = [file EXCEPT ![d] = files]
          /\ UNCHANGED <<restarts, index>>
      BY <1>8 DEF UserWrite
    <2>2. index' = [index EXCEPT ![d] = index[d]]
      BY <1>0, <2>1
    <2>3. DOMAIN files = DOMAIN file[d] \cup {p} /\ \A r \in DOMAIN file[d] : r # p => files[r] = file[d][r]
      BY DEF Set
    <2> HIDE DEF files
    <2>4. ASSUME QueueInv(events[d], file[d], index[d]) PROVE QueueInv(q, files, index[d])
      <3>1. DOMAIN files \subseteq Paths /\ ("Created" = "Created" <=> p \in DOMAIN files)
        BY <2>3, <2>4 DEF QueueInv
      <3>2. \A r \in Paths : r # p => /\ r \in DOMAIN files <=> r \in DOMAIN file[d]
                                      /\ r \in DOMAIN file[d] => files[r] = file[d][r]
        BY <2>3
      <3> QED BY <2>4, <3>1, <3>2, EventQueued
    <2> HIDE DEF q
    <2> QED BY <2>1, <2>2, <2>4, DeviceStep
  <1>9. ASSUME NEW d \in Devices, NEW p \in Paths, UserDelete(d, p) PROVE IndexInv'
    <2> DEFINE files == Unset(file[d], p)
               q == Append(events[d], Ev("Deleted", p))
    <2>1. /\ events' = [events EXCEPT ![d] = q] /\ file' = [file EXCEPT ![d] = files]
          /\ UNCHANGED <<restarts, index>>
      BY <1>9 DEF UserDelete
    <2>2. index' = [index EXCEPT ![d] = index[d]]
      BY <1>0, <2>1
    <2>3. DOMAIN files = DOMAIN file[d] \ {p} /\ \A r \in DOMAIN file[d] : r # p => files[r] = file[d][r]
      BY DEF Unset
    <2> HIDE DEF files
    <2>4. ASSUME QueueInv(events[d], file[d], index[d]) PROVE QueueInv(q, files, index[d])
      <3>1. DOMAIN files \subseteq Paths /\ ("Deleted" = "Created" <=> p \in DOMAIN files)
        BY <2>3, <2>4 DEF QueueInv
      <3>2. \A r \in Paths : r # p => /\ r \in DOMAIN files <=> r \in DOMAIN file[d]
                                      /\ r \in DOMAIN file[d] => files[r] = file[d][r]
        BY <2>3
      <3> QED BY <2>4, <3>1, <3>2, EventQueued
    <2> HIDE DEF q
    <2> QED BY <2>1, <2>2, <2>4, DeviceStep
  <1>10. ASSUME NEW d \in Devices, NEW torn \in BOOLEAN, Restart(d, torn) PROVE IndexInv'
    <2>1. PICK q, files, idx :
            /\ restarts' = [restarts EXCEPT ![d] = @ + 1] /\ events' = [events EXCEPT ![d] = q]
            /\ file' = [file EXCEPT ![d] = files] /\ index' = [index EXCEPT ![d] = idx]
      BY <1>10 DEF Restart
    <2>2. /\ restarts' = [e \in Devices |-> IF e = d THEN restarts[d] + 1 ELSE restarts[e]]
          /\ events' = [e \in Devices |-> IF e = d THEN q ELSE events[e]]
          /\ file' = [e \in Devices |-> IF e = d THEN files ELSE file[e]]
          /\ index' = [e \in Devices |-> IF e = d THEN idx ELSE index[e]]
      BY <2>1 DEF IndexInv
    <2>3. ASSUME NEW e \in Devices, restarts'[e] = 0 PROVE QueueInv(events'[e], file'[e], index'[e])
      <3>1. restarts[d] + 1 # 0
        BY DEF IndexInv
      <3>2. e # d
        BY <2>2, <2>3, <3>1
      <3> QED BY <2>2, <2>3, <3>2 DEF IndexInv
    <2>4. /\ restarts' = [e \in Devices |-> restarts'[e]] /\ \A e \in Devices : restarts'[e] \in Nat
          /\ events' = [e \in Devices |-> events'[e]] /\ file' = [e \in Devices |-> file'[e]]
          /\ index' = [e \in Devices |-> index'[e]]
      BY <2>2 DEF IndexInv
    <2> QED BY <2>3, <2>4 DEF IndexInv
  <1> QED BY <1>2, <1>3, <1>4, <1>5, <1>6, <1>7, <1>8, <1>9, <1>10 DEF Next, Program, User

\* Once a device's queue is empty its index holds its files, however writes,
\* deletions and removals by others were interleaved, until it is restarted.
THEOREM IndexKeepsUp == Spec => []IndexFollowsFiles
  <1>1. Init => IndexInv
    <2> SUFFICES ASSUME Init PROVE IndexInv
      OBVIOUS
    <2>1. <<>> \in Seq({}) /\ IsSeq(<<>>) /\ 1..Len(<<>>) = {}
      BY DEF IsSeq
    <2>2. DOMAIN NoMap = {} /\ NoMap = [p \in DOMAIN NoMap |-> NoMap[p]]
      BY DEF NoMap
    <2>3. QueueInv(<<>>, NoMap, NoMap)
      BY <2>1, <2>2 DEF QueueInv, QueueTells, Settled
    <2> QED BY <2>3 DEF Init, IndexInv
  <1>2. IndexInv => IndexFollowsFiles
    <2> SUFFICES ASSUME IndexInv, NEW d \in Devices, events[d] = <<>>, restarts[d] = 0
                 PROVE  index[d] = [p \in DOMAIN file[d] |-> file[d][p].cid]
      BY DEF IndexFollowsFiles
    <2>1. QueueInv(events[d], file[d], index[d]) /\ 1..Len(events[d]) = {}
      BY DEF IndexInv
    <2>2. \A p \in Paths : Settled(file[d], index[d], p)
      BY <2>1 DEF QueueInv, QueueTells
    <2>3. DOMAIN index[d] = DOMAIN file[d] /\ \A p \in DOMAIN file[d] : index[d][p] = file[d][p].cid
      BY <2>1, <2>2 DEF QueueInv, Settled
    <2>4. index[d] = [p \in DOMAIN index[d] |-> index[d][p]]
      BY <2>1 DEF QueueInv
    <2> QED BY <2>3, <2>4
  <1> QED BY <1>1, <1>2, IndexStep, PTL DEF Spec

=============================================================================
