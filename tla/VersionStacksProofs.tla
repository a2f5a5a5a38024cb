------------------------- MODULE VersionStacksProofs -------------------------
(***************************************************************************)
(* Proofs about VersionStacks for any sets of media, stacks and editors:    *)
(* each operation turns well-formed rows into well-formed rows, and what it *)
(* writes leaves the other stacks alone, so the stacks stay well-formed     *)
(* until two transactions that edit one stack overlap.                      *)
(***************************************************************************)
EXTENDS VersionStacks, TLAPS

WellFormed(rs) == OnePrimary(rs) /\ DistinctNumbers(rs) /\ LonersShown(rs)

GoodRows(rs) == rs \in RowsType /\ WellFormed(rs)

USE DEF RowType, RowsType

-----------------------------------------------------------------------------
(* The operations, one lemma each.                                          *)

(* Promoting into a stack that has no primary version.                      *)
LEMMA PromoteGood ==
  ASSUME NEW rs, GoodRows(rs), NEW g \in Groups, NEW S \in SUBSET Members(rs, g),
         \A n \in Members(rs, g) : ~rs[n].primary,
         NEW new \in Promote(rs, S)
  PROVE  GoodRows(new)
  <1>1. CASE S = {}
    BY <1>1 DEF Promote
  <1>2. CASE S # {}
    <2>1. PICK p \in Highest(rs, S) :
             new = [rs EXCEPT ![p] = [@ EXCEPT !.primary = TRUE]]
      BY <1>2 DEF Promote
    <2>2. p \in Media /\ p \in Members(rs, g)
      BY <2>1 DEF Highest, Members
    <2>3. rs \in RowsType /\ new \in RowsType
      BY <2>1, <2>2 DEF GoodRows
    <2>4. \A n \in Media : /\ new[n].state = rs[n].state
                           /\ new[n].group = rs[n].group
                           /\ new[n].number = rs[n].number
                           /\ n # p => new[n].primary = rs[n].primary
      BY <2>1, <2>2, <2>3
    <2>5. new[p].primary = TRUE
      BY <2>1, <2>2, <2>3
    <2> QED
      BY <2>2, <2>3, <2>4, <2>5
      DEF GoodRows, WellFormed, OnePrimary, DistinctNumbers, LonersShown,
          Members, Live
  <1> QED
    BY <1>1, <1>2

LEMMA StackGood ==
  ASSUME NEW rows0, GoodRows(rows0), StacksAssumption,
         NEW t \in Media, NEW s \in Media, t # s, Live(rows0, t), Live(rows0, s),
         rows0[t].group = NoGroup \/ rows0[t].group # rows0[s].group,
         NEW g \in Groups,
         IF rows0[t].group = NoGroup
         THEN \A m \in Media : rows0[m].group # g ELSE g = rows0[t].group,
         NEW top \in Highest(OpenedFor(rows0, t, g), Members(OpenedFor(rows0, t, g), g))
  PROVE  GoodRows(Joined(OpenedFor(rows0, t, g), s, g, top))
  <1> DEFINE rs  == OpenedFor(rows0, t, g)
             sl  == Sealed(rs, g)
             new == Joined(rs, s, g, top)
  <1>1. g # NoGroup
    BY DEF StacksAssumption
  <1>2. /\ rs \in RowsType
        /\ \A m \in Media : m # t => rs[m] = rows0[m]
        /\ rs[t].state = "live" /\ rs[t].group = g
        /\ rows0[t].group # NoGroup => rs[t] = rows0[t]
        /\ rows0[t].group = NoGroup => rs[t].number = 1 /\ ~rs[t].primary
    BY DEF OpenedFor, GoodRows, Live
  <1>3. \A m \in Members(rs, g) : m \in Media /\ rs[m].number <= rs[top].number
    BY DEF Highest, Members
  <1>4. top \in Media /\ rs[top].number \in Nat /\ s \notin Members(rs, g)
    BY <1>1, <1>2 DEF Highest, Members, GoodRows
  <1> HIDE DEF rs, sl, new
  <1>5. /\ sl \in RowsType
        /\ \A m \in Media : /\ sl[m].state = rs[m].state
                            /\ sl[m].group = rs[m].group
                            /\ sl[m].number = rs[m].number
                            /\ m \in Members(rs, g) => ~sl[m].primary
                            /\ m \notin Members(rs, g) =>
                                 sl[m].primary = rs[m].primary
    BY <1>2 DEF Sealed, sl
  <1>6. /\ new[s] = [sl[s] EXCEPT !.group = g, !.primary = TRUE,
                                !.number = rs[top].number + 1]
        /\ \A m \in Media : m # s => new[m] = sl[m]
        /\ new = [x \in Media |-> new[x]]
    <2>1. new = [sl EXCEPT
                   ![s] = [@ EXCEPT !.group = g, !.primary = TRUE,
                                    !.number = rs[top].number + 1]]
      BY DEF Joined, NextNumber, new, sl
    <2> QED
      BY <1>5, <2>1
  <1>s. sl[s] \in RowType /\ sl[s].state = rs[s].state /\ s \in Media
    BY <1>5
  <1>b. new[s] = [state |-> rs[s].state, group |-> g,
                  number |-> rs[top].number + 1, primary |-> TRUE]
    BY <1>6, <1>s
  <1>8. /\ new[s] \in RowType /\ new[s].state = rs[s].state
        /\ new[s].group = g /\ new[s].number = rs[top].number + 1
        /\ new[s].primary = TRUE
    <2>1. rs[s].state \in {"absent", "live", "deleted"} /\ rs[top].number + 1 \in Nat
      BY <1>4, <1>s
    <2> QED
      BY <1>b, <2>1
  <1>c. \A m \in Media : m # s => new[m] \in RowType /\ new[m] = sl[m]
    BY <1>5, <1>6
  <1>7. /\ new \in RowsType
        /\ \A m \in Media :
          /\ new[m].state = rs[m].state
          /\ m # s => new[m].group = rs[m].group /\ new[m].number = rs[m].number
          /\ m \in Members(rs, g) => ~new[m].primary
          /\ m # s /\ m \notin Members(rs, g) => new[m].primary = rs[m].primary
    <2>1. new \in RowsType
      BY <1>6, <1>8, <1>c
    <2>2. \A m \in Media : new[m].state = rs[m].state
      BY <1>5, <1>8, <1>c, ZenonT(40)
    <2>3. \A m \in Members(rs, g) : m \in Media /\ m # s
      BY <1>4 DEF Members
    <2> QED
      BY <1>5, <1>c, <2>1, <2>2, <2>3
  <1>9. DistinctNumbers(rs)
    <2>1. CASE rows0[t].group = NoGroup
      BY <1>2, <2>1 DEF DistinctNumbers, GoodRows, WellFormed, Live
    <2>2. CASE rows0[t].group # NoGroup
      BY <1>2, <2>2 DEF DistinctNumbers, GoodRows, WellFormed, Live, OpenedFor, rs
    <2> QED
      BY <2>1, <2>2
  <1>10. OnePrimary(rs) /\ LonersShown(rs)
    BY <1>1, <1>2 DEF OnePrimary, LonersShown, GoodRows, WellFormed, Live
  <1>11. DistinctNumbers(new)
    <2>1. \A m \in Members(rs, g) : new[m].number # new[s].number
      <3> TAKE m \in Members(rs, g)
      <3>1. m \in Media /\ m # s /\ rs[m].number \in Nat
        BY <1>2, <1>4 DEF Members
      <3>2. rs[m].number <= rs[top].number /\ new[m].number = rs[m].number
        BY <1>3, <1>7, <3>1
      <3> QED
        BY <1>4, <1>8, <3>1, <3>2
    <2> QED
      BY <1>7, <1>8, <1>9, <2>1 DEF DistinctNumbers, Live, Members
  <1>12. OnePrimary(new)
    BY <1>7, <1>8, <1>10 DEF OnePrimary, Live, Members
  <1>13. LonersShown(new)
    BY <1>1, <1>7, <1>8, <1>10 DEF LonersShown, Live, Members
  <1> QED
    BY <1>7, <1>11, <1>12, <1>13 DEF GoodRows, WellFormed, new, rs

LEMMA DetachedGood ==
  ASSUME NEW rs, GoodRows(rs), StacksAssumption, NEW m \in Media, Live(rs, m),
         rs[m].group # NoGroup
  PROVE  /\ GoodRows(Detached(rs, m))
         /\ Members(Detached(rs, m), rs[m].group) = Members(rs, rs[m].group) \ {m}
         /\ \A n \in Media : n # m => Detached(rs, m)[n] = rs[n]
  <1>1. /\ Detached(rs, m) \in RowsType
        /\ \A n \in Media : n # m => Detached(rs, m)[n] = rs[n]
        /\ Detached(rs, m)[m] = [state |-> "live", group |-> NoGroup,
                                 number |-> 1, primary |-> TRUE]
    BY DEF Detached, GoodRows, Live
  <1> QED
    BY <1>1
    DEF GoodRows, WellFormed, OnePrimary, DistinctNumbers, LonersShown, Members,
        Live

LEMMA UnstackGood ==
  ASSUME NEW rs, GoodRows(rs), StacksAssumption, NEW m \in Media, Live(rs, m),
         rs[m].group # NoGroup, NEW new \in UnstackOutcomes(rs, m)
  PROVE  GoodRows(new)
  <1> DEFINE g == rs[m].group
             det == Detached(rs, m)
  <1>1. g \in Groups
    BY DEF GoodRows
  <1>2. CASE rs[m].primary
    <2>1. \A n \in Members(det, g) : ~det[n].primary
      BY <1>2, DetachedGood DEF GoodRows, WellFormed, OnePrimary, Members, Live
    <2>2. new \in Promote(det, Members(det, g))
      BY <1>2, DetachedGood DEF UnstackOutcomes
    <2> QED
      BY <1>1, <2>1, <2>2, DetachedGood, PromoteGood
  <1>3. CASE ~rs[m].primary
    BY <1>3, DetachedGood DEF UnstackOutcomes
  <1> QED
    BY <1>2, <1>3

LEMMA ChosenGood ==
  ASSUME NEW rs, GoodRows(rs), NEW m \in Media, Live(rs, m)
  PROVE  GoodRows(ChosenPrimary(rs, m))
  <1> DEFINE new == ChosenPrimary(rs, m)
             touched(n) == n = m \/ (rs[m].group # NoGroup /\ n \in Members(rs, rs[m].group))
  <1>1. new \in RowsType
    BY DEF ChosenPrimary, GoodRows
  <1>2. \A n \in Media : /\ new[n].state = rs[n].state
                         /\ new[n].group = rs[n].group
                         /\ new[n].number = rs[n].number
                         /\ touched(n) => new[n].primary = (n = m)
                         /\ ~touched(n) => new[n].primary = rs[n].primary
    BY DEF ChosenPrimary, GoodRows
  <1> QED
    BY <1>1, <1>2
    DEF GoodRows, WellFormed, OnePrimary, DistinctNumbers, LonersShown, Members,
        Live

LEMMA DeletedGood ==
  ASSUME NEW rs, GoodRows(rs), NEW m \in Media, Live(rs, m)
  PROVE  /\ GoodRows(Deleted(rs, m))
         /\ Members(Deleted(rs, m), rs[m].group) = Members(rs, rs[m].group) \ {m}
         /\ \A n \in Media : n # m => Deleted(rs, m)[n] = rs[n]
  <1>1. /\ Deleted(rs, m) \in RowsType
        /\ \A n \in Media : n # m => Deleted(rs, m)[n] = rs[n]
        /\ Deleted(rs, m)[m].state = "deleted"
    BY DEF Deleted, GoodRows
  <1> QED
    BY <1>1
    DEF GoodRows, WellFormed, OnePrimary, DistinctNumbers, LonersShown, Members,
        Live

LEMMA DeleteGood ==
  ASSUME NEW rs, GoodRows(rs), NEW m \in Media, Live(rs, m),
         NEW new \in DeleteOutcomes(rs, m)
  PROVE  GoodRows(new)
  <1> DEFINE g == rs[m].group
             del == Deleted(rs, m)
  <1>1. CASE rs[m].primary /\ g # NoGroup
    <2>1. g \in Groups
      BY <1>1 DEF GoodRows
    <2>2. \A n \in Members(del, g) : ~del[n].primary
      BY <1>1, DeletedGood DEF GoodRows, WellFormed, OnePrimary, Members, Live
    <2>3. new \in Promote(del, Members(del, g))
      BY <1>1, DeletedGood DEF DeleteOutcomes
    <2> QED
      BY <2>1, <2>2, <2>3, DeletedGood, PromoteGood
  <1>2. CASE ~(rs[m].primary /\ g # NoGroup)
    BY <1>2, DeletedGood DEF DeleteOutcomes
  <1> QED
    BY <1>1, <1>2

LEMMA FolderGood ==
  ASSUME NEW rs, GoodRows(rs), NEW S \in SUBSET Media
  PROVE  GoodRows(DeletedFolder(rs, S))
  <1> DEFINE new == DeletedFolder(rs, S)
  <1>1. new \in RowsType
    BY DEF DeletedFolder, GoodRows
  <1>2. \A n \in Media : Live(new, n) => new[n] = rs[n]
    BY DEF DeletedFolder, GoodRows, Live
  <1> QED
    BY <1>1, <1>2
    DEF GoodRows, WellFormed, OnePrimary, DistinctNumbers, LonersShown, Live

LEMMA CreateGood ==
  ASSUME NEW rs, GoodRows(rs), NEW m \in Media, rs[m].state = "absent"
  PROVE  GoodRows([rs EXCEPT ![m] = NewRow])
  <1> DEFINE new == [rs EXCEPT ![m] = NewRow]
  <1>1. new \in RowsType /\ new[m] = NewRow /\ \A n \in Media : n # m => new[n] = rs[n]
    BY DEF GoodRows, NewRow
  <1> QED
    BY <1>1
    DEF GoodRows, WellFormed, OnePrimary, DistinctNumbers, LonersShown, Live,
        NewRow

-----------------------------------------------------------------------------
(* Transactions that overlap.                                               *)

(* What e writes into rows in which none of its stacks was touched: a row   *)
(* it changes and a version of its stacks are as it has computed them, the  *)
(* others as they were committed.                                           *)
LEMMA MergeApart ==
  ASSUME StacksAssumption, NEW e \in Editors, GoodRows(rows),
         tx[e].snap \in RowsType, GoodRows(tx[e].new), ~Overtaken(e)
  PROVE  GoodRows(Merge(rows, tx[e].snap, tx[e].new))
  <1> DEFINE snap == tx[e].snap
             new  == tx[e].new
             rs   == Merge(rows, snap, new)
             own  == Concerned(e) \ {NoGroup}
  <1>1. rows \in RowsType /\ snap \in RowsType /\ new \in RowsType
    BY DEF GoodRows
  <1>2. ASSUME NEW m \in Media PROVE rs[m] \in RowType /\ rs[m] = Merge(rows, snap, new)[m]
    BY <1>1 DEF Merge, Written
  <1>3. rs \in RowsType
    BY <1>1, <1>2 DEF Merge
  <1>4. ASSUME NEW m \in Changed(e)
        PROVE  /\ m \in Media /\ rs[m] = new[m]
               /\ new[m].group \in own \cup {NoGroup}
    <2>1. m \in Media /\ rows[m] = snap[m]
      BY DEF Overtaken, Changed
    <2>2. rs[m] = new[m]
      BY <1>1, <2>1 DEF Merge, Written
    <2> QED BY <2>1, <2>2 DEF Concerned
  <1>5. ASSUME NEW m \in Media, m \notin Changed(e)
        PROVE  /\ rs[m] = rows[m] /\ new[m] = snap[m]
               /\ rows[m].group \in own => rs[m] = new[m]
    <2>1. new[m] = snap[m]
      BY <1>5 DEF Changed
    <2>2. rs[m] = rows[m]
      BY <1>1, <2>1 DEF Merge, Written
    <2>3. rows[m].group \in own => rows[m] = snap[m]
      BY DEF Overtaken
    <2> QED BY <2>1, <2>2, <2>3
  <1> HIDE DEF snap, new, rs, own
  <1>6. ASSUME NEW m \in Media
        PROVE  rs[m] = new[m] \/ (rs[m] = rows[m] /\ rs[m].group \notin own)
    BY <1>4, <1>5
  <1>7. ASSUME NEW m \in Media, rs[m].group \in own PROVE rs[m] = new[m]
    BY <1>6, <1>7
  <1>8. ASSUME NEW m \in Media, rs[m].group \notin own, rs[m].group # NoGroup
        PROVE  rs[m] = rows[m]
    BY <1>4, <1>5, <1>8
  <1>9. GoodRows(new)
    BY DEF new
  <1>10. OnePrimary(rs)
    <2> SUFFICES ASSUME NEW m \in Media, NEW n \in Media, Live(rs, m), Live(rs, n),
                        rs[m].group = rs[n].group, rs[m].group # NoGroup,
                        rs[m].primary, rs[n].primary
                 PROVE  m = n
      BY DEF OnePrimary
    <2>1. CASE rs[m].group \in own
      BY <1>7, <1>9, <2>1 DEF GoodRows, WellFormed, OnePrimary, Live
    <2>2. CASE rs[m].group \notin own
      BY <1>8, <2>2 DEF GoodRows, WellFormed, OnePrimary, Live
    <2> QED BY <2>1, <2>2
  <1>11. DistinctNumbers(rs)
    <2> SUFFICES ASSUME NEW m \in Media, NEW n \in Media, Live(rs, m), Live(rs, n),
                        rs[m].group = rs[n].group, rs[m].group # NoGroup,
                        rs[m].number = rs[n].number
                 PROVE  m = n
      BY DEF DistinctNumbers
    <2>1. CASE rs[m].group \in own
      BY <1>7, <1>9, <2>1 DEF GoodRows, WellFormed, DistinctNumbers, Live
    <2>2. CASE rs[m].group \notin own
      BY <1>8, <2>2 DEF GoodRows, WellFormed, DistinctNumbers, Live
    <2> QED BY <2>1, <2>2
  <1>12. LonersShown(rs)
    BY <1>6, <1>9 DEF GoodRows, WellFormed, LonersShown, Live
  <1> QED BY <1>3, <1>10, <1>11, <1>12 DEF GoodRows, WellFormed, rs, snap, new

(* The inductive invariant: until a race the rows are well-formed, and so   *)
(* is what every open transaction would make of the rows it has read.       *)
StacksInv ==
    /\ rows \in RowsType /\ raced \in BOOLEAN
    /\ tx \in [Editors -> [open : BOOLEAN, snap : RowsType, new : RowsType]]
    /\ ~raced => /\ WellFormed(rows)
                 /\ \A e \in Editors : tx[e].open => GoodRows(tx[e].new)

LEMMA StacksInit == Init => StacksInv
  <1> SUFFICES ASSUME Init PROVE StacksInv
    OBVIOUS
  <1>1. [m \in Media |-> NoRow] \in RowsType
    BY DEF NoRow
  <1>2. rows \in RowsType /\ tx \in [Editors -> [open : BOOLEAN, snap : RowsType, new : RowsType]]
    BY <1>1 DEF Init, Idle
  <1>3. \A m \in Media : ~Live(rows, m)
    BY DEF Init, NoRow, Live
  <1>4. WellFormed(rows)
    BY <1>3 DEF WellFormed, OnePrimary, DistinctNumbers, LonersShown
  <1>5. raced = FALSE /\ \A e \in Editors : ~tx[e].open
    BY DEF Init, Idle
  <1> QED BY <1>2, <1>4, <1>5 DEF StacksInv

LEMMA OpenKeeps ==
  ASSUME StacksInv, NEW e \in Editors, NEW new \in RowsType, Open(e, new),
         ~raced => GoodRows(new)
  PROVE  StacksInv'
  BY DEF Open, StacksInv

(* What the operations compute is typed, whatever they have read.           *)
LEMMA OutcomesTyped ==
  ASSUME NEW rs \in RowsType, NEW m \in Media
  PROVE  /\ UnstackOutcomes(rs, m) \subseteq RowsType
         /\ DeleteOutcomes(rs, m) \subseteq RowsType
         /\ ChosenPrimary(rs, m) \in RowsType
  <1>1. Detached(rs, m) \in RowsType /\ Deleted(rs, m) \in RowsType
    BY DEF Detached, Deleted
  <1>2. ASSUME NEW qs \in RowsType, NEW S \in SUBSET Media
        PROVE  Promote(qs, S) \subseteq RowsType
    <2>1. \A p \in Media : [qs EXCEPT ![p] = [@ EXCEPT !.primary = TRUE]] \in RowsType
      OBVIOUS
    <2>2. Highest(qs, S) \subseteq Media
      BY DEF Highest
    <2>3. ASSUME NEW new \in Promote(qs, S) PROVE new \in RowsType
      <3>1. CASE S = {}
        BY <2>3, <3>1 DEF Promote
      <3>2. CASE S # {}
        <4>1. PICK p \in Highest(qs, S) : new = [qs EXCEPT ![p] = [@ EXCEPT !.primary = TRUE]]
          BY <2>3, <3>2 DEF Promote
        <4> QED BY <2>1, <2>2, <4>1
      <3> QED BY <3>1, <3>2
    <2> QED BY <2>3
  <1>3. Members(rs, rs[m].group) \ {m} \in SUBSET Media
    BY DEF Members
  <1>4. ChosenPrimary(rs, m) \in RowsType
    BY DEF ChosenPrimary
  <1> QED BY <1>1, <1>2, <1>3, <1>4 DEF UnstackOutcomes, DeleteOutcomes

LEMMA JoinedTyped ==
  ASSUME NEW rs \in RowsType, NEW t \in Media, NEW s \in Media, NEW g \in Groups,
         NEW top \in Highest(OpenedFor(rs, t, g), Members(OpenedFor(rs, t, g), g))
  PROVE  Joined(OpenedFor(rs, t, g), s, g, top) \in RowsType
  <1> DEFINE os == OpenedFor(rs, t, g)
  <1>1. os \in RowsType
    BY DEF OpenedFor
  <1>2. top \in Media
    BY DEF Highest, Members
  <1> HIDE DEF os
  <1>5. os[top].number + 1 \in Nat
    BY <1>1, <1>2
  <1>6. \A m \in Media : Sealed(os, g)[m] \in RowType
    BY <1>1 DEF Sealed
  <1>7. Sealed(os, g) = [m \in Media |-> Sealed(os, g)[m]]
    BY DEF Sealed
  <1>3. Sealed(os, g) \in RowsType /\ os[top].number + 1 \in Nat
    BY <1>5, <1>6, <1>7
  <1>4. Joined(os, s, g, top) \in RowsType
    BY <1>3 DEF Joined, NextNumber
  <1> QED BY <1>4 DEF os

LEMMA StacksStep ==
  ASSUME StacksAssumption, StacksInv, [Next]_vars
  PROVE  StacksInv'
  <1>0. rows \in RowsType /\ (~raced => GoodRows(rows))
    BY DEF StacksInv, GoodRows
  <1>2. ASSUME NEW e \in Editors, NEW m \in Media, Create(e, m)
        PROVE  StacksInv'
    <2>1. rows' \in RowsType /\ (~raced => GoodRows(rows'))
      BY <1>0, <1>2, CreateGood DEF Create, NewRow
    <2> QED
      BY <1>2, <2>1 DEF Create, StacksInv, GoodRows
  <1>3. ASSUME NEW e \in Editors, NEW t \in Media, NEW s \in Media,
               StackMedia(e, t, s)
        PROVE  StacksInv'
    <2>1. PICK g \in Groups :
            /\ IF rows[t].group = NoGroup THEN FreshGroup(g) ELSE g = rows[t].group
            /\ \E top \in Highest(OpenedFor(rows, t, g), Members(OpenedFor(rows, t, g), g)) :
                 Open(e, Joined(OpenedFor(rows, t, g), s, g, top))
      BY <1>3 DEF StackMedia
    <2>2. PICK top \in Highest(OpenedFor(rows, t, g), Members(OpenedFor(rows, t, g), g)) :
            Open(e, Joined(OpenedFor(rows, t, g), s, g, top))
      BY <2>1
    <2>3. ~raced => GoodRows(Joined(OpenedFor(rows, t, g), s, g, top))
      BY <1>0, <1>3, <2>1, StackGood DEF StackMedia, OtherStack, FreshGroup
    <2>4. Joined(OpenedFor(rows, t, g), s, g, top) \in RowsType
      BY <1>0, JoinedTyped
    <2> QED
      BY <2>2, <2>3, <2>4, OpenKeeps
  <1>4. ASSUME NEW e \in Editors, NEW m \in Media, UnstackMedia(e, m)
        PROVE  StacksInv'
    BY <1>0, <1>4, UnstackGood, OutcomesTyped, OpenKeeps DEF UnstackMedia
  <1>5. ASSUME NEW e \in Editors, NEW m \in Media, SetPrimaryVersion(e, m)
        PROVE  StacksInv'
    BY <1>0, <1>5, ChosenGood, OutcomesTyped, OpenKeeps DEF SetPrimaryVersion
  <1>6. ASSUME NEW e \in Editors, NEW m \in Media, DeleteMedia(e, m)
        PROVE  StacksInv'
    BY <1>0, <1>6, DeleteGood, OutcomesTyped, OpenKeeps DEF DeleteMedia
  <1>7. ASSUME NEW e \in Editors, NEW S \in SUBSET Media, DeleteFolder(e, S)
        PROVE  StacksInv'
    <2>1. DeletedFolder(rows, S) \in RowsType
      BY <1>0 DEF DeletedFolder
    <2> QED BY <1>0, <1>7, <2>1, FolderGood, OpenKeeps DEF DeleteFolder
  <1>8. ASSUME NEW e \in Editors, Commit(e) PROVE StacksInv'
    <2>1. tx[e].snap \in RowsType /\ tx[e].new \in RowsType /\ tx[e].open
      BY <1>8 DEF Commit, StacksInv
    <2>2. rows' = Merge(rows, tx[e].snap, tx[e].new) /\ raced' = (raced \/ Overtaken(e))
      BY <1>8 DEF Commit
    <2>3. rows' \in RowsType
      <3>1. \A m \in Media : Merge(rows, tx[e].snap, tx[e].new)[m] \in RowType
        BY <1>0, <2>1 DEF Merge, Written
      <3> QED BY <2>2, <3>1 DEF Merge
    <2>4. ~raced' => GoodRows(rows')
      BY <1>0, <2>1, <2>2, MergeApart DEF StacksInv
    <2>5. raced' \in BOOLEAN
      BY <2>2 DEF Overtaken, StacksInv
    <2>6. /\ tx' \in [Editors -> [open : BOOLEAN, snap : RowsType, new : RowsType]]
          /\ \A d \in Editors : tx'[d].open => tx[d].open /\ tx'[d].new = tx[d].new
      BY <1>8 DEF Commit, StacksInv, Idle, NoRow
    <2> QED
      BY <2>2, <2>3, <2>4, <2>5, <2>6 DEF StacksInv, GoodRows
  <1>9. ASSUME NEW e \in Editors, Rollback(e) PROVE StacksInv'
    BY <1>9 DEF Rollback, StacksInv, Idle, NoRow
  <1>10. CASE UNCHANGED vars
    BY <1>10 DEF vars, StacksInv
  <1> QED
    BY <1>2, <1>3, <1>4, <1>5, <1>6, <1>7, <1>8, <1>9, <1>10 DEF Next

LEMMA StacksAlways == Spec => []StacksInv
  <1>1. StacksInv /\ [Next]_vars => StacksInv'
    BY StacksAssumption, StacksStep
  <1> QED
    BY <1>1, StacksInit, PTL DEF Spec

(* For any number of requests at a time: no stack ever shows two versions,  *)
(* as long as no transaction has written to a stack that others changed     *)
(* since it read it.                                                        *)
THEOREM StacksStayWellFormed == Spec => [](TypeOK /\ AtMostOnePrimary)
  <1>1. StacksInv => TypeOK /\ AtMostOnePrimary
    BY DEF StacksInv, WellFormed, TypeOK, AtMostOnePrimary
  <1> QED
    BY <1>1, StacksAlways, PTL

(* ... nor is the number of a live version given to another one, although   *)
(* numbers are freed by unstacking and deleting, ...                        *)
THEOREM NumbersStayUnique == Spec => []UniqueVersionNumbers
  <1>1. StacksInv => UniqueVersionNumbers
    BY DEF StacksInv, WellFormed, UniqueVersionNumbers
  <1> QED
    BY <1>1, StacksAlways, PTL

(* ... and a media that leaves its stack, by whichever way, is in the grid. *)
THEOREM NoLonerIsHidden == Spec => []UngroupedIsShown
  <1>1. StacksInv => UngroupedIsShown
    BY DEF StacksInv, WellFormed, UngroupedIsShown
  <1> QED
    BY <1>1, StacksAlways, PTL
=============================================================================
