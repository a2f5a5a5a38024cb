---------------------------- MODULE VersionStacks ----------------------------
(***************************************************************************)
(* Version stacks: media assets grouped as versions of one cut.  A row      *)
(* carries its stack (version_group_id), its number in the stack and        *)
(* whether it is the version the project grid shows (is_primary_version).   *)
(*                                                                         *)
(* Every operation is one transaction of the ORM session, run at READ       *)
(* COMMITTED without locks: it reads the rows it needs, computes their new  *)
(* values, and at commit writes the columns whose value it changed.  A      *)
(* transaction is therefore two steps here, and what other requests commit  *)
(* between them is neither seen nor protected.                              *)
(***************************************************************************)
EXTENDS Naturals

CONSTANTS
    Media,        \* media assets of one project
    Groups,       \* identifiers a new stack may get (uuid4: never reused)
    NoGroup,      \* version_group_id IS NULL
    Editors,      \* requests that may be in progress at the same time
    MaxVersion    \* bound on version numbers

ASSUME StacksAssumption == NoGroup \notin Groups /\ MaxVersion \in Nat

VARIABLES
    rows,   \* rows[m]: the row of m
    tx,     \* tx[e]: what the open transaction of e has read and will write
    raced   \* a transaction has written over what others committed (history)

vars == <<rows, tx, raced>>

RowType == [state : {"absent", "live", "deleted"},
            group : Groups \cup {NoGroup}, number : Nat, primary : BOOLEAN]

NoRow  == [state |-> "absent", group |-> NoGroup, number |-> 1, primary |-> FALSE]
NewRow == [state |-> "live", group |-> NoGroup, number |-> 1, primary |-> TRUE]

Idle == [open |-> FALSE, snap |-> [m \in Media |-> NoRow], new |-> [m \in Media |-> NoRow]]

Live(rs, m) == rs[m].state = "live"

(* list_versions_records: the live rows of a stack.                         *)
Members(rs, g) == {m \in Media : Live(rs, m) /\ rs[m].group = g}

(* ORDER BY version_number DESC, first row.                                 *)
Highest(rs, S) == {p \in S : \A q \in S : rs[q].number <= rs[p].number}

(* The highest remaining version of S becomes the primary one, if any.      *)
Promote(rs, S) ==
    IF S = {} THEN {rs}
    ELSE {[rs EXCEPT ![p] = [@ EXCEPT !.primary = TRUE]] : p \in Highest(rs, S)}

-----------------------------------------------------------------------------
(* What each operation writes, from the rows rs it has read.                *)

Unsealed(rs, g) == rs
Sealed(rs, g) == [m \in Media |-> IF m \in Members(rs, g)
                                  THEN [rs[m] EXCEPT !.primary = FALSE] ELSE rs[m]]

(* stack_media: a target without a stack opens stack g as its version 1; the *)
(* source joins the target's stack above its highest number and becomes its *)
(* primary version.  The stack the source leaves is not looked at.          *)
OpenedFor(rs, t, g) ==
    IF rs[t].group = NoGroup
    THEN [rs EXCEPT ![t] = [@ EXCEPT !.group = g, !.number = 1, !.primary = FALSE]]
    ELSE rs

NumberOfTop(rs, top) == rs[top].number
NextNumber(rs, top)  == rs[top].number + 1

Joined(rs, s, g, top) ==
    [Sealed(rs, g) EXCEPT ![s] = [@ EXCEPT !.group = g, !.primary = TRUE,
                                           !.number = NextNumber(rs, top)]]

(* unstack_media: back to a row of its own; its stack gets a new primary    *)
(* version if this was the one.                                             *)
DetachedHidden(rs, m) ==
    [rs EXCEPT ![m] = [@ EXCEPT !.group = NoGroup, !.number = 1]]
Detached(rs, m) ==
    [rs EXCEPT ![m] = [@ EXCEPT !.group = NoGroup, !.number = 1, !.primary = TRUE]]

UnstackOutcomes(rs, m) ==
    LET rest == Members(rs, rs[m].group) \ {m} IN
    IF rs[m].primary THEN Promote(Detached(rs, m), rest) ELSE {Detached(rs, m)}

(* set_primary_version: exactly the chosen one of its stack.                *)
ChosenPrimary(rs, m) ==
    [n \in Media |-> IF n = m \/ (rs[m].group # NoGroup /\ n \in Members(rs, rs[m].group))
                     THEN [rs[n] EXCEPT !.primary = (n = m)] ELSE rs[n]]

(* soft_delete: a deleted primary version hands over to the highest one.    *)
Deleted(rs, m) ==
    [rs EXCEPT ![m] = [@ EXCEPT !.state = "deleted",
                                !.primary = rs[m].primary /\ rs[m].group = NoGroup]]

DeleteOutcomes(rs, m) ==
    LET rest == Members(rs, rs[m].group) \ {m} IN
    IF rs[m].primary /\ rs[m].group # NoGroup
    THEN Promote(Deleted(rs, m), rest) ELSE {Deleted(rs, m)}

(* delete_folder and delete_project: one UPDATE over the media they hold.   *)
DeletedFolder(rs, S) ==
    [m \in Media |-> IF m \in S /\ Live(rs, m)
                     THEN [rs[m] EXCEPT !.state = "deleted"] ELSE rs[m]]

-----------------------------------------------------------------------------
Init ==
    /\ rows = [m \in Media |-> NoRow]
    /\ tx = [e \in Editors |-> Idle]
    /\ raced = FALSE

(* An upload inserts a media asset on its own, in one statement.            *)
Create(e, m) ==
    /\ ~tx[e].open
    /\ rows[m].state = "absent"
    /\ rows' = [rows EXCEPT ![m] = NewRow]
    /\ UNCHANGED <<tx, raced>>

(* A transaction reads the rows as they are committed now; one that changes *)
(* none of them writes nothing and is left out.                             *)
Open(e, new) ==
    /\ ~tx[e].open /\ new # rows
    /\ tx' = [tx EXCEPT ![e] = [open |-> TRUE, snap |-> rows, new |-> new]]
    /\ UNCHANGED <<rows, raced>>

(* A fresh uuid4: no row and no open transaction holds it.                  *)
FreshGroup(g) ==
    /\ \A m \in Media : rows[m].group # g
    /\ \A e \in Editors, m \in Media : tx[e].new[m].group # g

OtherStack(t, s) == rows[t].group = NoGroup \/ rows[t].group # rows[s].group

StackMedia(e, t, s) ==
    /\ t # s /\ Live(rows, t) /\ Live(rows, s)
    /\ OtherStack(t, s)
    /\ \E g \in Groups :
         /\ IF rows[t].group = NoGroup THEN FreshGroup(g) ELSE g = rows[t].group
         /\ LET rs == OpenedFor(rows, t, g) IN
            \E top \in Highest(rs, Members(rs, g)) :
              /\ rs[top].number < MaxVersion
              /\ Open(e, Joined(rs, s, g, top))

UnstackMedia(e, m) ==
    /\ Live(rows, m) /\ rows[m].group # NoGroup
    /\ \E new \in UnstackOutcomes(rows, m) : Open(e, new)

SetPrimaryVersion(e, m) ==
    /\ Live(rows, m)
    /\ Open(e, ChosenPrimary(rows, m))

DeleteMedia(e, m) ==
    /\ Live(rows, m)
    /\ \E new \in DeleteOutcomes(rows, m) : Open(e, new)

DeleteFolder(e, S) == Open(e, DeletedFolder(rows, S))

(* The flush at commit writes the columns the transaction has changed.      *)
Written(cur, snap, new) == IF new # snap THEN new ELSE cur

Merge(cur, snap, new) ==
    [m \in Media |->
        [state   |-> Written(cur[m].state, snap[m].state, new[m].state),
         group   |-> Written(cur[m].group, snap[m].group, new[m].group),
         number  |-> Written(cur[m].number, snap[m].number, new[m].number),
         primary |-> Written(cur[m].primary, snap[m].primary, new[m].primary)]]

(* What e writes, and the stacks that gain, lose or change a version by it. *)
Changed(e) == {m \in Media : tx[e].new[m] # tx[e].snap[m]}
Concerned(e) ==
    {tx[e].snap[m].group : m \in Changed(e)} \cup {tx[e].new[m].group : m \in Changed(e)}

(* Others have committed, since e read them, to rows that e writes or to    *)
(* versions of stacks it concerns.  Nothing in the program looks at this.   *)
Overtaken(e) ==
    \E m \in Media :
        /\ rows[m] # tx[e].snap[m]
        /\ \/ m \in Changed(e)
           \/ {rows[m].group, tx[e].snap[m].group} \cap (Concerned(e) \ {NoGroup}) # {}

Commit(e) ==
    /\ tx[e].open
    /\ rows' = Merge(rows, tx[e].snap, tx[e].new)
    /\ tx' = [tx EXCEPT ![e] = Idle]
    /\ raced' = (raced \/ Overtaken(e))

(* A lost connection or a deadlock: the transaction rolls back.             *)
Rollback(e) ==
    /\ tx[e].open
    /\ tx' = [tx EXCEPT ![e] = Idle]
    /\ UNCHANGED <<rows, raced>>

Next ==
    \E e \in Editors :
        \/ \E m \in Media : Create(e, m)
        \/ \E t, s \in Media : StackMedia(e, t, s)
        \/ \E m \in Media : UnstackMedia(e, m) \/ SetPrimaryVersion(e, m)
        \/ \E m \in Media : DeleteMedia(e, m)
        \/ \E S \in SUBSET Media : DeleteFolder(e, S)
        \/ Commit(e)
        \/ Rollback(e)

Spec == Init /\ [][Next]_vars

-----------------------------------------------------------------------------
RowsType == [Media -> RowType]

TypeOK ==
    /\ rows \in RowsType
    /\ tx \in [Editors -> [open : BOOLEAN, snap : RowsType, new : RowsType]]
    /\ raced \in BOOLEAN

OnePrimary(rs) ==
    \A m, n \in Media :
        /\ Live(rs, m) /\ Live(rs, n) /\ rs[m].group = rs[n].group
        /\ rs[m].group # NoGroup /\ rs[m].primary /\ rs[n].primary
        => m = n

DistinctNumbers(rs) ==
    \A m, n \in Media :
        /\ Live(rs, m) /\ Live(rs, n) /\ rs[m].group = rs[n].group
        /\ rs[m].group # NoGroup /\ rs[m].number = rs[n].number
        => m = n

LonersShown(rs) ==
    \A m \in Media :
        Live(rs, m) /\ rs[m].group = NoGroup => rs[m].primary /\ rs[m].number = 1

(* No stack is shown twice in the project grid: at most one of its live     *)
(* versions is primary, whatever was stacked, restacked, unstacked, chosen  *)
(* or deleted before, and whatever other stacks are edited at the same      *)
(* time; until two requests that edit one stack overlap.                    *)
AtMostOnePrimary == ~raced => OnePrimary(rows)

(* The live versions of a stack have different numbers: numbers freed by    *)
(* unstacking or deleting are not handed out while a higher one lives;      *)
(* until two requests that edit one stack overlap.                          *)
UniqueVersionNumbers == ~raced => DistinctNumbers(rows)

(* A media outside every stack, also one that left its stack while others   *)
(* were edited, is shown in the grid, as version 1; until such an overlap.  *)
UngroupedIsShown == ~raced => LonersShown(rows)

(* "Exactly one version holds is_primary_version = TRUE within any          *)
(* version_group_id" (docs/PHASE_8B_PLAN.md): every stack with live         *)
(* versions has one that the grid shows.                                    *)
EveryStackIsShown ==
    \A g \in Groups :
        Members(rows, g) # {} => \E m \in Members(rows, g) : rows[m].primary
=============================================================================
