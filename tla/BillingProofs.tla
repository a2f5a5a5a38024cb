---------------------------- MODULE BillingProofs ----------------------------
(* Proofs about Billing: its types; that a delivery repeats what has been   *)
(* recorded only if two deliveries of the event overlapped; and that, until *)
(* something disturbs it, the plan of an organization at rest is the one    *)
(* Stripe is paid for.                                                      *)
EXTENDS Billing, SequenceTheorems, TLAPS

(***************************************************************************)
(* The type invariant, as needed by induction: a pending write of a webhook *)
(* names an event Stripe has sent, and a pending write names a real         *)
(* subscription.                                                            *)
(***************************************************************************)
StripeType == [Subs -> [status : Statuses \cup {"none"}, end : Nat, cancel : BOOLEAN]]

ProcType == [at : {"idle", "upsert", "plan", "record", "cancelNow",
                   "cancelLater", "resume", "sync"},
             event : 0..Len(sent), setPlan : BOOLEAN, snap : RowType, new : RowType]

PendingIsReal(q) ==
    /\ q.at \in {"cancelNow", "cancelLater", "resume", "sync"} =>
         q.snap.known /\ q.snap.sub \in Subs
    /\ q.at \in {"upsert", "plan"} => q.new.known
    /\ q.new.plan = "pro" => q.new.known /\ q.new.sub \in Subs
    /\ q.at = "record" => q.event # 0
    /\ q.at = "upsert" /\ q.event # 0 => q.event \in 1..Len(sent)

TypeInv ==
    /\ TypeOK
    /\ \A p \in Processes : PendingIsReal(proc[p])

(* Appending events keeps the sequence typed and no shorter.                *)
LEMMA SentGrows ==
  ASSUME TypeInv, NEW s \in Subs,
         NEW st \in [status : Statuses, end : Nat, cancel : BOOLEAN],
         NEW kinds \in Seq({"checkout", "updated", "invoice", "deleted"}),
         Becomes(s, st, kinds)
  PROVE  /\ stripe' \in StripeType
         /\ sent' \in Seq(EventType)
         /\ Len(sent') \in Nat /\ Len(sent') >= Len(sent)
  <1> DEFINE new == [i \in 1..Len(kinds) |->
                       IF kinds[i] = "invoice"
                       THEN Event("invoice", s, [st EXCEPT !.status = "paid"])
                       ELSE Event(kinds[i], s, st)]
  <1>1. Len(kinds) \in Nat /\ \A i \in 1..Len(kinds) :
             kinds[i] \in {"checkout", "updated", "invoice", "deleted"}
    OBVIOUS
  <1>2. \A i \in 1..Len(kinds) : new[i] \in EventType
    BY <1>1 DEF Event, EventType, Statuses
  <1>3. new \in Seq(EventType)
    BY <1>1, <1>2, IsASeq
  <1>4. sent \in Seq(EventType)
    BY DEF TypeInv, TypeOK
  <1>5. sent' = sent \o new
    BY DEF Becomes
  <1> HIDE DEF new
  <1>6. sent' \in Seq(EventType) /\ Len(sent') = Len(sent) + Len(new)
    BY <1>3, <1>4, <1>5, ConcatProperties
  <1>7. stripe' \in StripeType
    BY DEF Becomes, TypeInv, TypeOK, StripeType
  <1> QED
    BY <1>3, <1>4, <1>6, <1>7, LenProperties

(* What a step must establish for the process it moves; the others keep     *)
(* their records while the sequence of events only grows.                   *)
LEMMA OneMoves ==
  ASSUME TypeInv, Len(sent) \in Nat, Len(sent') \in Nat, Len(sent') >= Len(sent),
         NEW p \in Processes, NEW q \in ProcType', PendingIsReal(q)',
         proc' = [proc EXCEPT ![p] = q]
  PROVE  /\ proc' \in [Processes -> ProcType']
         /\ \A r \in Processes : PendingIsReal(proc[r])'
  <1>1. \A r \in Processes : proc[r] \in ProcType /\ PendingIsReal(proc[r])
    BY DEF TypeInv, TypeOK, ProcType
  <1>2. \A x \in ProcType : x \in ProcType'
    BY DEF ProcType
  <1>3. \A x \in ProcType : PendingIsReal(x) => PendingIsReal(x)'
    BY DEF PendingIsReal, ProcType
  <1>4. ASSUME NEW r \in Processes PROVE proc'[r] \in ProcType' /\ PendingIsReal(proc[r])'
    <2>1. CASE r = p
      <3>1. proc'[r] = q
        BY <2>1 DEF TypeInv, TypeOK
      <3> QED
        BY <3>1 DEF PendingIsReal
    <2>2. CASE r # p
      <3>1. proc'[r] = proc[r]
        BY <2>2 DEF TypeInv, TypeOK
      <3>2. proc[r] \in ProcType' /\ PendingIsReal(proc[r])
        BY <1>1, <1>2
      <3> QED
        BY <1>1, <1>3, <3>1, <3>2 DEF PendingIsReal, ProcType
    <2> QED
      BY <2>1, <2>2
  <1> QED
    BY <1>4 DEF TypeInv, TypeOK

LEMMA TypeInit == Init => TypeInv
  <1> SUFFICES ASSUME Init PROVE TypeInv
    OBVIOUS
  <1>1. /\ NoRow \in RowType /\ Backfilled \in RowType
        /\ NoRow.plan = "free" /\ NoRow.status = "active"
        /\ Backfilled.plan = "free" /\ Backfilled.status = "active"
    BY DEF NoRow, Backfilled, RowType, Plans, Statuses
  <1>2. sent = <<>> /\ Len(sent) = 0 /\ recorded = {} /\ overlapped = {}
    BY DEF Init
  <1>3. proc \in [Processes -> ProcType] /\ \A p \in Processes : PendingIsReal(proc[p])
    BY <1>1, <1>2 DEF Init, IdleProc, ProcType, PendingIsReal
  <1>4. stripe \in StripeType /\ crashes \in 0..MaxCrashes
    BY BillingAssumption DEF Init, StripeType, NotBought
  <1>5. row \in RowType /\ row.status = "active" /\ row.plan = "free"
    BY <1>1 DEF Init
  <1>6. sent \in Seq(EventType)
    BY <1>2
  <1>7. clock \in Nat /\ orgPlan \in Plans /\ strayed \in BOOLEAN
    BY DEF Init, Plans
  <1> QED
    BY <1>2, <1>3, <1>4, <1>5, <1>6, <1>7 DEF TypeInv, TypeOK, ProcType, StripeType

LEMMA LenSent == TypeInv => Len(sent) \in Nat
  BY LenProperties DEF TypeInv, TypeOK

(* The idle record is typed and names nothing.                              *)
LEMMA IdleIsReal ==
  ASSUME TypeInv, Len(sent') \in Nat
  PROVE  IdleProc \in ProcType' /\ PendingIsReal(IdleProc)'
  BY DEF IdleProc, NoRow, ProcType, RowType, PendingIsReal, Plans, Statuses

(* A row with its plan ended, and a row an event asks for, are rows.        *)
LEMMA RowsOfEvents ==
  ASSUME TypeInv, NEW e \in 1..Len(sent)
  PROVE  /\ sent[e] \in EventType
         /\ CheckoutRows(e) \subseteq RowType
         /\ \A new \in CheckoutRows(e) : new.known /\ new.sub \in Subs
         /\ UpdatedRow(e) \in RowType /\ UpdatedRow(e).known /\ UpdatedRow(e).sub \in Subs
  <1>1. sent[e] \in EventType /\ row \in RowType
    BY ElementOfSeq DEF TypeInv, TypeOK
  <1>2. stripe[sent[e].sub].end \in Nat
    BY <1>1 DEF TypeInv, TypeOK, EventType
  <1>3. CheckoutRows(e) \subseteq RowType
        /\ \A new \in CheckoutRows(e) : new.known /\ new.sub \in Subs
    <2>1. sent[e].sub \in Subs /\ sent[e].end \in Nat
      BY <1>1 DEF EventType
    <2>2. \A t \in {sent[e].end, stripe[sent[e].sub].end} : t \in Nat
      BY <1>2, <2>1
    <2>3. ASSUME NEW new \in CheckoutRows(e)
          PROVE  new \in RowType /\ new.known /\ new.sub \in Subs
      <3>1. PICK t \in {sent[e].end, stripe[sent[e].sub].end} :
                new = [known |-> TRUE, sub |-> sent[e].sub, plan |-> "pro",
                       status |-> "active", end |-> t, cancel |-> FALSE]
        BY <2>3 DEF CheckoutRows
      <3> QED
        BY <2>1, <2>2, <3>1 DEF RowType, Plans, Statuses
    <2> QED
      BY <2>3
  <1>4. UpdatedRow(e) \in RowType /\ UpdatedRow(e).known /\ UpdatedRow(e).sub \in Subs
    BY <1>1 DEF UpdatedRow, RowType, EventType, Plans
  <1> QED
    BY <1>1, <1>3, <1>4

LEMMA RowOfDeletion ==
  ASSUME NEW r \in RowType
  PROVE  DeletedRow(r) \in RowType /\ DeletedRow(r).known = r.known
         /\ DeletedRow(r).sub = r.sub /\ DeletedRow(r).plan = "free"
  BY DEF DeletedRow, RowType, Plans, Statuses

LEMMA StripeKeepsTypes ==
  ASSUME TypeInv, NEW s \in Subs, Buy(s) \/ Renew(s) \/ PaymentFails(s) \/ Lapse(s)
  PROVE  TypeInv'
  <1> DEFINE Sts == [status : Statuses, end : Nat, cancel : BOOLEAN]
             Kinds == Seq({"checkout", "updated", "invoice", "deleted"})
  <1>1. stripe[s] \in [status : Statuses \cup {"none"}, end : Nat, cancel : BOOLEAN]
        /\ clock \in Nat /\ Period \in Nat
    BY BillingAssumption DEF TypeInv, TypeOK
  <1>7. /\ <<"updated", "checkout">> \in Kinds /\ <<"updated", "invoice">> \in Kinds
        /\ <<"updated">> \in Kinds /\ <<"deleted">> \in Kinds
    OBVIOUS
  <1>6. clock + Period \in Nat /\ stripe[s].end + Period \in Nat
    BY <1>1
  <1>2. PICK st \in Sts, kinds \in Kinds : Becomes(s, st, kinds)
    <2>1. CASE Buy(s)
      <3>1. [status |-> "active", end |-> clock + Period, cancel |-> FALSE] \in Sts
        BY <1>1, <1>6 DEF Statuses
      <3> HIDE DEF Sts, Kinds
      <3> QED
        BY <2>1, <3>1, <1>7 DEF Buy
    <2>2. CASE Renew(s)
      <3>1. [stripe[s] EXCEPT !.status = "active", !.end = @ + Period] \in Sts
        BY <1>1, <1>6 DEF Statuses
      <3> HIDE DEF Sts, Kinds
      <3> QED
        BY <2>2, <3>1, <1>7 DEF Renew
    <2>3. CASE PaymentFails(s)
      <3>1. [stripe[s] EXCEPT !.status = IF @ = "active" THEN "past_due" ELSE "unpaid"] \in Sts
        BY <1>1, <1>6 DEF Statuses
      <3> HIDE DEF Sts, Kinds
      <3> QED
        BY <2>3, <3>1, <1>7 DEF PaymentFails
    <2>4. CASE Lapse(s)
      <3>1. [stripe[s] EXCEPT !.status = "canceled"] \in Sts
        BY <1>1, <1>6 DEF Statuses
      <3> HIDE DEF Sts, Kinds
      <3> QED
        BY <2>4, <3>1, <1>7 DEF Lapse
    <2> QED
      BY <2>1, <2>2, <2>3, <2>4
  <1>3. UNCHANGED <<clock, recorded, row, orgPlan, proc, crashes, overlapped>>
        /\ strayed' \in BOOLEAN
    BY DEF Buy, Renew, PaymentFails, Lapse, history, TypeInv, TypeOK
  <1>4. /\ stripe' \in StripeType /\ sent' \in Seq(EventType)
        /\ Len(sent') \in Nat /\ Len(sent') >= Len(sent)
    BY <1>2, SentGrows
  <1>5. Len(sent) \in Nat
    BY LenSent
  <1> QED
    BY <1>3, <1>4, <1>5 DEF TypeInv, TypeOK, StripeType, PendingIsReal

(* A process that moves without a word to Stripe, whatever rows it writes.  *)
LEMMA QuietMove ==
  ASSUME TypeInv, NEW p \in Processes, NEW q \in ProcType, PendingIsReal(q),
         proc' = [proc EXCEPT ![p] = q], UNCHANGED <<clock, stripe, sent>>,
         recorded' \subseteq 1..Len(sent),
         row' \in RowType, row'.status \in {"active", "past_due", "canceled"},
         row'.plan = "pro" => row'.known /\ row'.sub \in Subs,
         orgPlan' \in Plans, crashes' \in 0..MaxCrashes,
         overlapped' \subseteq 1..Len(sent), strayed' \in BOOLEAN
  PROVE  TypeInv'
  <1>1. Len(sent) \in Nat /\ sent' = sent
    BY LenSent
  <1>2. q \in ProcType' /\ PendingIsReal(q)'
    BY <1>1 DEF ProcType, PendingIsReal
  <1>3. Len(sent') \in Nat /\ Len(sent') >= Len(sent)
    BY <1>1
  <1>4. /\ proc' \in [Processes -> ProcType']
        /\ \A r \in Processes : PendingIsReal(proc[r])'
    BY <1>1, <1>2, <1>3, OneMoves
  <1> QED
    BY <1>1, <1>4 DEF TypeInv, TypeOK, ProcType

(* A process that is done, or gives up, or dies.                            *)
LEMMA IdleMove ==
  ASSUME TypeInv, NEW p \in Processes, proc' = [proc EXCEPT ![p] = IdleProc],
         UNCHANGED <<clock, stripe, sent, row, orgPlan, history>>,
         recorded' \subseteq 1..Len(sent), crashes' \in 0..MaxCrashes
  PROVE  TypeInv'
  <1>1. IdleProc \in ProcType /\ PendingIsReal(IdleProc)
    BY LenSent DEF IdleProc, NoRow, ProcType, RowType, PendingIsReal, Plans, Statuses
  <1> QED
    BY <1>1, QuietMove DEF TypeInv, TypeOK, history

LEMMA ReceiveKeepsTypes ==
  ASSUME TypeInv, NEW p \in Processes, NEW e \in 1..Len(sent), Receive(p, e)
  PROVE  TypeInv'
  <1>1. Len(sent) \in Nat /\ row \in RowType
        /\ overlapped' \subseteq 1..Len(sent) /\ strayed' \in BOOLEAN
    BY LenSent DEF Receive, TypeInv, TypeOK
  <1>2. ASSUME NEW new \in RowType, new.known, new.plan = "pro" => new.sub \in Subs,
               proc' = [proc EXCEPT ![p] = AtUpsert(e, new)], UNCHANGED recorded
        PROVE  TypeInv'
    <2>1. AtUpsert(e, new) \in ProcType /\ PendingIsReal(AtUpsert(e, new))
      BY <1>1, <1>2 DEF AtUpsert, ProcType, PendingIsReal
    <2> QED
      BY <1>2, <2>1, QuietMove DEF Receive, TypeInv, TypeOK
  <1>3. CASE ReceiveCheckout(p, e)
    BY <1>2, <1>3, RowsOfEvents DEF ReceiveCheckout
  <1>4. CASE ReceiveUpdated(p, e)
    BY <1>2, <1>4, RowsOfEvents DEF ReceiveUpdated
  <1>5. CASE ReceiveDeleted(p, e)
    BY <1>1, <1>2, <1>5, RowOfDeletion DEF ReceiveDeleted, Found
  <1>6. CASE ReceiveUnknown(p, e)
    BY <1>1, <1>6 DEF ReceiveUnknown, Receive, TypeInv, TypeOK, PendingIsReal
  <1> QED
    BY <1>3, <1>4, <1>5, <1>6 DEF Receive

LEMMA BeginKeepsTypes ==
  ASSUME TypeInv, NEW p \in Processes,
         NEW at \in {"cancelNow", "cancelLater", "resume", "sync"}, Begin(p, at)
  PROVE  TypeInv'
  <1> DEFINE q == [at |-> at, event |-> 0, setPlan |-> FALSE, snap |-> row, new |-> NoRow]
  <1>1. row \in RowType /\ row.known /\ row.sub \in Subs /\ Len(sent) \in Nat
    BY LenSent DEF Begin, TypeInv, TypeOK, RowType, Plans
  <1>3. NoRow \in RowType /\ NoRow.plan # "pro"
    BY DEF NoRow, RowType, Plans, Statuses
  <1>4. q \in ProcType
    BY <1>1, <1>3 DEF ProcType
  <1>5. PendingIsReal(q)
    BY <1>1, <1>3 DEF PendingIsReal
  <1> QED
    BY <1>1, <1>4, <1>5, QuietMove DEF Begin, TypeInv, TypeOK

(* Writing back what was read, with some of its fields changed.             *)
LEMMA WriteIsReal ==
  ASSUME TypeInv, Len(sent') \in Nat, Len(sent') >= Len(sent), NEW p \in Processes,
         proc[p].at \in {"cancelNow", "cancelLater", "resume", "sync"},
         NEW new \in RowType, new.known, new.sub \in Subs, NEW b \in BOOLEAN,
         Write(p, new, b)
  PROVE  /\ proc' \in [Processes -> ProcType']
         /\ \A r \in Processes : PendingIsReal(proc[r])'
  <1>1. proc[p] \in ProcType /\ PendingIsReal(proc[p]) /\ Len(sent) \in Nat
    BY LenSent DEF TypeInv, TypeOK, ProcType
  <1>2. PICK snap \in RowType : snap = proc[p].snap
    BY <1>1 DEF ProcType, PendingIsReal
  <1>3. PICK q : q = [at |-> "upsert", event |-> 0, setPlan |-> b, snap |-> snap, new |-> new]
    OBVIOUS
  <1>4. proc' = [proc EXCEPT ![p] = q]
    BY <1>2, <1>3 DEF Write
  <1>5. q \in ProcType'
    BY <1>3 DEF ProcType
  <1>6. PendingIsReal(q)'
    BY <1>2, <1>3 DEF PendingIsReal
  <1> QED
    BY <1>1, <1>4, <1>5, <1>6, OneMoves

(* A call to Stripe that changes a subscription or raises.                  *)
LEMMA CallsKeepStripe ==
  ASSUME TypeInv, NEW s \in Subs,
         \/ StripeCancel(s) \/ CallFails(s)
         \/ \E cancel \in BOOLEAN : StripeModify(s, cancel)
  PROVE  /\ stripe' \in StripeType /\ sent' \in Seq(EventType)
         /\ Len(sent') \in Nat /\ Len(sent') >= Len(sent)
  <1> DEFINE Sts == [status : Statuses, end : Nat, cancel : BOOLEAN]
             Kinds == Seq({"checkout", "updated", "invoice", "deleted"})
  <1>1. stripe[s] \in [status : Statuses \cup {"none"}, end : Nat, cancel : BOOLEAN]
    BY DEF TypeInv, TypeOK
  <1>2. <<"updated">> \in Kinds /\ <<"deleted">> \in Kinds
    OBVIOUS
  <1>3. CASE UNCHANGED <<stripe, sent>>
    BY <1>3, LenSent DEF TypeInv, TypeOK, StripeType
  <1>4. CASE \E st \in Sts, kinds \in Kinds : Becomes(s, st, kinds)
    BY <1>4, SentGrows
  <1>5. CASE StripeCancel(s)
    <2>1. [stripe[s] EXCEPT !.status = "canceled"] \in Sts
      BY <1>1 DEF Statuses
    <2> HIDE DEF Sts, Kinds
    <2> QED
      BY <1>2, <1>4, <1>5, <2>1 DEF StripeCancel
  <1>6. CASE CallFails(s)
    BY <1>3, <1>6 DEF CallFails
  <1>7. ASSUME NEW cancel \in BOOLEAN, StripeModify(s, cancel)
        PROVE  /\ stripe' \in StripeType /\ sent' \in Seq(EventType)
               /\ Len(sent') \in Nat /\ Len(sent') >= Len(sent)
    <2>1. [stripe[s] EXCEPT !.cancel = cancel] \in Sts
      BY <1>1, <1>7 DEF Statuses, StripeModify, Renewing
    <2> HIDE DEF Sts, Kinds
    <2> QED
      BY <1>2, <1>3, <1>4, <1>7, <2>1 DEF StripeModify
  <1> QED
    BY <1>5, <1>6, <1>7

LEMMA CallKeepsTypes ==
  ASSUME TypeInv, NEW p \in Processes, Call(p)
  PROVE  TypeInv'
  <1> DEFINE snap == proc[p].snap
  <1>1. Len(sent) \in Nat /\ proc[p] \in ProcType /\ PendingIsReal(proc[p])
    BY LenSent DEF TypeInv, TypeOK, ProcType
  <1>2. proc[p].at \in {"cancelNow", "cancelLater", "resume", "sync"}
    BY DEF Call, CallCancelNow, CallCancelLater, CallResume, CallRetrieve
  <1>3. snap \in RowType /\ snap.known /\ snap.sub \in Subs
    BY <1>1, <1>2 DEF ProcType, PendingIsReal
  <1>4. ASSUME /\ stripe' \in StripeType /\ sent' \in Seq(EventType)
               /\ Len(sent') \in Nat /\ Len(sent') >= Len(sent),
               UNCHANGED <<clock, recorded, row, orgPlan, crashes, overlapped>>,
               strayed' \in BOOLEAN, NEW new \in RowType, new.known, new.sub \in Subs, NEW b \in BOOLEAN,
               Write(p, new, b)
        PROVE  TypeInv'
    <2>1. /\ proc' \in [Processes -> ProcType']
          /\ \A r \in Processes : PendingIsReal(proc[r])'
      BY <1>2, <1>4, WriteIsReal
    <2> QED
      BY <1>1, <1>4, <2>1 DEF TypeInv, TypeOK, ProcType, StripeType
  <1>5. DeletedRow(snap) \in RowType /\ DeletedRow(snap).known /\ DeletedRow(snap).sub \in Subs
    BY <1>3, RowOfDeletion
  <1>6. CASE CallCancelNow(p)
    <2>1. /\ stripe' \in StripeType /\ sent' \in Seq(EventType)
          /\ Len(sent') \in Nat /\ Len(sent') >= Len(sent)
      BY <1>3, <1>6, CallsKeepStripe DEF CallCancelNow
    <2>2. strayed' \in BOOLEAN
      BY <1>6 DEF CallCancelNow, TypeInv, TypeOK
    <2> HIDE DEF snap
    <2> QED
      BY <1>4, <1>5, <1>6, <2>1, <2>2 DEF CallCancelNow, snap
  <1>7. ASSUME NEW c \in BOOLEAN, StripeModify(snap.sub, c) \/ CallFails(snap.sub),
               Write(p, [snap EXCEPT !.cancel = c], FALSE),
               UNCHANGED <<clock, recorded, row, orgPlan, crashes, history>>
        PROVE  TypeInv'
    <2>0. UNCHANGED overlapped /\ strayed' \in BOOLEAN
      BY <1>7 DEF history, TypeInv, TypeOK
    <2>1. /\ stripe' \in StripeType /\ sent' \in Seq(EventType)
          /\ Len(sent') \in Nat /\ Len(sent') >= Len(sent)
      BY <1>3, <1>7, CallsKeepStripe
    <2>2. [snap EXCEPT !.cancel = c] \in RowType /\ [snap EXCEPT !.cancel = c].known
          /\ [snap EXCEPT !.cancel = c].sub \in Subs
      BY <1>3 DEF RowType
    <2> HIDE DEF snap
    <2> QED
      BY <1>4, <1>7, <2>0, <2>1, <2>2
  <1>8. CASE CallCancelLater(p)
    BY <1>7, <1>8 DEF CallCancelLater
  <1>9. CASE CallResume(p)
    BY <1>7, <1>9 DEF CallResume
  <1>10. CASE CallRetrieve(p)
    <2> DEFINE s == snap.sub
    <2>1. /\ stripe' \in StripeType /\ sent' \in Seq(EventType)
          /\ Len(sent') \in Nat /\ Len(sent') >= Len(sent)
          /\ UNCHANGED <<clock, stripe, sent, recorded, row, orgPlan, crashes, history>>
          /\ UNCHANGED overlapped /\ strayed' \in BOOLEAN
      BY <1>1, <1>10 DEF CallRetrieve, TypeInv, TypeOK, StripeType, history
    <2>2. CASE SyncEnds(p, s)
      BY <1>4, <1>5, <2>1, <2>2 DEF SyncEnds
    <2>3. CASE SyncCancelFlag(p, s)
      <3> DEFINE new == [snap EXCEPT !.status = stripe[s].status, !.cancel = stripe[s].cancel]
      <3>1. stripe[s].status \in Statuses /\ stripe[s].cancel \in BOOLEAN
        BY <1>3, <2>3 DEF SyncCancelFlag, Renewing, Statuses, TypeInv, TypeOK
      <3>2. new \in RowType /\ new.known /\ new.sub \in Subs
        BY <1>3, <3>1 DEF RowType
      <3>3. Write(p, new, FALSE)
        BY <2>3 DEF SyncCancelFlag
      <3> HIDE DEF new
      <3> QED
        BY <1>4, <2>1, <3>2, <3>3
    <2>4. CASE proc' = [proc EXCEPT ![p] = IdleProc]
      BY <2>1, <2>4, IdleMove DEF TypeInv, TypeOK
    <2> QED
      BY <1>10, <2>2, <2>3, <2>4 DEF CallRetrieve, SyncAgrees, SyncFails
  <1> QED
    BY <1>6, <1>8, <1>9, <1>10 DEF Call

LEMMA CommitKeepsTypes ==
  ASSUME TypeInv, NEW p \in Processes,
         Upsert(p) \/ UpsertRefused(p) \/ SetPlan(p) \/ Record(p) \/ Crash(p)
  PROVE  TypeInv'
  <1> USE DEF TypeInv, TypeOK, history
  <1>1. Len(sent) \in Nat /\ proc[p] \in ProcType /\ PendingIsReal(proc[p])
    BY LenSent DEF ProcType
  <1>2. ASSUME NEW at \in {"plan", "record"}, at = "plan" => proc[p].new.known,
               at = "record" => proc[p].event # 0
        PROVE  /\ [proc[p] EXCEPT !.at = at] \in ProcType
               /\ PendingIsReal([proc[p] EXCEPT !.at = at])
    BY <1>1, <1>2 DEF ProcType, PendingIsReal
  <1>3. CASE Upsert(p)
    <2>1. /\ row' \in RowType /\ row'.status \in {"active", "past_due", "canceled"}
          /\ row'.plan = "pro" => row'.known /\ row'.sub \in Subs
      BY <1>1, <1>3 DEF Upsert, ProcType, PendingIsReal, RowType, Statuses, StatusAllowed
    <2>2. CASE proc[p].setPlan
      <3>1. PICK q \in ProcType : q = [proc[p] EXCEPT !.at = "plan"] /\ PendingIsReal(q)
        BY <1>1, <1>2, <1>3 DEF Upsert, PendingIsReal
      <3>2. proc' = [proc EXCEPT ![p] = q]
        BY <1>3, <2>2, <3>1 DEF Upsert
      <3> QED
        BY <1>3, <2>1, <3>1, <3>2, QuietMove DEF Upsert
    <2>3. CASE ~proc[p].setPlan
      <3>1. IdleProc \in ProcType /\ PendingIsReal(IdleProc)
        BY <1>1 DEF IdleProc, NoRow, ProcType, RowType, PendingIsReal, Plans, Statuses
      <3> QED
        BY <1>3, <2>1, <2>3, <3>1, QuietMove DEF Upsert
    <2> QED
      BY <2>2, <2>3
  <1>4. CASE UpsertRefused(p)
    BY <1>4, IdleMove DEF UpsertRefused
  <1>5. CASE SetPlan(p)
    <2>1. orgPlan' \in Plans
      BY <1>1, <1>5 DEF SetPlan, ProcType, RowType
    <2>2. CASE proc[p].event # 0
      <3>1. PICK q \in ProcType : q = [proc[p] EXCEPT !.at = "record"] /\ PendingIsReal(q)
        BY <1>2, <2>2
      <3>2. proc' = [proc EXCEPT ![p] = q]
        BY <1>5, <2>2, <3>1 DEF SetPlan
      <3> QED
        BY <1>5, <2>1, <3>1, <3>2, QuietMove DEF SetPlan
    <2>3. CASE proc[p].event = 0
      <3>1. IdleProc \in ProcType /\ PendingIsReal(IdleProc)
        BY <1>1 DEF IdleProc, NoRow, ProcType, RowType, PendingIsReal, Plans, Statuses
      <3> QED
        BY <1>5, <2>1, <2>3, <3>1, QuietMove DEF SetPlan
    <2> QED
      BY <2>2, <2>3
  <1>6. CASE Record(p)
    <2>1. proc[p].event \in 1..Len(sent)
      BY <1>1, <1>6 DEF Record, ProcType, PendingIsReal
    <2> QED
      BY <1>6, <2>1, IdleMove DEF Record
  <1>7. CASE Crash(p)
    <2>1. crashes' \in 0..MaxCrashes
      BY <1>7, BillingAssumption DEF Crash
    <2> QED
      BY <1>7, <2>1, IdleMove DEF Crash
  <1> QED
    BY <1>3, <1>4, <1>5, <1>6, <1>7

LEMMA TypeStep == TypeInv /\ [Next]_vars => TypeInv'
  <1> SUFFICES ASSUME TypeInv, [Next]_vars PROVE TypeInv'
    OBVIOUS
  <1>1. CASE Tick
    BY <1>1 DEF Tick, TypeInv, TypeOK, PendingIsReal, history
  <1>2. CASE StripeStep
    BY <1>2, StripeKeepsTypes DEF StripeStep
  <1>3. ASSUME NEW p \in Processes, \E e \in 1..Len(sent) : Receive(p, e) PROVE TypeInv'
    BY <1>3, ReceiveKeepsTypes
  <1>4. ASSUME NEW p \in Processes, CancelNow(p) \/ CancelLater(p) \/ Resume(p) \/ Reconcile(p)
        PROVE  TypeInv'
    <2>1. \E at \in {"cancelNow", "cancelLater", "resume", "sync"} : Begin(p, at)
      BY <1>4 DEF CancelNow, CancelLater, Resume, Reconcile
    <2> QED
      BY <2>1, BeginKeepsTypes
  <1>5. ASSUME NEW p \in Processes, Progress(p) \/ Crash(p) PROVE TypeInv'
    BY <1>5, CallKeepsTypes, CommitKeepsTypes DEF Progress
  <1>6. CASE UNCHANGED vars
    BY <1>6 DEF vars, history, TypeInv, TypeOK, PendingIsReal
  <1> QED
    BY <1>1, <1>2, <1>3, <1>4, <1>5, <1>6 DEF Next

(* Every row the module writes is a row the database accepts, and every     *)
(* step of every process keeps the type invariant.                          *)
THEOREM BillingTypes == Spec => []TypeOK
  <1>1. TypeInv => TypeOK
    BY DEF TypeInv
  <1> QED
    BY <1>1, TypeInit, TypeStep, PTL DEF Spec

(***************************************************************************)
(* Two deliveries in progress at once are of two events, and what a webhook *)
(* is about to write comes from an event that has not been recorded, except *)
(* for the events one of whose deliveries came while another was at work.   *)
(***************************************************************************)
NewsOnly ==
    /\ \A p, q \in Processes : p # q /\ proc[p].event = proc[q].event /\ proc[p].event # 0
                              => proc[p].event \in overlapped
    /\ \A p \in Processes : proc[p].at = "upsert" => proc[p].event \notin recorded \ overlapped

(* A process goes on with its event, or with none.                          *)
LEMMA NewsMove ==
  ASSUME TypeInv, NewsOnly, NEW r \in Processes, NEW q, proc' = [proc EXCEPT ![r] = q],
         UNCHANGED overlapped, q.event \in {0, proc[r].event}, q.at = "upsert" => q.event = 0,
         recorded' = recorded \/ (recorded' = recorded \cup {proc[r].event} /\ proc[r].event # 0)
  PROVE  NewsOnly'
  <1>1. 0 \notin recorded /\ 0 \notin recorded'
    BY DEF TypeInv, TypeOK
  <1>2. \A p \in Processes : proc'[p] = IF p = r THEN q ELSE proc[p]
    BY DEF TypeInv, TypeOK
  <1>3. ASSUME NEW p \in Processes, NEW o \in Processes, p # o,
               proc'[p].event = proc'[o].event, proc'[p].event # 0
        PROVE  proc'[p].event \in overlapped
    <2>1. proc[p].event = proc'[p].event /\ proc[o].event = proc'[o].event
      BY <1>2, <1>3
    <2> QED
      BY <1>3, <2>1 DEF NewsOnly
  <1>4. ASSUME NEW p \in Processes, proc'[p].at = "upsert", proc'[p].event \in recorded'
        PROVE  proc'[p].event \in overlapped
    <2>1. p # r /\ proc'[p] = proc[p]
      BY <1>1, <1>2, <1>4
    <2>2. CASE proc[p].event \in recorded
      BY <1>4, <2>1, <2>2 DEF NewsOnly
    <2>3. CASE proc[p].event = proc[r].event /\ proc[r].event # 0
      BY <2>1, <2>3 DEF NewsOnly
    <2> QED
      BY <1>4, <2>1, <2>2, <2>3
  <1> QED
    BY <1>3, <1>4 DEF NewsOnly

LEMMA NewsReceived ==
  ASSUME TypeInv, NewsOnly, NEW r \in Processes, NEW e \in 1..Len(sent), Receive(r, e)
  PROVE  NewsOnly'
  <1>1. /\ e \notin recorded
        /\ overlapped \subseteq overlapped'
        /\ \A p \in Processes : proc[p].event = e => e \in overlapped'
    BY DEF Receive, NotProcessed
  <1>2. CASE ReceiveUnknown(r, e)
    <2>1. UNCHANGED proc /\ recorded' = recorded \cup {e}
      BY <1>2 DEF ReceiveUnknown
    <2> QED
      BY <1>1, <2>1 DEF NewsOnly
  <1>3. ASSUME NEW new, proc' = [proc EXCEPT ![r] = AtUpsert(e, new)], UNCHANGED recorded
        PROVE  NewsOnly'
    <2>1. \A p \in Processes : proc'[p] = IF p = r THEN AtUpsert(e, new) ELSE proc[p]
      BY <1>3 DEF TypeInv, TypeOK
    <2>2. AtUpsert(e, new).event = e
      BY DEF AtUpsert
    <2>3. \A p \in Processes : proc'[p].event = IF p = r THEN e ELSE proc[p].event
      BY <2>1, <2>2
    <2>4. ASSUME NEW p \in Processes, NEW o \in Processes, p # o,
                 proc'[p].event = proc'[o].event, proc'[p].event # 0
          PROVE  proc'[p].event \in overlapped'
      BY <1>1, <2>3, <2>4 DEF NewsOnly
    <2>5. ASSUME NEW p \in Processes, proc'[p].at = "upsert", proc'[p].event \in recorded'
          PROVE  proc'[p].event \in overlapped'
      BY <1>1, <1>3, <2>1, <2>3, <2>5 DEF NewsOnly
    <2> QED
      BY <2>4, <2>5 DEF NewsOnly
  <1> QED
    BY <1>2, <1>3 DEF Receive, ReceiveCheckout, ReceiveUpdated, ReceiveDeleted

LEMMA NewsStep == TypeInv /\ NewsOnly /\ [Next]_vars => NewsOnly'
  <1> SUFFICES ASSUME TypeInv, NewsOnly, [Next]_vars PROVE NewsOnly'
    OBVIOUS
  <1>1. CASE UNCHANGED <<proc, recorded, overlapped>>
    BY <1>1 DEF NewsOnly
  <1>2. Tick \/ StripeStep \/ UNCHANGED vars => UNCHANGED <<proc, recorded, overlapped>>
    BY DEF Tick, StripeStep, Buy, Renew, PaymentFails, Lapse, vars, history
  <1>3. ASSUME NEW r \in Processes, \E e \in 1..Len(sent) : Receive(r, e) PROVE NewsOnly'
    BY <1>3, NewsReceived
  <1>4. ASSUME NEW r \in Processes,
               NEW at \in {"cancelNow", "cancelLater", "resume", "sync"}, Begin(r, at)
        PROVE  NewsOnly'
    <2> DEFINE q == [at |-> at, event |-> 0, setPlan |-> FALSE, snap |-> row, new |-> NoRow]
    <2>1. /\ q.event = 0 /\ q.at # "upsert" /\ proc' = [proc EXCEPT ![r] = q]
          /\ UNCHANGED <<recorded, overlapped>>
      BY <1>4 DEF Begin
    <2> HIDE DEF q
    <2> QED
      BY <2>1, NewsMove
  <1>5. ASSUME NEW r \in Processes, Call(r) PROVE NewsOnly'
    <2>1. UNCHANGED <<recorded, overlapped>>
      BY <1>5 DEF Call, CallCancelNow, CallCancelLater, CallResume, CallRetrieve, history
    <2>2. \/ proc' = [proc EXCEPT ![r] = IdleProc]
          \/ \E new, b : Write(r, new, b)
      BY <1>5 DEF Call, CallCancelNow, CallCancelLater, CallResume, CallRetrieve,
                  SyncEnds, SyncCancelFlag, SyncAgrees, SyncFails
    <2>3. ASSUME NEW new, NEW b, Write(r, new, b) PROVE NewsOnly'
      <3> DEFINE q == [at |-> "upsert", event |-> 0, setPlan |-> b,
                       snap |-> proc[r].snap, new |-> new]
      <3>1. proc' = [proc EXCEPT ![r] = q] /\ q.event = 0
        BY <2>3 DEF Write
      <3> HIDE DEF q
      <3> QED
        BY <2>1, <3>1, NewsMove
    <2>4. ASSUME proc' = [proc EXCEPT ![r] = IdleProc] PROVE NewsOnly'
      BY <2>1, <2>4, NewsMove DEF IdleProc
    <2> QED
      BY <2>2, <2>3, <2>4
  <1>6. ASSUME NEW r \in Processes,
               Upsert(r) \/ UpsertRefused(r) \/ SetPlan(r) \/ Record(r) \/ Crash(r)
        PROVE  NewsOnly'
    <2>1. UNCHANGED overlapped /\ proc[r] \in ProcType /\ IdleProc.event = 0
          /\ IdleProc.at = "idle"
      BY <1>6 DEF Upsert, UpsertRefused, SetPlan, Record, Crash, history, TypeInv, TypeOK,
                  ProcType, IdleProc
    <2>2. recorded' = recorded \/ (recorded' = recorded \cup {proc[r].event} /\ proc[r].event # 0)
      BY <1>6 DEF Upsert, UpsertRefused, SetPlan, Record, Crash, TypeInv, PendingIsReal
    <2>3. CASE proc' = [proc EXCEPT ![r] = IdleProc]
      BY <2>1, <2>2, <2>3, NewsMove
    <2>4. ASSUME NEW at \in {"plan", "record"}, proc' = [proc EXCEPT ![r] = [@ EXCEPT !.at = at]]
          PROVE  NewsOnly'
      <3>1. PICK q : q = [proc[r] EXCEPT !.at = at]
        OBVIOUS
      <3>2. q.at = at /\ q.event = proc[r].event
        BY <2>1, <3>1 DEF ProcType
      <3>3. proc' = [proc EXCEPT ![r] = q]
        BY <2>4, <3>1
      <3> QED
        BY <2>1, <2>2, <3>2, <3>3, NewsMove
    <2> QED
      BY <1>6, <2>3, <2>4 DEF Upsert, UpsertRefused, SetPlan, Record, Crash
  <1>7. ASSUME NEW r \in Processes, CancelNow(r) \/ CancelLater(r) \/ Resume(r) \/ Reconcile(r)
        PROVE  \E at \in {"cancelNow", "cancelLater", "resume", "sync"} : Begin(r, at)
    BY <1>7 DEF CancelNow, CancelLater, Resume, Reconcile
  <1> QED
    BY <1>1, <1>2, <1>3, <1>4, <1>5, <1>6, <1>7 DEF Next, Progress

(* Any number of deliveries, requests and tasks at once, in any order, with *)
(* crashes between two commits and failing calls to Stripe: an event that   *)
(* has been recorded is written again only if a second delivery of it began *)
(* while one was in progress.  The check that the event has not been        *)
(* processed is separated from the record of it, and nothing else but that  *)
(* gap lets a replay through.                                               *)
THEOREM ReplaysAreHarmless == Spec => ReplaysChangeNothing
  <1>1. Init => NewsOnly
    BY DEF Init, NewsOnly, IdleProc
  <1>2. NewsOnly /\ [Next]_vars => [~Replays]_vars
    BY DEF NewsOnly, Replays
  <1> QED
    BY <1>1, <1>2, NewsStep, TypeInit, TypeStep, PTL DEF Spec, ReplaysChangeNothing

(***************************************************************************)
(* Until it strays, one subscription is bought and one request or task at a *)
(* time is at work, events are handled in order, and what the two rows say  *)
(* is decided by the last event that was recorded.                          *)
(***************************************************************************)
OneBought == \A s, t \in Subs : s # t => stripe[s].status = "none" \/ stripe[t].status = "none"
OneAtWork == \A p, q \in Processes : p # q => proc[p].at = "idle" \/ proc[q].at = "idle"

(* A row that names a subscription of Stripe's.                             *)
Ours(r) == r.known /\ r.sub \in Subs

Paying(e) == sent[e].kind # "deleted" /\ sent[e].status \in {"active", "past_due", "paid"}

(* What Stripe has sent about subscription s: it begins with the purchase,  *)
(* and after a cancellation nothing follows.                                *)
Purchased == /\ Len(sent) >= 2
             /\ sent[2].kind = "checkout" /\ sent[2].status = "active"
Told(s) ==
    /\ stripe[s].status # "paid"
    /\ \A e \in 1..Len(sent) : sent[e].status = "paid" => sent[e].kind = "invoice"
    /\ stripe[s].status # "none" => Purchased
    /\ Renewing(s) => \A e \in 1..Len(sent) : Paying(e)
    /\ stripe[s].status = "canceled" =>
         /\ Len(sent) > 2
         /\ sent[Len(sent)].kind = "deleted" /\ sent[Len(sent)].status = "canceled"
         /\ \A e \in 1..Len(sent) : e # Len(sent) => Paying(e)

(* The events that can be handled are recorded in their order.              *)
InTurn(q) == q.at \in {"upsert", "plan", "record"} => Before(q.event)
RecordedInOrder ==
    /\ \A e \in recorded : Before(e)
    /\ \A p \in Processes : InTurn(proc[p])
    /\ 2 \in recorded => Ours(row)
    /\ \A p \in Processes :
         /\ proc[p].at \in {"plan", "record"} /\ proc[p].event = 2 => Ours(row)
         /\ proc[p].at = "upsert" /\ (proc[p].event = 2 \/ 2 \in recorded) => Ours(proc[p].new)

NothingYet == sent = <<>> /\ ~Ours(row) /\ row.plan = "free" /\ orgPlan = "free" /\ Quiet

(* While Stripe renews, nothing that can be written ends the plan.          *)
StaysPaid ==
    /\ Ours(row) => row.plan = "pro"
    /\ 2 \in recorded => orgPlan = "pro"
    /\ \A p \in Processes :
         /\ proc[p].at = "upsert" /\ StatusAllowed(proc[p].new.status) => proc[p].new.plan = "pro"
         /\ proc[p].at = "plan" => proc[p].new.plan = "pro"
         /\ proc[p].at = "record" /\ proc[p].event = 2 => orgPlan = "pro"

(* Once the deletion is recorded nothing that can be written brings the     *)
(* plan back.                                                               *)
Ended(e) ==
    /\ e \in recorded =>
         /\ row.plan = "free" /\ orgPlan = "free"
         /\ \A p \in Processes :
              \/ proc[p].at = "idle"
              \/ proc[p].at = "upsert" /\ ~StatusAllowed(proc[p].new.status)
    /\ \A p \in Processes : proc[p].event = e =>
         /\ proc[p].at \in {"upsert", "plan"} => proc[p].new.plan = "free"
         /\ proc[p].at \in {"plan", "record"} => row.plan = "free"
         /\ proc[p].at = "record" => orgPlan = "free"

Follows(s) ==
    /\ Told(s)
    /\ Renewing(s) => StaysPaid
    /\ stripe[s].status = "canceled" => Ended(Len(sent))

(* Only a paid plan is cancelled, resumed or compared with Stripe's.        *)
CallsOnPaid == \A p \in Processes :
    proc[p].at \in {"cancelNow", "cancelLater", "resume", "sync"} => proc[p].snap.plan = "pro"

FollowInv ==
    /\ OneBought /\ OneAtWork /\ RecordedInOrder /\ CallsOnPaid
    /\ (\A s \in Subs : stripe[s].status = "none") => NothingYet
    /\ \A s \in Subs : Follows(s)

SubRecords == [status : Statuses, end : Nat, cancel : BOOLEAN]
KindSeqs == Seq({"checkout", "updated", "invoice", "deleted"})

LEMMA Extends ==
  ASSUME TypeInv, NEW s \in Subs, NEW st \in SubRecords, NEW kinds \in KindSeqs, Becomes(s, st, kinds)
  PROVE  /\ Len(sent) \in Nat /\ Len(sent') = Len(sent) + Len(kinds)
         /\ stripe'[s] = st
         /\ \A i \in 1..Len(sent) : sent'[i] = sent[i]
         /\ \A i \in 1..Len(kinds) :
              /\ sent'[Len(sent) + i].kind = kinds[i]
              /\ sent'[Len(sent) + i].status = IF kinds[i] = "invoice" THEN "paid" ELSE st.status
              /\ sent'[Len(sent) + i].sub = s
  <1> DEFINE new == [i \in 1..Len(kinds) |->
                       IF kinds[i] = "invoice"
                       THEN Event("invoice", s, [st EXCEPT !.status = "paid"])
                       ELSE Event(kinds[i], s, st)]
  <1>1. Len(kinds) \in Nat /\ \A i \in 1..Len(kinds) :
             kinds[i] \in {"checkout", "updated", "invoice", "deleted"}
    BY DEF KindSeqs
  <1>2. \A i \in 1..Len(kinds) : new[i] \in EventType
    BY <1>1 DEF Event, EventType, Statuses, SubRecords
  <1>3. new \in Seq(EventType)
    BY <1>1, <1>2, IsASeq
  <1>4. sent \in Seq(EventType) /\ Len(sent) \in Nat
    BY LenSent DEF TypeInv, TypeOK
  <1>5. sent' = sent \o new /\ stripe' = [stripe EXCEPT ![s] = st]
    BY DEF Becomes
  <1>6. \A i \in 1..Len(kinds) :
             /\ new[i].kind = kinds[i]
             /\ new[i].status = IF kinds[i] = "invoice" THEN "paid" ELSE st.status
             /\ new[i].sub = s
    BY <1>1 DEF Event, SubRecords
  <1>7. Len(new) = Len(kinds)
    BY <1>1, <1>3, LenProperties
  <1> HIDE DEF new
  <1>8. /\ Len(sent') = Len(sent) + Len(new)
        /\ \A i \in 1..Len(sent') :
             sent'[i] = IF i <= Len(sent) THEN sent[i] ELSE new[i - Len(sent)]
    BY <1>3, <1>4, <1>5, ConcatProperties
  <1>9. \A i \in 1..Len(sent) : sent'[i] = sent[i]
    BY <1>1, <1>4, <1>7, <1>8
  <1>10. ASSUME NEW i \in 1..Len(kinds) PROVE sent'[Len(sent) + i] = new[i]
    <2>1. /\ Len(sent) + i \in 1..Len(sent') /\ ~(Len(sent) + i <= Len(sent))
          /\ Len(sent) + i - Len(sent) = i
      BY <1>1, <1>4, <1>7, <1>8
    <2> QED
      BY <2>1, <1>8
  <1>11. stripe'[s] = st
    BY <1>5 DEF TypeInv, TypeOK
  <1> QED
    BY <1>4, <1>6, <1>7, <1>8, <1>9, <1>10, <1>11

(* Whatever names a subscription, an event, a row, or a row being written,  *)
(* names one that has been bought; and a subscription stays bought.         *)
IsBought(t) == stripe[t].status # "none"
Real(r) == Ours(r) => IsBought(r.sub)
AllReal ==
    /\ \A e \in 1..Len(sent) : IsBought(sent[e].sub)
    /\ Real(row)
    /\ \A p \in Processes : Real(proc[p].snap) /\ Real(proc[p].new)

LEMMA StaysBought ==
  ASSUME TypeInv, AllReal, NEW s \in Subs, NEW st \in SubRecords, NEW kinds \in KindSeqs,
         Becomes(s, st, kinds)
  PROVE  /\ \A t \in Subs : IsBought(t) => IsBought(t)'
         /\ \A e \in 1..Len(sent') : IsBought(sent[e].sub)'
  <1>1. stripe'[s] = st /\ st.status # "none"
    BY Extends DEF SubRecords, Statuses
  <1>2. \A t \in Subs : IsBought(t) => IsBought(t)'
    BY <1>1 DEF IsBought, Becomes, TypeInv, TypeOK
  <1>3. ASSUME NEW e \in 1..Len(sent') PROVE IsBought(sent[e].sub)'
    <2>1. Len(sent) \in Nat /\ Len(kinds) \in Nat /\ Len(sent') = Len(sent) + Len(kinds)
      BY Extends DEF KindSeqs
    <2>2. CASE e \in 1..Len(sent)
      <3>1. sent'[e] = sent[e] /\ sent[e].sub \in Subs
        BY <2>2, Extends, RowsOfEvents DEF EventType
      <3> QED
        BY <1>2, <2>2, <3>1 DEF AllReal
    <2>3. CASE e \notin 1..Len(sent)
      <3> DEFINE i == e - Len(sent)
      <3>1. i \in 1..Len(kinds) /\ e = Len(sent) + i
        BY <2>1, <2>3
      <3> HIDE DEF i
      <3>2. sent'[e].sub = s
        BY <3>1, Extends
      <3> QED
        BY <1>1, <3>2 DEF IsBought
    <2> QED
      BY <2>2, <2>3
  <1> QED
    BY <1>2, <1>3

(* What Stripe does itself, and what a call makes it do, is such a change.  *)
LEMMA StripeMoves ==
  ASSUME TypeInv, AllReal,
         \/ StripeStep
         \/ \E p \in Processes : Call(p)
  PROVE  /\ \A t \in Subs : IsBought(t) => IsBought(t)'
         /\ \A e \in 1..Len(sent') : IsBought(sent[e].sub)'
  <1>1. CASE UNCHANGED <<stripe, sent>>
    BY <1>1 DEF IsBought, AllReal
  <1>2. CASE \E s \in Subs, st \in SubRecords, kinds \in KindSeqs : Becomes(s, st, kinds)
    BY <1>2, StaysBought
  <1>3. /\ <<"updated", "checkout">> \in KindSeqs /\ <<"updated", "invoice">> \in KindSeqs
        /\ <<"updated">> \in KindSeqs /\ <<"deleted">> \in KindSeqs
    BY DEF KindSeqs
  <1>4. \A s \in Subs : stripe[s] \in [status : Statuses \cup {"none"}, end : Nat, cancel : BOOLEAN]
    BY DEF TypeInv, TypeOK
  <1>5. ASSUME NEW s \in Subs, Buy(s) \/ Renew(s) \/ PaymentFails(s) \/ Lapse(s)
        PROVE  \E st \in SubRecords, kinds \in KindSeqs : Becomes(s, st, kinds)
    <2>1. clock + Period \in Nat /\ stripe[s].end + Period \in Nat
      BY <1>4, BillingAssumption DEF TypeInv, TypeOK
    <2>2. /\ [status |-> "active", end |-> clock + Period, cancel |-> FALSE] \in SubRecords
          /\ [stripe[s] EXCEPT !.status = "active", !.end = @ + Period] \in SubRecords
          /\ [stripe[s] EXCEPT !.status = IF @ = "active" THEN "past_due" ELSE "unpaid"] \in SubRecords
          /\ [stripe[s] EXCEPT !.status = "canceled"] \in SubRecords
      BY <1>4, <2>1 DEF SubRecords, Statuses
    <2> QED
      BY <1>3, <1>5, <2>2 DEF Buy, Renew, PaymentFails, Lapse
  <1>6. ASSUME NEW p \in Processes, Call(p), ~UNCHANGED <<stripe, sent>>
        PROVE  \E s \in Subs, st \in SubRecords, kinds \in KindSeqs : Becomes(s, st, kinds)
    <2> DEFINE s == proc[p].snap.sub
    <2>1. s \in Subs
      BY <1>6 DEF Call, CallCancelNow, CallCancelLater, CallResume, CallRetrieve,
                  TypeInv, PendingIsReal
    <2>2. StripeCancel(s) \/ \E b \in BOOLEAN : StripeModify(s, b)
      BY <1>6 DEF Call, CallCancelNow, CallCancelLater, CallResume, CallRetrieve, CallFails
    <2> HIDE DEF s
    <2>3. CASE StripeCancel(s)
      <3>1. [stripe[s] EXCEPT !.status = "canceled"] \in SubRecords
        BY <1>4, <2>1 DEF SubRecords, Statuses
      <3> QED
        BY <1>3, <2>1, <2>3, <3>1 DEF StripeCancel
    <2>4. ASSUME NEW b \in BOOLEAN, StripeModify(s, b)
          PROVE  \E st \in SubRecords, kinds \in KindSeqs : Becomes(s, st, kinds)
      <3>1. [stripe[s] EXCEPT !.cancel = b] \in SubRecords
        BY <1>4, <2>1, <2>4 DEF SubRecords, Statuses, StripeModify, Renewing
      <3> QED
        BY <1>3, <1>6, <2>4, <3>1 DEF StripeModify
    <2> QED
      BY <2>1, <2>2, <2>3, <2>4
  <1> QED
    BY <1>1, <1>2, <1>5, <1>6 DEF StripeStep

LEMMA RealStep == TypeInv /\ AllReal /\ [Next]_vars => AllReal'
  <1> SUFFICES ASSUME TypeInv, AllReal, [Next]_vars PROVE AllReal'
    OBVIOUS
  <1> DEFINE Kept == /\ \A t \in Subs : IsBought(t) => IsBought(t)'
                     /\ \A e \in 1..Len(sent') : IsBought(sent[e].sub)'
  <1>1. UNCHANGED <<stripe, sent>> => Kept
    BY DEF AllReal, IsBought
  <1>2. \A r : Real(r) /\ Kept => Real(r)'
    BY DEF Real, Ours
  <1>3. ASSUME Kept, UNCHANGED <<row, proc>> PROVE AllReal'
    BY <1>2, <1>3 DEF AllReal, Real, Ours
  <1>4. ASSUME Kept, NEW p \in Processes, NEW q, proc' = [proc EXCEPT ![p] = q],
               Real(q.snap), Real(q.new), Real(row')
        PROVE  AllReal'
    <2>1. \A r \in Processes : proc'[r] = IF r = p THEN q ELSE proc[r]
      BY <1>4 DEF TypeInv, TypeOK
    <2>2. \A r \in Processes : Real(proc'[r].snap) /\ Real(proc'[r].new)
      BY <1>4, <2>1 DEF AllReal
    <2>3. Real(row)'
      BY <1>2, <1>4 DEF Real, Ours
    <2>4. \A r \in Processes : Real(proc[r].snap)' /\ Real(proc[r].new)'
      BY <1>2, <1>4, <2>2 DEF Real, Ours
    <2> QED
      BY <1>4, <2>3, <2>4 DEF AllReal
  <1>5. Real(NoRow) /\ Real(IdleProc.snap) /\ Real(IdleProc.new)
    BY DEF Real, Ours, NoRow, IdleProc
  <1>6. \A r \in RowType : Real(r) => Real(DeletedRow(r))
    BY RowOfDeletion DEF Real, Ours
  <1> HIDE DEF Kept
  <1>7. CASE Tick \/ UNCHANGED vars
    BY <1>1, <1>3, <1>7 DEF Tick, vars
  <1>8. CASE StripeStep
    <2>1. Kept
      BY <1>8, StripeMoves DEF Kept
    <2> QED
      BY <1>3, <1>8, <2>1 DEF StripeStep, Buy, Renew, PaymentFails, Lapse
  <1>9. ASSUME NEW p \in Processes, NEW e \in 1..Len(sent), Receive(p, e) PROVE AllReal'
    <2>1. Kept /\ UNCHANGED row
      BY <1>1, <1>9 DEF Receive
    <2>2. ASSUME NEW new, Real(new), proc' = [proc EXCEPT ![p] = AtUpsert(e, new)] PROVE AllReal'
      <3>1. AtUpsert(e, new).snap = row /\ AtUpsert(e, new).new = new
        BY DEF AtUpsert
      <3> QED
        BY <1>4, <2>1, <2>2, <3>1 DEF AllReal
    <2>3. Real(UpdatedRow(e)) /\ \A new \in CheckoutRows(e) : Real(new)
      BY DEF Real, Ours, UpdatedRow, CheckoutRows, AllReal
    <2>4. Real(DeletedRow(row))
      BY <1>6 DEF AllReal, TypeInv, TypeOK
    <2>5. CASE ReceiveUnknown(p, e)
      BY <1>3, <2>1, <2>5 DEF ReceiveUnknown
    <2> QED
      BY <1>9, <2>2, <2>3, <2>4, <2>5 DEF Receive, ReceiveCheckout, ReceiveUpdated, ReceiveDeleted
  <1>10. ASSUME NEW p \in Processes, NEW at, Begin(p, at) PROVE AllReal'
    <2> DEFINE q == [at |-> at, event |-> 0, setPlan |-> FALSE, snap |-> row, new |-> NoRow]
    <2>1. Kept /\ proc' = [proc EXCEPT ![p] = q] /\ q.snap = row /\ q.new = NoRow /\ row' = row
      BY <1>1, <1>10 DEF Begin
    <2> HIDE DEF q
    <2> QED
      BY <1>4, <1>5, <2>1 DEF AllReal
  <1>11. ASSUME NEW p \in Processes, Call(p) PROVE AllReal'
    <2>1. Kept
      BY <1>11, StripeMoves DEF Kept
    <2>2. row' = row /\ proc[p].snap \in RowType /\ Real(proc[p].snap) /\ Real(row)
      BY <1>11 DEF Call, CallCancelNow, CallCancelLater, CallResume, CallRetrieve,
                   TypeInv, TypeOK, AllReal
    <2>3. ASSUME NEW new, NEW b, Write(p, new, b), Real(new) PROVE AllReal'
      <3> DEFINE q == [at |-> "upsert", event |-> 0, setPlan |-> b,
                       snap |-> proc[p].snap, new |-> new]
      <3>1. proc' = [proc EXCEPT ![p] = q] /\ q.snap = proc[p].snap /\ q.new = new
        BY <2>3 DEF Write
      <3> HIDE DEF q
      <3> QED
        BY <1>4, <2>1, <2>2, <2>3, <3>1
    <2>4. CASE proc' = [proc EXCEPT ![p] = IdleProc]
      BY <1>4, <1>5, <2>1, <2>2, <2>4
    <2>5. /\ Real(DeletedRow(proc[p].snap))
          /\ \A b : Real([proc[p].snap EXCEPT !.cancel = b])
          /\ \A st, b : Real([proc[p].snap EXCEPT !.status = st, !.cancel = b])
      <3>1. Real(DeletedRow(proc[p].snap))
        BY <1>6, <2>2
      <3>2. \A r \in RowType : \A st, b :
              /\ [r EXCEPT !.cancel = b].known = r.known /\ [r EXCEPT !.cancel = b].sub = r.sub
              /\ [r EXCEPT !.status = st, !.cancel = b].known = r.known
              /\ [r EXCEPT !.status = st, !.cancel = b].sub = r.sub
        BY DEF RowType
      <3> QED
        BY <2>2, <3>1, <3>2 DEF Real, Ours
    <2> QED
      BY <1>11, <2>3, <2>4, <2>5 DEF Call, CallCancelNow, CallCancelLater, CallResume,
         CallRetrieve, SyncEnds, SyncCancelFlag, SyncAgrees, SyncFails
  <1>12. ASSUME NEW p \in Processes,
                Upsert(p) \/ UpsertRefused(p) \/ SetPlan(p) \/ Record(p) \/ Crash(p)
         PROVE  AllReal'
    <2>1. Kept /\ Real(row')
      BY <1>1, <1>12 DEF Upsert, UpsertRefused, SetPlan, Record, Crash, AllReal
    <2>2. CASE proc' = [proc EXCEPT ![p] = IdleProc]
      BY <1>4, <1>5, <2>1, <2>2
    <2>3. ASSUME NEW at, proc' = [proc EXCEPT ![p] = [@ EXCEPT !.at = at]] PROVE AllReal'
      <3>1. PICK q : q = [proc[p] EXCEPT !.at = at]
        OBVIOUS
      <3>2. q.snap = proc[p].snap /\ q.new = proc[p].new
        BY <3>1 DEF TypeInv, TypeOK
      <3>3. proc' = [proc EXCEPT ![p] = q]
        BY <2>3, <3>1
      <3> QED
        BY <1>4, <2>1, <3>2, <3>3 DEF AllReal
    <2> QED
      BY <1>12, <2>2, <2>3 DEF Upsert, UpsertRefused, SetPlan, Record, Crash
  <1>13. ASSUME NEW p \in Processes, CancelNow(p) \/ CancelLater(p) \/ Resume(p) \/ Reconcile(p)
         PROVE  AllReal'
    BY <1>10, <1>13 DEF CancelNow, CancelLater, Resume, Reconcile
  <1> QED
    BY <1>7, <1>8, <1>9, <1>11, <1>12, <1>13 DEF Next, Progress

(* The rows an organization begins with name no subscription.               *)
LEMMA RowsBefore ==
  /\ ~Ours(NoRow) /\ ~Ours(Backfilled)
  /\ NoRow.plan = "free" /\ Backfilled.plan = "free"
  BY BillingAssumption DEF Ours, NoRow, Backfilled

LEMMA RealInit == Init => AllReal
  <1> SUFFICES ASSUME Init PROVE AllReal
    OBVIOUS
  <1>1. ~Ours(row) /\ Len(sent) = 0
    BY RowsBefore DEF Init
  <1>2. \A p \in Processes : ~Ours(proc[p].snap) /\ ~Ours(proc[p].new)
    BY RowsBefore DEF Init, IdleProc
  <1> QED
    BY <1>1, <1>2 DEF AllReal, Real

(* How Stripe can change a subscription, and what it sends then.            *)
Bought(s, st, kinds) ==
    /\ stripe[s].status = "none" /\ st.status = "active" /\ kinds = <<"updated", "checkout">>
GoesOn(s, st, kinds) ==
    /\ Renewing(s) /\ st.status \in {"active", "past_due"}
    /\ kinds \in {<<"updated", "invoice">>, <<"updated">>}
Cancelled(s, st, kinds) ==
    /\ Renewing(s) /\ st.status = "canceled" /\ kinds = <<"deleted">>
Unpaid(s, st, kinds) ==
    /\ Renewing(s) /\ st.status = "unpaid" /\ kinds = <<"updated">>

LEMMA ToldAfter ==
  ASSUME TypeInv, NEW s \in Subs, NEW st \in SubRecords, NEW kinds \in KindSeqs, Becomes(s, st, kinds),
         Told(s), stripe[s].status = "none" => sent = <<>>,
         \/ Bought(s, st, kinds) \/ GoesOn(s, st, kinds)
         \/ Cancelled(s, st, kinds) \/ Unpaid(s, st, kinds)
  PROVE  Told(s)'
  <1>0. \A e \in 1..Len(sent') : sent'[e].status = "paid" => sent'[e].kind = "invoice"
    <2> TAKE e \in 1..Len(sent')
    <2>1. /\ Len(sent) \in Nat /\ Len(kinds) \in Nat
          /\ Len(sent') = Len(sent) + Len(kinds) /\ st.status # "paid"
      BY Extends DEF KindSeqs, Bought, GoesOn, Cancelled, Unpaid
    <2>2. CASE e \in 1..Len(sent)
      BY <2>2, Extends DEF Told
    <2>3. CASE e \notin 1..Len(sent)
      <3> DEFINE i == e - Len(sent)
      <3>1. i \in 1..Len(kinds) /\ e = Len(sent) + i
        BY <2>1, <2>3
      <3> HIDE DEF i
      <3> QED
        BY <2>1, <3>1, Extends
    <2> QED
      BY <2>2, <2>3
  <1>1. CASE Bought(s, st, kinds)
    <2>1. Len(sent) = 0 /\ Len(kinds) = 2 /\ kinds[1] = "updated" /\ kinds[2] = "checkout"
      BY <1>1 DEF Bought
    <2>2. /\ Len(sent') = 2 /\ stripe'[s].status = "active"
          /\ sent'[1].kind = "updated" /\ sent'[1].status = "active"
          /\ sent'[2].kind = "checkout" /\ sent'[2].status = "active"
      BY <1>1, <2>1, Extends DEF Bought
    <2> QED
      BY <1>0, <2>2 DEF Told, Purchased, Renewing, Paying
  <1>2. ASSUME Renewing(s), kinds[1] \in {"updated", "deleted"},
               Len(kinds) = 1 \/ (Len(kinds) = 2 /\ kinds[2] = "invoice")
        PROVE  /\ Purchased' /\ Len(sent) >= 2
               /\ \A e \in 1..Len(sent) : Paying(e)'
               /\ \A e \in 1..Len(sent') : e > Len(sent) =>
                     \/ e = Len(sent) + 1 /\ sent'[e].kind = kinds[1] /\ sent'[e].status = st.status
                     \/ e = Len(sent) + 2 /\ sent'[e].kind = "invoice" /\ sent'[e].status = "paid"
    <2>1. Purchased /\ \A e \in 1..Len(sent) : Paying(e)
      BY <1>2 DEF Told, Renewing
    <2>2. Len(kinds) \in Nat
      BY <1>2
    <2>3. Purchased' /\ Len(sent) >= 2 /\ \A e \in 1..Len(sent) : Paying(e)'
      <3>1. Len(sent') \in Nat /\ Len(sent') >= Len(sent) /\ Len(sent) \in Nat
        BY <2>2, Extends
      <3>2. Len(sent) >= 2 /\ 2 \in 1..Len(sent)
        BY <2>1, <3>1 DEF Purchased
      <3>3. sent'[2] = sent[2]
        BY <3>2, Extends
      <3>4. Purchased'
        BY <2>1, <3>1, <3>2, <3>3 DEF Purchased
      <3> QED
        BY <2>1, <3>2, <3>4, Extends DEF Paying
    <2>4. ASSUME NEW e \in 1..Len(sent'), e > Len(sent)
          PROVE  \/ e = Len(sent) + 1 /\ sent'[e].kind = kinds[1] /\ sent'[e].status = st.status
                 \/ e = Len(sent) + 2 /\ sent'[e].kind = "invoice" /\ sent'[e].status = "paid"
      <3>1. PICK i \in 1..Len(kinds) : e = Len(sent) + i
        <4>1. Len(sent) \in Nat /\ Len(sent') = Len(sent) + Len(kinds)
          BY Extends
        <4> DEFINE i == e - Len(sent)
        <4>2. i \in 1..Len(kinds) /\ e = Len(sent) + i
          BY <2>2, <2>4, <4>1
        <4> QED
          BY <4>2
      <3>2. i = 1 \/ (i = 2 /\ kinds[2] = "invoice")
        <4> HIDE <3>1
        <4>1. CASE Len(kinds) = 1
          BY <4>1
        <4>2. CASE Len(kinds) = 2 /\ kinds[2] = "invoice"
          BY <4>2
        <4> QED
          BY <1>2, <4>1, <4>2
      <3> QED
        BY <1>2, <3>1, <3>2, Extends
    <2> QED
      BY <2>3, <2>4
  <1>3. CASE GoesOn(s, st, kinds)
    <2>1. /\ Renewing(s) /\ kinds[1] = "updated"
          /\ Len(kinds) = 1 \/ (Len(kinds) = 2 /\ kinds[2] = "invoice")
      BY <1>3 DEF GoesOn
    <2>2. stripe'[s].status \in {"active", "past_due"}
      BY <1>3, Extends DEF GoesOn
    <2>3. \A e \in 1..Len(sent') : Paying(e)'
      <3> TAKE e \in 1..Len(sent')
      <3>1. Len(sent) \in Nat /\ e \in Nat /\ e >= 1
        BY LenSent
      <3>2. CASE e > Len(sent)
        BY <1>2, <2>1, <3>2, <1>3 DEF Paying, GoesOn
      <3>3. CASE e \in 1..Len(sent)
        BY <1>2, <2>1, <3>3
      <3> QED
        BY <3>1, <3>2, <3>3
    <2> QED
      BY <1>0, <1>2, <2>1, <2>2, <2>3 DEF Told, Renewing
  <1>4. CASE Cancelled(s, st, kinds)
    <2>1. Renewing(s) /\ kinds[1] = "deleted" /\ Len(kinds) = 1
      BY <1>4 DEF Cancelled
    <2>2. stripe'[s].status = "canceled" /\ Len(sent') = Len(sent) + 1 /\ Len(sent) \in Nat
      <3>1. Len(sent) \in Nat /\ Len(sent') = Len(sent) + Len(kinds) /\ stripe'[s] = st
        BY Extends
      <3> QED
        BY <1>4, <2>1, <3>1 DEF Cancelled
    <2>3. sent'[Len(sent')].kind = "deleted" /\ sent'[Len(sent')].status = "canceled"
      <3>1. Len(sent') \in 1..Len(sent') /\ Len(sent') > Len(sent)
        BY <2>2
      <3> QED
        BY <1>2, <1>4, <2>1, <2>2, <3>1 DEF Cancelled
    <2>4. \A e \in 1..Len(sent') : e # Len(sent') => Paying(e)'
      BY <1>2, <2>1, <2>2
    <2> QED
      BY <1>0, <1>2, <2>1, <2>2, <2>3, <2>4 DEF Told, Renewing
  <1>5. CASE Unpaid(s, st, kinds)
    <2>1. Renewing(s) /\ kinds[1] = "updated" /\ Len(kinds) = 1
      BY <1>5 DEF Unpaid
    <2>2. stripe'[s].status = "unpaid"
      BY <1>5, Extends DEF Unpaid
    <2> QED
      BY <1>0, <1>2, <2>1, <2>2 DEF Told, Renewing
  <1> QED
    BY <1>1, <1>3, <1>4, <1>5

Shapes(s, st, kinds) ==
    \/ Bought(s, st, kinds) \/ GoesOn(s, st, kinds)
    \/ Cancelled(s, st, kinds) \/ Unpaid(s, st, kinds)

(* A change Stripe reports leaves what was sent, and so what was handled,   *)
(* as it was; the new events have not been recorded.                        *)
LEMMA StripeChanges ==
  ASSUME TypeInv, FollowInv, NEW s \in Subs, NEW st \in SubRecords,
         NEW kinds \in KindSeqs, Becomes(s, st, kinds), Shapes(s, st, kinds),
         \A t \in Subs : t # s => stripe[t].status = "none",
         UNCHANGED recorded
  PROVE  /\ Told(s)' /\ stripe'[s].status # "none"
         /\ Len(sent) \in Nat /\ Len(sent') \in Nat /\ Len(sent') > Len(sent)
         /\ Renewing(s)' => NothingYet \/ (Renewing(s) /\ StaysPaid)
         /\ \A e \in 0..Len(sent) : Before(e) => Before(e)'
         /\ OneBought' /\ \A t \in Subs : t # s => Follows(t)'
  <1>1. stripe[s].status = "none" => NothingYet
    BY DEF FollowInv
  <1>2. Told(s)'
    BY <1>1, ToldAfter DEF FollowInv, Follows, Shapes, NothingYet
  <1>3. stripe'[s] = st /\ st.status # "none"
    BY Extends DEF Shapes, Bought, GoesOn, Cancelled, Unpaid
  <1>4. Len(kinds) \in Nat /\ Len(kinds) > 0
    <2>1. kinds \in {<<"updated", "checkout">>, <<"updated", "invoice">>, <<"updated">>,
                     <<"deleted">>}
      BY DEF Shapes, Bought, GoesOn, Cancelled, Unpaid
    <2> QED
      BY <2>1
  <1>5. Len(sent) \in Nat /\ Len(sent') \in Nat /\ Len(sent') > Len(sent)
    BY <1>4, Extends
  <1>6. Renewing(s)' => NothingYet \/ (Renewing(s) /\ StaysPaid)
    <2>1. Renewing(s)' => Bought(s, st, kinds) \/ GoesOn(s, st, kinds)
      BY <1>3 DEF Renewing, Shapes, Cancelled, Unpaid
    <2> QED
      BY <1>1, <2>1 DEF FollowInv, Follows, Bought, GoesOn
  <1>7. ASSUME NEW e \in 0..Len(sent), Before(e) PROVE Before(e)'
    <2>1. \A d \in 1..(e - 1) : d \in 1..Len(sent) /\ sent'[d] = sent[d]
      BY <1>5, Extends
    <2> QED
      BY <1>7, <2>1 DEF Before, Handled
  <1>8. \A t \in Subs : t # s => stripe'[t].status = "none"
    BY DEF Becomes, TypeInv, TypeOK
  <1>9. OneBought'
    BY <1>8 DEF OneBought
  <1>10. ASSUME NEW t \in Subs, t # s PROVE Follows(t)'
    <2>1. stripe'[t].status = "none" /\ ~Renewing(t)'
      BY <1>8, <1>10 DEF Renewing
    <2>2. \A e \in 1..Len(sent') : sent'[e].status = "paid" => sent'[e].kind = "invoice"
      BY <1>2 DEF Told
    <2> QED
      BY <2>1, <2>2 DEF Follows, Told
  <1> QED
    BY <1>2, <1>3, <1>5, <1>6, <1>7, <1>9, <1>10

LEMMA EventsOfProc ==
  ASSUME TypeInv, NEW p \in Processes
  PROVE  proc[p].event \in 0..Len(sent) /\ proc[p] \in ProcType /\ recorded \subseteq 1..Len(sent)
  BY DEF TypeInv, TypeOK, ProcType

LEMMA FollowStripe ==
  ASSUME TypeInv, FollowInv, StripeStep, ~strayed'
  PROVE  FollowInv'
  <1>1. PICK s \in Subs : Buy(s) \/ Renew(s) \/ PaymentFails(s) \/ Lapse(s)
    BY DEF StripeStep
  <1>2. UNCHANGED <<recorded, row, orgPlan, proc>>
    BY <1>1 DEF Buy, Renew, PaymentFails, Lapse
  <1>0. \A t \in Subs : t # s => stripe[t].status = "none"
    <2>1. Buy(s) => \A t \in Subs : stripe[t].status = "none"
      BY DEF Buy
    <2>2. Renew(s) \/ PaymentFails(s) \/ Lapse(s) => stripe[s].status # "none"
      BY DEF Renew, PaymentFails, Lapse, Due, Renewing
    <2> QED
      BY <1>1, <2>1, <2>2 DEF FollowInv, OneBought
  <1>3. stripe[s] \in [status : Statuses \cup {"none"}, end : Nat, cancel : BOOLEAN]
        /\ clock + Period \in Nat /\ Period \in Nat
    BY BillingAssumption DEF TypeInv, TypeOK
  <1>4. \E st \in SubRecords, kinds \in KindSeqs : Becomes(s, st, kinds) /\ Shapes(s, st, kinds)
    <2>1. ASSUME Buy(s)
          PROVE  \E st \in SubRecords, kinds \in KindSeqs :
                     Becomes(s, st, kinds) /\ Shapes(s, st, kinds)
      <3> DEFINE st == [status |-> "active", end |-> clock + Period, cancel |-> FALSE]
                 kinds == <<"updated", "checkout">>
      <3>1. st \in SubRecords /\ kinds \in KindSeqs
        BY <1>3 DEF SubRecords, KindSeqs, Statuses
      <3>2. Becomes(s, st, kinds) /\ Shapes(s, st, kinds)
        BY <2>1 DEF Buy, Shapes, Bought
      <3> QED
        BY <3>1, <3>2
    <2>2. ASSUME Renew(s)
          PROVE  \E st \in SubRecords, kinds \in KindSeqs :
                     Becomes(s, st, kinds) /\ Shapes(s, st, kinds)
      <3> DEFINE st == [stripe[s] EXCEPT !.status = "active", !.end = @ + Period]
                 kinds == <<"updated", "invoice">>
      <3>1. st \in SubRecords /\ kinds \in KindSeqs /\ st.status = "active"
        <4>1. stripe[s].end + Period \in Nat
          BY <1>3
        <4>2. \A r \in [status : Statuses \cup {"none"}, end : Nat, cancel : BOOLEAN], n \in Nat :
                [r EXCEPT !.status = "active", !.end = n] \in SubRecords
          BY DEF SubRecords, Statuses
        <4>3. st \in SubRecords /\ st.status = "active"
          BY <1>3, <4>1, <4>2
        <4> QED
          BY <4>3 DEF KindSeqs
      <3>2. Becomes(s, st, kinds)
        BY <2>2 DEF Renew
      <3>3. Shapes(s, st, kinds)
        BY <2>2, <3>1 DEF Renew, Due, Shapes, GoesOn
      <3> QED
        BY <3>1, <3>2, <3>3
    <2>3. ASSUME PaymentFails(s)
          PROVE  \E st \in SubRecords, kinds \in KindSeqs :
                     Becomes(s, st, kinds) /\ Shapes(s, st, kinds)
      <3> DEFINE st == [stripe[s] EXCEPT !.status = IF @ = "active" THEN "past_due" ELSE "unpaid"]
                 kinds == <<"updated">>
      <3>1. st \in SubRecords /\ kinds \in KindSeqs /\ st.status \in {"past_due", "unpaid"}
        BY <1>3 DEF SubRecords, KindSeqs, Statuses
      <3>2. Becomes(s, st, kinds)
        BY <2>3 DEF PaymentFails
      <3>3. Shapes(s, st, kinds)
        BY <2>3, <3>1 DEF PaymentFails, Due, Shapes, GoesOn, Unpaid
      <3> QED
        BY <3>1, <3>2, <3>3
    <2>4. ASSUME Lapse(s)
          PROVE  \E st \in SubRecords, kinds \in KindSeqs :
                     Becomes(s, st, kinds) /\ Shapes(s, st, kinds)
      <3> DEFINE st == [stripe[s] EXCEPT !.status = "canceled"]
                 kinds == <<"deleted">>
      <3>1. st \in SubRecords /\ kinds \in KindSeqs /\ st.status = "canceled"
        BY <1>3 DEF SubRecords, KindSeqs, Statuses
      <3>2. Becomes(s, st, kinds)
        BY <2>4 DEF Lapse
      <3>3. Shapes(s, st, kinds)
        BY <2>4, <3>1 DEF Lapse, Due, Shapes, Cancelled
      <3> QED
        BY <3>1, <3>2, <3>3
    <2> QED
      BY <1>1, <2>1, <2>2, <2>3, <2>4
  <1>5. /\ Told(s)' /\ stripe'[s].status # "none"
        /\ Len(sent) \in Nat /\ Len(sent') \in Nat /\ Len(sent') > Len(sent)
        /\ Renewing(s)' => NothingYet \/ (Renewing(s) /\ StaysPaid)
        /\ \A e \in 0..Len(sent) : Before(e) => Before(e)'
        /\ OneBought' /\ \A t \in Subs : t # s => Follows(t)'
    BY <1>0, <1>2, <1>4, StripeChanges
  <1>6. RecordedInOrder'
    <2>1. \A e \in recorded : e \in 0..Len(sent)
      BY <1>5 DEF TypeInv, TypeOK
    <2>2. \A p \in Processes : proc[p].event \in 0..Len(sent)
      BY EventsOfProc
    <2> QED
      BY <1>2, <1>5, <2>1, <2>2 DEF RecordedInOrder, InTurn, FollowInv, Ours
  <1>7. CallsOnPaid'
    BY <1>2 DEF CallsOnPaid, FollowInv
  <1>8. Renewing(s)' => StaysPaid'
    <2>1. NothingYet => StaysPaid
      BY DEF NothingYet, StaysPaid, TypeInv, TypeOK, Quiet
    <2> QED
      BY <1>2, <1>5, <2>1 DEF StaysPaid, Ours
  <1>9. Ended(Len(sent))'
    <2>1. Len(sent') \notin recorded /\ \A p \in Processes : proc[p].event # Len(sent')
      BY <1>5, EventsOfProc DEF TypeInv, TypeOK
    <2> QED
      BY <1>2, <2>1 DEF Ended
  <1>10. OneAtWork'
    BY <1>2 DEF OneAtWork, FollowInv
  <1>11. Follows(s)'
    BY <1>5, <1>8, <1>9 DEF Follows
  <1> QED
    BY <1>5, <1>6, <1>7, <1>10, <1>11 DEF FollowInv

(* What is left to show when Stripe does not move and one process does: the *)
(* same conditions, of that process.                                        *)
LEMMA FollowOne ==
  ASSUME TypeInv, FollowInv, UNCHANGED <<stripe, sent>>,
         RecordedInOrder', CallsOnPaid', OneAtWork',
         NEW s \in Subs, stripe[s].status # "none",
         Renewing(s) => StaysPaid',
         stripe[s].status = "canceled" => Ended(Len(sent))'
  PROVE  FollowInv'
  <1>1. \A t \in Subs : t # s => stripe[t].status = "none" /\ ~Renewing(t)
    BY DEF FollowInv, OneBought, Renewing
  <1>2. \A t \in Subs :
          Told(t)' /\ (Renewing(t)' <=> Renewing(t)) /\ stripe'[t].status = stripe[t].status
    BY DEF FollowInv, Follows, Told, Renewing, Purchased, Paying
  <1>3. \A t \in Subs : Follows(t)'
    BY <1>1, <1>2 DEF Follows
  <1>4. OneBought' /\ ~(\A t \in Subs : stripe'[t].status = "none")
    BY DEF FollowInv, OneBought
  <1> QED
    BY <1>3, <1>4 DEF FollowInv

(* Something in progress, a paid plan or an event to deliver means that the *)
(* subscription has been bought.                                            *)
LEMMA SomethingIsBought ==
  ASSUME TypeInv, FollowInv, NEW p \in Processes,
         proc[p].at # "idle" \/ row.plan = "pro" \/ Len(sent) # 0
  PROVE  \E s \in Subs : stripe[s].status # "none"
  BY DEF FollowInv, NothingYet, Quiet

(* What follows the recorded deletion is not in progress.                   *)
LEMMA NothingAfterTheEnd ==
  ASSUME TypeInv, FollowInv, NEW s \in Subs, NEW p \in Processes,
         stripe[s].status = "canceled", proc[p].at # "idle",
         proc[p].at = "upsert" => StatusAllowed(proc[p].new.status)
  PROVE  Len(sent) \notin recorded
  BY DEF FollowInv, Follows, Ended

LEMMA FollowReceive ==
  ASSUME TypeInv, FollowInv, ~strayed', NEW p \in Processes, NEW e \in 1..Len(sent), Receive(p, e)
  PROVE  FollowInv'
  <1> DEFINE n == Len(sent)
  <1>1. n \in Nat /\ e \in Nat /\ e >= 1 /\ e <= n /\ UNCHANGED <<clock, stripe, sent, row, orgPlan>>
    BY LenSent DEF Receive
  <1>2. PICK s \in Subs : stripe[s].status # "none"
    BY <1>1, SomethingIsBought
  <1>3. Purchased /\ Told(s) /\ 2 \in 1..n
    BY <1>1, <1>2 DEF FollowInv, Follows, Told, Purchased
  <1>4. proc[p].at = "idle" /\ e \notin recorded /\ Before(e)
    BY DEF Receive, NotProcessed
  <1>5. \A r \in Processes : r # p => proc[r].at = "idle" /\ proc'[r].at = "idle"
    BY DEF Receive, Alone, ReceiveCheckout, ReceiveUpdated, ReceiveDeleted, ReceiveUnknown,
           TypeInv, TypeOK
  <1>0. OneAtWork'
    BY <1>5 DEF OneAtWork
  <1>6. recorded' \in {recorded, recorded \cup {e}}
    BY DEF Receive, ReceiveCheckout, ReceiveUpdated, ReceiveDeleted, ReceiveUnknown
  <1>7. \/ recorded' = recorded /\ (\E new : proc' = [proc EXCEPT ![p] = AtUpsert(e, new)])
        \/ ReceiveUnknown(p, e)
    BY DEF Receive, ReceiveCheckout, ReceiveUpdated, ReceiveDeleted
  <1>8. \/ /\ proc'[p].at = "upsert" /\ proc'[p].event = e
           /\ recorded' = recorded
        \/ proc'[p] = proc[p] /\ recorded' = recorded \cup {e} /\ ReceiveUnknown(p, e)
    BY <1>7 DEF AtUpsert, ReceiveUnknown, TypeInv, TypeOK
  <1>9. ReceiveUnknown(p, e) => e # 2
    BY <1>3 DEF ReceiveUnknown, Purchased
  <1>13. proc'[p].at = "upsert" =>
           \/ sent[e].kind = "checkout" /\ proc'[p].new \in CheckoutRows(e)
           \/ sent[e].kind \in {"updated", "invoice"} /\ Found(e) /\ proc'[p].new = UpdatedRow(e)
           \/ sent[e].kind = "deleted" /\ proc'[p].new = DeletedRow(row)
    BY <1>4 DEF Receive, ReceiveCheckout, ReceiveUpdated, ReceiveDeleted, ReceiveUnknown,
                AtUpsert, TypeInv, TypeOK
  <1>10. RecordedInOrder'
    <2>1. \A d \in Nat : Before(d) => Before(d)'
      BY <1>1, <1>6 DEF Before, Handled
    <2>2. \A d \in recorded : d \in Nat
      BY <1>1 DEF TypeInv, TypeOK
    <2>3. \A d \in recorded' : Before(d)'
      BY <1>1, <1>4, <1>6, <2>1, <2>2 DEF RecordedInOrder, FollowInv
    <2>4. InTurn(proc[p])'
      BY <1>1, <1>4, <1>8, <2>1 DEF InTurn
    <2>5. 2 \in recorded' => Ours(row')
      BY <1>1, <1>8, <1>9 DEF RecordedInOrder, FollowInv
    <2>6. proc'[p].at = "upsert" /\ (proc'[p].event = 2 \/ 2 \in recorded') => Ours(proc'[p].new)
      <3> SUFFICES ASSUME proc'[p].at = "upsert", e = 2 \/ 2 \in recorded PROVE Ours(proc'[p].new)
        BY <1>4, <1>8
      <3>1. e = 2 => sent[e].kind = "checkout"
        BY <1>3 DEF Purchased
      <3>2. 2 \in recorded => Ours(DeletedRow(row))
        BY DEF RecordedInOrder, FollowInv, Ours, DeletedRow, TypeInv, TypeOK, RowType
      <3>3. Ours(UpdatedRow(e)) /\ \A new \in CheckoutRows(e) : Ours(new)
        BY RowsOfEvents DEF Ours
      <3> QED
        BY <1>13, <3>1, <3>2, <3>3
    <2> QED
      BY <1>4, <1>5, <1>8, <2>3, <2>4, <2>5, <2>6 DEF RecordedInOrder, InTurn, Ours
  <1>11. CallsOnPaid'
    BY <1>4, <1>5, <1>8 DEF CallsOnPaid
  <1>12. e # n \/ ~ReceiveUnknown(p, e) \/ stripe[s].status # "canceled"
    <2> SUFFICES ASSUME e = n, stripe[s].status = "canceled" PROVE Found(e)
      BY DEF ReceiveUnknown
    <2>1. sent[e].kind = "deleted" /\ n > 2
      BY <1>3 DEF Told
    <2>2. Handled(2)
      BY <1>1, <1>4, <2>1 DEF Before
    <2>3. 2 \in recorded
      BY <1>3, <2>2 DEF Handled, Purchased, StatusAllowed
    <2> QED
      BY <2>1, <2>3 DEF Found, RecordedInOrder, FollowInv, Ours
  <1>14. Renewing(s) => StaysPaid'
    <2> SUFFICES ASSUME Renewing(s) PROVE StaysPaid'
      OBVIOUS
    <2>1. StaysPaid /\ Paying(e)
      BY <1>3 DEF FollowInv, Follows, Told
    <2>2. proc'[p].at = "upsert" => proc'[p].new.plan = "pro"
      <3>1. \A new \in CheckoutRows(e) : new.plan = "pro"
        BY DEF CheckoutRows
      <3>2. Found(e) => UpdatedRow(e).plan = "pro"
        <4>1. sent[e].sub \in Subs
          BY RowsOfEvents DEF EventType
        <4> QED
          BY <2>1, <4>1 DEF UpdatedRow, Found, Paying, EndsService, StaysPaid, Ours
      <3> QED
        BY <1>13, <2>1, <3>1, <3>2 DEF Paying
    <2> QED
      BY <1>1, <1>4, <1>5, <1>8, <1>9, <2>1, <2>2 DEF StaysPaid, Ours
  <1>15. stripe[s].status = "canceled" => Ended(n)'
    <2> SUFFICES ASSUME stripe[s].status = "canceled" PROVE Ended(n)'
      OBVIOUS
    <2>1. Ended(n) /\ sent[n].kind = "deleted" /\ sent[n].status = "canceled"
      BY <1>3 DEF FollowInv, Follows, Told
    <2>2. n \in recorded' => n \in recorded
      BY <1>8, <1>12, <2>1
    <2>3. ASSUME n \in recorded, proc'[p].at = "upsert"
          PROVE  ~StatusAllowed(proc'[p].new.status)
      <3>1. e # n /\ Paying(e)
        BY <1>3, <1>4, <2>3 DEF Told
      <3>2. Handled(e)
        BY <1>1, <2>3, <3>1 DEF RecordedInOrder, Before, FollowInv
      <3>3. ~StatusAllowed(sent[e].status)
        BY <1>4, <3>2 DEF Handled
      <3>4. sent[e].status = "paid" /\ sent[e].kind = "invoice"
        BY <1>3, <3>1, <3>3 DEF Paying, StatusAllowed, Told
      <3> QED
        BY <1>13, <2>3, <3>3, <3>4 DEF UpdatedRow
    <2>4. ASSUME proc'[p].event = n, proc'[p].at = "upsert" PROVE proc'[p].new.plan = "free"
      <3>1. e = n
        BY <1>4, <1>8, <2>4
      <3> QED
        BY <1>13, <2>1, <2>4, <3>1 DEF DeletedRow, TypeInv, TypeOK, RowType
    <2> QED
      BY <1>1, <1>4, <1>5, <1>8, <2>1, <2>2, <2>3, <2>4 DEF Ended
  <1> HIDE DEF n
  <1> QED
    BY <1>0, <1>1, <1>2, <1>10, <1>11, <1>14, <1>15, FollowOne DEF n

LEMMA FollowBegin ==
  ASSUME TypeInv, FollowInv, ~strayed', NEW p \in Processes,
         NEW at \in {"cancelNow", "cancelLater", "resume", "sync"}, Begin(p, at)
  PROVE  FollowInv'
  <1>1. /\ UNCHANGED <<clock, stripe, sent, recorded, row, orgPlan>>
        /\ proc'[p].at = at /\ proc'[p].event = 0 /\ proc'[p].snap = row
        /\ row.known /\ row.plan = "pro"
    BY DEF Begin, TypeInv, TypeOK, RowType, Plans
  <1>2. \A r \in Processes : r # p => proc[r].at = "idle" /\ proc'[r].at = "idle"
    BY DEF Begin, Alone, TypeInv, TypeOK
  <1>0. OneAtWork'
    BY <1>2 DEF OneAtWork
  <1>3. PICK s \in Subs : stripe[s].status # "none"
    BY <1>1, SomethingIsBought
  <1>4. RecordedInOrder'
    BY <1>1, <1>2 DEF FollowInv, RecordedInOrder, InTurn, Before, Handled, Ours
  <1>5. CallsOnPaid'
    BY <1>1, <1>2 DEF CallsOnPaid
  <1>6. Renewing(s) => StaysPaid'
    BY <1>1, <1>2 DEF FollowInv, Follows, StaysPaid, Ours
  <1>7. stripe[s].status = "canceled" => Ended(Len(sent))'
    <2>1. stripe[s].status = "canceled" => Len(sent) # 0
      BY DEF FollowInv, Follows, Told
    <2> QED
      BY <1>1, <1>2, <2>1 DEF FollowInv, Follows, Ended
  <1> QED
    BY <1>0, <1>1, <1>3, <1>4, <1>5, <1>6, <1>7, FollowOne

(* What a call to Stripe does to the subscription: a change that Stripe     *)
(* reports, or nothing; the process goes on to write a row that keeps the   *)
(* plan if Stripe still renews.                                             *)
LEMMA WhatACallDoes ==
  ASSUME TypeInv, CallsOnPaid, ~strayed', NEW p \in Processes, Call(p),
         NEW s \in Subs, s = proc[p].snap.sub
  PROVE  /\ UNCHANGED <<recorded, row, orgPlan>>
         /\ proc'[p].at \in {"upsert", "idle"} /\ proc'[p].event = 0
         /\ \/ UNCHANGED <<stripe, sent>>
            \/ \E st \in SubRecords, kinds \in KindSeqs :
                  Becomes(s, st, kinds) /\ (GoesOn(s, st, kinds) \/ Cancelled(s, st, kinds))
         /\ Renewing(s)' /\ proc'[p].at = "upsert" => proc'[p].new.plan = "pro"
         /\ proc'[p].at = "upsert" => Ours(proc'[p].new)
  <1>1. /\ proc[p].at \in {"cancelNow", "cancelLater", "resume", "sync"}
        /\ proc[p].snap.plan = "pro" /\ proc[p] \in ProcType /\ proc[p].snap \in RowType
        /\ proc[p].snap.known /\ proc[p].snap.sub \in Subs
    BY DEF Call, CallCancelNow, CallCancelLater, CallResume, CallRetrieve, CallsOnPaid,
           TypeInv, TypeOK, ProcType, PendingIsReal
  <1>2. stripe[s] \in [status : Statuses \cup {"none"}, end : Nat, cancel : BOOLEAN]
        /\ stripe \in StripeType
    BY DEF TypeInv, TypeOK, StripeType
  <1>3. ASSUME NEW new, NEW b, Write(p, new, b)
        PROVE  proc'[p].at = "upsert" /\ proc'[p].event = 0 /\ proc'[p].new = new
    BY <1>3 DEF Write, TypeInv, TypeOK
  <1>4. CASE CallCancelNow(p)
    <2>1. Write(p, DeletedRow(proc[p].snap), TRUE) /\ UNCHANGED <<recorded, row, orgPlan>>
      BY <1>4 DEF CallCancelNow
    <2>0. Ours(DeletedRow(proc[p].snap))
      BY <1>1, RowOfDeletion DEF Ours
    <2>2. CASE StripeCancel(s)
      <3> DEFINE st == [stripe[s] EXCEPT !.status = "canceled"]
                 kinds == <<"deleted">>
      <3>1. st \in SubRecords /\ kinds \in KindSeqs /\ st.status = "canceled"
        BY <1>2 DEF SubRecords, KindSeqs, Statuses
      <3>2. Becomes(s, st, kinds) /\ Renewing(s)
        BY <2>2 DEF StripeCancel
      <3>3. stripe'[s] = st
        BY <1>2, <3>2 DEF Becomes, StripeType
      <3>4. ~Renewing(s)'
        BY <3>1, <3>3 DEF Renewing
      <3>5. Cancelled(s, st, kinds)
        BY <3>1, <3>2 DEF Cancelled
      <3> QED
        BY <1>3, <2>0, <2>1, <3>1, <3>2, <3>4, <3>5
    <2>3. CASE CallFails(s)
      <3>1. UNCHANGED <<stripe, sent>> /\ ~Renewing(s)'
        BY <1>4, <2>3 DEF CallCancelNow, CallFails, Renewing
      <3> QED
        BY <1>3, <2>0, <2>1, <3>1
    <2> QED
      BY <1>4, <2>2, <2>3 DEF CallCancelNow
  <1>5. ASSUME NEW b \in BOOLEAN, StripeModify(s, b) \/ CallFails(s),
               Write(p, [proc[p].snap EXCEPT !.cancel = b], FALSE),
               UNCHANGED <<recorded, row, orgPlan>>
        PROVE  /\ UNCHANGED <<recorded, row, orgPlan>>
               /\ proc'[p].at = "upsert" /\ proc'[p].event = 0 /\ proc'[p].new.plan = "pro"
               /\ Ours(proc'[p].new)
               /\ \/ UNCHANGED <<stripe, sent>>
                  \/ \E st \in SubRecords, kinds \in KindSeqs :
                        Becomes(s, st, kinds) /\ GoesOn(s, st, kinds)
    <2>1. proc'[p].at = "upsert" /\ proc'[p].event = 0 /\ proc'[p].new.plan = "pro"
          /\ Ours(proc'[p].new)
      <3>1. [proc[p].snap EXCEPT !.cancel = b].plan = "pro"
            /\ Ours([proc[p].snap EXCEPT !.cancel = b])
        BY <1>1 DEF RowType, Ours
      <3> QED
        BY <1>3, <1>5, <3>1
    <2>2. CASE UNCHANGED <<stripe, sent>>
      BY <1>5, <2>1, <2>2
    <2>3. CASE Renewing(s) /\ Becomes(s, [stripe[s] EXCEPT !.cancel = b], <<"updated">>)
      <3> DEFINE st == [stripe[s] EXCEPT !.cancel = b]
                 kinds == <<"updated">>
      <3>1. st \in SubRecords /\ kinds \in KindSeqs /\ st.status = stripe[s].status
        BY <1>2, <1>5, <2>3 DEF SubRecords, KindSeqs, Renewing, Statuses
      <3>2. GoesOn(s, st, kinds)
        BY <2>3, <3>1 DEF GoesOn, Renewing
      <3> QED
        BY <1>5, <2>1, <2>3, <3>1, <3>2
    <2> QED
      BY <1>5, <2>2, <2>3 DEF StripeModify, CallFails
  <1>6. CASE CallCancelLater(p) \/ CallResume(p)
    <2>1. \E b \in BOOLEAN :
             /\ StripeModify(s, b) \/ CallFails(s)
             /\ Write(p, [proc[p].snap EXCEPT !.cancel = b], FALSE)
             /\ UNCHANGED <<recorded, row, orgPlan>>
      BY <1>6 DEF CallCancelLater, CallResume
    <2> QED
      BY <1>5, <2>1
  <1>7. CASE CallRetrieve(p)
    <2>1. UNCHANGED <<recorded, row, orgPlan>> /\ UNCHANGED <<stripe, sent>>
      BY <1>7 DEF CallRetrieve
    <2>2. CASE SyncEnds(p, s)
      <3>1. ~Renewing(s)'
        BY <2>1, <2>2 DEF SyncEnds, EndsService, Renewing
      <3>2. Ours(DeletedRow(proc[p].snap))
        BY <1>1, RowOfDeletion DEF Ours
      <3> QED
        BY <1>3, <2>1, <2>2, <3>1, <3>2 DEF SyncEnds
    <2>3. CASE SyncCancelFlag(p, s)
      <3>1. Write(p, [proc[p].snap EXCEPT !.status = stripe[s].status,
                                          !.cancel = stripe[s].cancel], FALSE)
        BY <2>3 DEF SyncCancelFlag
      <3>2. [proc[p].snap EXCEPT !.status = stripe[s].status,
                                 !.cancel = stripe[s].cancel].plan = "pro"
            /\ Ours([proc[p].snap EXCEPT !.status = stripe[s].status,
                                         !.cancel = stripe[s].cancel])
        BY <1>1 DEF RowType, Ours
      <3> QED
        BY <1>3, <2>1, <3>1, <3>2
    <2>4. CASE SyncAgrees(p, s) \/ SyncFails(p)
      <3>1. proc'[p].at = "idle" /\ proc'[p].event = 0
        BY <2>4 DEF SyncAgrees, SyncFails, IdleProc, TypeInv, TypeOK
      <3> QED
        BY <2>1, <3>1
    <2> QED
      BY <1>7, <2>2, <2>3, <2>4 DEF CallRetrieve
  <1> QED
    BY <1>4, <1>6, <1>7 DEF Call

LEMMA FollowCall ==
  ASSUME TypeInv, AllReal, FollowInv, ~strayed', NEW p \in Processes, Call(p)
  PROVE  FollowInv'
  <1>1. proc[p].at \in {"cancelNow", "cancelLater", "resume", "sync"}
    BY DEF Call, CallCancelNow, CallCancelLater, CallResume, CallRetrieve
  <1>2. PICK s \in Subs : s = proc[p].snap.sub
    BY <1>1 DEF TypeInv, PendingIsReal
  <1>3. \A r \in Processes : r # p => proc[r].at = "idle" /\ proc'[r].at = "idle"
    <2>1. \A r \in Processes : r # p => proc'[r] = proc[r]
      BY DEF Call, CallCancelNow, CallCancelLater, CallResume, CallRetrieve, Write,
             SyncEnds, SyncCancelFlag, SyncAgrees, SyncFails, TypeInv, TypeOK
    <2> QED
      BY <1>1, <2>1 DEF FollowInv, OneAtWork
  <1>4. stripe[s].status # "none" /\ \A t \in Subs : t # s => stripe[t].status = "none"
    <2>1. Ours(proc[p].snap)
      BY <1>1, <1>2 DEF Ours, TypeInv, PendingIsReal
    <2> QED
      BY <1>2, <2>1 DEF AllReal, Real, IsBought, FollowInv, OneBought
  <1>0. OneAtWork'
    BY <1>3 DEF OneAtWork
  <1>5. /\ UNCHANGED <<recorded, row, orgPlan>>
        /\ proc'[p].at \in {"upsert", "idle"} /\ proc'[p].event = 0
        /\ proc'[p].at = "upsert" => Ours(proc'[p].new)
        /\ \/ UNCHANGED <<stripe, sent>>
           \/ \E st \in SubRecords, kinds \in KindSeqs :
                  Becomes(s, st, kinds) /\ (GoesOn(s, st, kinds) \/ Cancelled(s, st, kinds))
        /\ Renewing(s)' /\ proc'[p].at = "upsert" => proc'[p].new.plan = "pro"
    BY <1>2, WhatACallDoes DEF FollowInv
  <1>6. CallsOnPaid'
    BY <1>3, <1>5 DEF CallsOnPaid
  <1>7. Before(0)'
    BY DEF Before
  <1>8. Renewing(s) /\ Renewing(s)' => StaysPaid'
    BY <1>2, <1>3, <1>5 DEF StaysPaid, FollowInv, Follows, Ours
  <1>9. CASE UNCHANGED <<stripe, sent>>
    <2>1. RecordedInOrder'
      BY <1>3, <1>5, <1>7, <1>9 DEF RecordedInOrder, InTurn, Before, Handled, FollowInv, Ours
    <2>2. stripe[s].status = "canceled" => Ended(Len(sent))'
      <3>1. stripe[s].status = "canceled" => Len(sent) \notin recorded /\ Len(sent) # 0
        BY <1>1, <1>2, NothingAfterTheEnd DEF FollowInv, Follows, Told
      <3> QED
        BY <1>3, <1>5, <1>9, <3>1 DEF Ended
    <2>3. Renewing(s)' <=> Renewing(s)
      BY <1>9 DEF Renewing
    <2> QED
      BY <1>0, <1>2, <1>4, <1>6, <1>8, <1>9, <2>1, <2>2, <2>3, FollowOne
  <1>10. CASE \E st \in SubRecords, kinds \in KindSeqs :
                  Becomes(s, st, kinds) /\ (GoesOn(s, st, kinds) \/ Cancelled(s, st, kinds))
    <2>1. /\ Told(s)' /\ stripe'[s].status # "none"
          /\ Len(sent) \in Nat /\ Len(sent') \in Nat /\ Len(sent') > Len(sent)
          /\ Renewing(s)' => NothingYet \/ (Renewing(s) /\ StaysPaid)
          /\ \A e \in 0..Len(sent) : Before(e) => Before(e)'
          /\ OneBought' /\ \A t \in Subs : t # s => Follows(t)'
      BY <1>2, <1>4, <1>5, <1>10, StripeChanges DEF Shapes
    <2>2. RecordedInOrder'
      <3>1. \A e \in recorded : e \in 0..Len(sent)
        BY <2>1 DEF TypeInv, TypeOK
      <3> QED
        BY <1>3, <1>5, <1>7, <2>1, <3>1 DEF RecordedInOrder, InTurn, FollowInv, Ours
    <2>3. Ended(Len(sent))'
      <3>1. Len(sent') \notin recorded /\ Len(sent') # 0
        BY <2>1 DEF TypeInv, TypeOK
      <3> QED
        BY <1>3, <1>5, <3>1 DEF Ended
    <2>4. Renewing(s)' => StaysPaid'
      BY <1>1, <1>8, <2>1 DEF NothingYet, Quiet
    <2>5. Follows(s)'
      BY <2>1, <2>3, <2>4 DEF Follows
    <2> QED
      BY <1>0, <1>2, <1>6, <2>1, <2>2, <2>5 DEF FollowInv
  <1> QED
    BY <1>5, <1>9, <1>10

LEMMA FollowCommit ==
  ASSUME TypeInv, FollowInv, NEW p \in Processes,
         \/ Upsert(p) \/ UpsertRefused(p) \/ SetPlan(p) \/ Record(p) \/ Crash(p)
  PROVE  FollowInv'
  <1>1. proc[p].at # "idle" /\ UNCHANGED <<stripe, sent>>
    BY DEF Upsert, UpsertRefused, SetPlan, Record, Crash
  <1>2. PICK s \in Subs : stripe[s].status # "none"
    BY <1>1, SomethingIsBought
  <1>3. \A r \in Processes : r # p => proc[r].at = "idle" /\ proc'[r].at = "idle"
    <2>1. \A r \in Processes : r # p => proc'[r] = proc[r]
      BY DEF Upsert, UpsertRefused, SetPlan, Record, Crash, TypeInv, TypeOK
    <2> QED
      BY <1>1, <2>1 DEF FollowInv, OneAtWork
  <1>0. OneAtWork'
    BY <1>3 DEF OneAtWork
  <1>4. RecordedInOrder /\ CallsOnPaid /\ Told(s) /\ (Renewing(s) => StaysPaid)
        /\ (stripe[s].status = "canceled" => Ended(Len(sent)))
    BY DEF FollowInv, Follows
  <1>5. /\ recorded \subseteq 1..Len(sent) /\ Len(sent) \in Nat
        /\ proc[p] \in ProcType /\ PendingIsReal(proc[p])
    BY EventsOfProc, LenSent DEF TypeInv
  <1>6. proc \in [Processes -> ProcType]
    BY DEF TypeInv, TypeOK, ProcType
  <1>7. Before(0) /\ Before(0)'
    BY DEF Before
  <1>8. stripe[s].status = "canceled" => Len(sent) > 2
    BY <1>4 DEF Told
  <1>9. CASE UpsertRefused(p) \/ Crash(p)
    <2>1. proc'[p] = IdleProc /\ UNCHANGED <<recorded, row, orgPlan>>
      BY <1>6, <1>9 DEF UpsertRefused, Crash
    <2>2. RecordedInOrder' /\ CallsOnPaid'
      BY <1>1, <1>3, <1>4, <2>1 DEF RecordedInOrder, InTurn, Before, Handled, CallsOnPaid, IdleProc, Ours
    <2>3. Renewing(s) => StaysPaid'
      BY <1>3, <1>4, <2>1 DEF StaysPaid, IdleProc
    <2>4. stripe[s].status = "canceled" => Ended(Len(sent))'
      BY <1>1, <1>3, <1>4, <1>8, <2>1 DEF Ended, IdleProc
    <2> QED
      BY <1>0, <1>1, <1>2, <2>2, <2>3, <2>4, FollowOne
  <1>10. CASE Upsert(p)
    <2>1. /\ UNCHANGED <<recorded, orgPlan>> /\ row' = proc[p].new
          /\ proc[p].at = "upsert" /\ StatusAllowed(proc[p].new.status)
          /\ \/ proc'[p].at = "plan" /\ proc'[p].event = proc[p].event /\ proc'[p].new = proc[p].new
             \/ proc'[p].at = "idle" /\ proc'[p].event = 0
      BY <1>5, <1>6, <1>10 DEF Upsert, IdleProc, ProcType
    <2>3. RecordedInOrder' /\ CallsOnPaid'
      BY <1>1, <1>3, <1>4, <2>1 DEF RecordedInOrder, InTurn, Before, Handled, CallsOnPaid, Ours
    <2>4. Renewing(s) => StaysPaid'
      BY <1>3, <1>4, <2>1 DEF StaysPaid, Ours
    <2>5. stripe[s].status = "canceled" => Ended(Len(sent))'
      BY <1>1, <1>2, <1>3, <1>4, <1>8, <2>1, NothingAfterTheEnd DEF Ended
    <2> QED
      BY <1>0, <1>1, <1>2, <2>3, <2>4, <2>5, FollowOne
  <1>11. CASE SetPlan(p)
    <2>1. /\ UNCHANGED <<recorded, row>> /\ orgPlan' = proc[p].new.plan
          /\ proc[p].at = "plan"
          /\ \/ proc'[p].at = "record" /\ proc'[p].event = proc[p].event
             \/ proc'[p].at = "idle" /\ proc'[p].event = 0
      BY <1>5, <1>6, <1>11 DEF SetPlan, IdleProc, ProcType
    <2>2. RecordedInOrder' /\ CallsOnPaid'
      BY <1>1, <1>3, <1>4, <2>1 DEF RecordedInOrder, InTurn, Before, Handled, CallsOnPaid, Ours
    <2>3. Renewing(s) => StaysPaid'
      BY <1>3, <1>4, <2>1 DEF StaysPaid, Ours
    <2>4. stripe[s].status = "canceled" => Ended(Len(sent))'
      BY <1>1, <1>2, <1>3, <1>4, <1>8, <2>1, NothingAfterTheEnd DEF Ended
    <2> QED
      BY <1>0, <1>1, <1>2, <2>2, <2>3, <2>4, FollowOne
  <1>12. CASE Record(p)
    <2>1. /\ UNCHANGED <<row, orgPlan>> /\ recorded' = recorded \cup {proc[p].event}
          /\ proc[p].at = "record" /\ proc'[p].at = "idle" /\ proc'[p].event = 0
      BY <1>6, <1>12 DEF Record, IdleProc
    <2>2. ASSUME NEW e, Before(e) PROVE Before(e)'
      BY <1>1, <2>1, <2>2 DEF Before, Handled
    <2>3. RecordedInOrder' /\ CallsOnPaid'
      BY <1>1, <1>3, <1>4, <2>1, <2>2 DEF RecordedInOrder, InTurn, CallsOnPaid, Ours
    <2>4. Renewing(s) => StaysPaid'
      BY <1>3, <1>4, <2>1 DEF StaysPaid, Ours
    <2>5. stripe[s].status = "canceled" => Ended(Len(sent))'
      BY <1>1, <1>2, <1>3, <1>4, <1>8, <2>1, NothingAfterTheEnd DEF Ended
    <2> QED
      BY <1>0, <1>1, <1>2, <2>3, <2>4, <2>5, FollowOne
  <1> QED
    BY <1>9, <1>10, <1>11, <1>12

LEMMA FollowInit == Init => FollowInv
  <1> SUFFICES ASSUME Init PROVE FollowInv
    OBVIOUS
  <1>1. /\ sent = <<>> /\ Len(sent) = 0 /\ recorded = {}
        /\ ~Ours(row) /\ row.plan = "free" /\ orgPlan = "free"
        /\ \A s \in Subs : stripe[s].status = "none"
        /\ \A p \in Processes : proc[p].at = "idle"
    BY RowsBefore DEF Init, NotBought, IdleProc
  <1>2. OneBought /\ OneAtWork /\ NothingYet /\ CallsOnPaid
    BY <1>1 DEF OneBought, OneAtWork, NothingYet, Quiet, CallsOnPaid
  <1>3. RecordedInOrder
    BY <1>1 DEF RecordedInOrder, InTurn
  <1>4. ASSUME NEW s \in Subs PROVE Follows(s)
    <2>1. stripe[s].status = "none" /\ ~Renewing(s)
      BY <1>1 DEF Renewing
    <2>2. \A e \in 1..Len(sent) : FALSE
      BY <1>1
    <2> QED
      BY <2>1, <2>2 DEF Follows, Told
  <1> QED
    BY <1>2, <1>3, <1>4 DEF FollowInv

LEMMA FollowStep ==
  TypeInv /\ AllReal /\ (~strayed => FollowInv) /\ [Next]_vars => (~strayed => FollowInv)'
  <1> SUFFICES ASSUME TypeInv, AllReal, ~strayed => FollowInv, [Next]_vars, ~strayed'
               PROVE  FollowInv'
    OBVIOUS
  <1>0. FollowInv
    <2>1. strayed => strayed'
      BY DEF Next, Tick, StripeStep, Buy, Renew, PaymentFails, Lapse, Receive, CancelNow,
             CancelLater, Resume, Reconcile, Begin, Progress, Upsert, UpsertRefused, SetPlan,
             Record, Call, CallCancelNow, CallCancelLater, CallResume, CallRetrieve, Crash,
             vars, history
    <2> QED
      BY <2>1
  <1>1. CASE Tick \/ UNCHANGED vars
    <2>1. UNCHANGED <<stripe, sent, recorded, row, orgPlan, proc>>
      BY <1>1 DEF Tick, vars
    <2> QED
      BY <1>0, <2>1 DEF FollowInv, RecordedInOrder, InTurn, Before, Handled, CallsOnPaid, NothingYet,
         Quiet, Follows, Told, Purchased, Paying, Renewing, StaysPaid, Ended, Ours,
         OneBought, OneAtWork
  <1>2. CASE StripeStep
    BY <1>0, <1>2, FollowStripe
  <1>3. ASSUME NEW p \in Processes, \E e \in 1..Len(sent) : Receive(p, e) PROVE FollowInv'
    BY <1>0, <1>3, FollowReceive
  <1>4. ASSUME NEW p \in Processes, CancelNow(p) \/ CancelLater(p) \/ Resume(p) \/ Reconcile(p)
        PROVE  FollowInv'
    <2>1. \E at \in {"cancelNow", "cancelLater", "resume", "sync"} : Begin(p, at)
      BY <1>4 DEF CancelNow, CancelLater, Resume, Reconcile
    <2> QED
      BY <1>0, <2>1, FollowBegin
  <1>5. ASSUME NEW p \in Processes, Progress(p) \/ Crash(p) PROVE FollowInv'
    BY <1>0, <1>5, FollowCall, FollowCommit DEF Progress
  <1> QED
    BY <1>1, <1>2, <1>3, <1>4, <1>5 DEF Next

(* At rest, the recorded events decide the plan.                            *)
LEMMA AtRestTheyAgree ==
  ASSUME TypeInv, FollowInv
  PROVE  RowsAgree
  <1> SUFFICES ASSUME Quiet, \A e \in 1..Len(sent) : Handled(e),
                      \A s \in Subs : stripe[s].status # "unpaid"
               PROVE  orgPlan = row.plan /\ (row.plan = "pro" <=> \E s \in Subs : Renewing(s))
    BY DEF RowsAgree
  <1>1. CASE \A s \in Subs : stripe[s].status = "none"
    BY <1>1 DEF FollowInv, NothingYet, Renewing
  <1>2. ASSUME NEW s \in Subs, stripe[s].status # "none"
        PROVE  orgPlan = row.plan /\ (row.plan = "pro" <=> \E t \in Subs : Renewing(t))
    <2>1. Told(s) /\ Purchased /\ Len(sent) \in Nat
      BY <1>2, LenSent DEF FollowInv, Follows, Told
    <2>2. CASE Renewing(s)
      <3>1. 2 \in 1..Len(sent) /\ StatusAllowed(sent[2].status)
        BY <2>1 DEF Purchased, StatusAllowed
      <3>2. 2 \in recorded
        BY <3>1 DEF Handled
      <3> QED
        BY <2>2, <3>2 DEF FollowInv, Follows, StaysPaid, RecordedInOrder
    <2>3. CASE stripe[s].status = "canceled"
      <3>1. Len(sent) \in 1..Len(sent) /\ StatusAllowed(sent[Len(sent)].status)
        BY <2>1, <2>3 DEF Told, StatusAllowed
      <3>2. Len(sent) \in recorded
        BY <3>1 DEF Handled
      <3>3. row.plan = "free" /\ orgPlan = "free"
        BY <2>3, <3>2 DEF FollowInv, Follows, Ended
      <3>4. \A t \in Subs : ~Renewing(t)
        BY <1>2, <2>3 DEF FollowInv, OneBought, Renewing
      <3> QED
        BY <3>3, <3>4
    <2>4. stripe[s].status \in {"active", "past_due", "canceled"}
      <3>1. stripe[s].status \in Statuses
        BY <1>2 DEF TypeInv, TypeOK
      <3>2. stripe[s].status # "paid"
        BY DEF FollowInv, Follows, Told
      <3> QED
        BY <1>2, <3>1, <3>2 DEF Statuses
    <2> QED
      BY <2>2, <2>3, <2>4 DEF Renewing
  <1> QED
    BY <1>1, <1>2

(* Any number of requests and tasks, of subscriptions and of events, in any *)
(* order of arrival, with crashes between two commits and calls to Stripe   *)
(* that fail: until two requests or tasks are at work at once, an event     *)
(* arrives before an earlier one was handled, a second subscription is      *)
(* bought or a cancellation does not reach Stripe, the subscription row and *)
(* the plan copied to the organization both say what Stripe says whenever   *)
(* all that can be handled has been.                                        *)
THEOREM RowsFollowStripe == Spec => []FollowsStripe
  <1>1. TypeInv /\ (~strayed => FollowInv) => FollowsStripe
    BY AtRestTheyAgree DEF FollowsStripe
  <1>2. Init => (~strayed => FollowInv)
    BY FollowInit
  <1> QED
    BY <1>1, <1>2, FollowStep, RealInit, RealStep, TypeInit, TypeStep, PTL DEF Spec
=============================================================================
