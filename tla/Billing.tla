------------------------------- MODULE Billing -------------------------------
(***************************************************************************)
(* The subscription of one organization.  Stripe keeps the subscriptions    *)
(* the organization has bought and reports every change as an event; the    *)
(* webhook, the billing API and the reconciler of the worker write what     *)
(* they learn to two rows, the subscription and the plan copied to the      *)
(* organization, each write a commit of its own.  Quotas and member limits  *)
(* are functions of the plan and left out; the paid tiers are one, "pro".   *)
(***************************************************************************)
EXTENDS Naturals, Sequences

CONSTANTS
    Subs,            \* Stripe subscriptions the organization may buy
    NoSub,           \* provider_subscription_id IS NULL
    Processes,       \* requests and worker tasks in progress at the same time
    Period,          \* length of a billing period
    InOrder,         \* TRUE: Stripe's events arrive in the order they were sent
    CallsMayFail,    \* TRUE: calls to the Stripe API may fail
    MaxTime,         \* bound on the clock
    MaxEvents,       \* bound on the events Stripe sends
    MaxCrashes       \* bound on processes that die half-way

ASSUME BillingAssumption ==
    /\ NoSub \notin Subs
    /\ Period \in Nat \ {0} /\ MaxTime \in Nat
    /\ MaxEvents \in Nat /\ MaxCrashes \in Nat
    /\ InOrder \in BOOLEAN /\ CallsMayFail \in BOOLEAN

VARIABLES
    clock,      \* the date
    stripe,     \* stripe[s]: subscription s as Stripe has it
    sent,       \* events Stripe has sent, oldest first
    recorded,   \* subscription_events: the events (by index) recorded
    row,        \* the organization's subscriptions row
    orgPlan,    \* organizations.plan_tier
    proc,       \* proc[p]: the request or task p is running
    crashes,    \* processes that died
    overlapped, \* history: events received while a delivery of theirs was in progress
    strayed     \* history: something happened that the two rows need not survive

history == <<overlapped, strayed>>
vars == <<clock, stripe, sent, recorded, row, orgPlan, proc, crashes, history>>

Statuses == {"active", "past_due", "unpaid", "paid", "canceled"}
Plans == {"free", "pro"}

EventType == [kind : {"checkout", "updated", "invoice", "deleted"}, sub : Subs,
              status : Statuses, end : Nat, cancel : BOOLEAN]

RowType == [known : BOOLEAN, sub : Subs \cup {NoSub}, plan : Plans,
            status : Statuses, end : Nat, cancel : BOOLEAN]

NoRow == [known |-> FALSE, sub |-> NoSub, plan |-> "free",
          status |-> "active", end |-> 0, cancel |-> FALSE]

(* What the migration has given the organizations that were there before.   *)
Backfilled == [NoRow EXCEPT !.known = TRUE]

(* at: what the process does next.  new is the row it will write, setPlan   *)
(* whether the organization's plan follows, event what it will record.      *)
IdleProc == [at |-> "idle", event |-> 0, setPlan |-> FALSE, snap |-> NoRow, new |-> NoRow]

(* CHECK constraint ck_subscriptions_status.                                *)
AnyStatus(s) == TRUE
StatusAllowed(s) == s \notin {"unpaid", "paid"}

EndsService(s) == s \in {"canceled", "unpaid"}

Handled(e) == e \in recorded \/ ~StatusAllowed(sent[e].status)
Before(e) == \A d \in 1..(e - 1) : Handled(d)
Alone(p) == \A q \in Processes \ {p} : proc[q].at = "idle"

-----------------------------------------------------------------------------
(* Stripe.                                                                  *)

Renewing(s) == stripe[s].status \in {"active", "past_due"}

Event(k, s, st) == [kind |-> k, sub |-> s, status |-> st.status,
                    end |-> st.end, cancel |-> st.cancel]

(* Subscription s becomes st, and Stripe sends one event of each kind.      *)
Becomes(s, st, kinds) ==
    /\ Len(sent) + Len(kinds) <= MaxEvents
    /\ stripe' = [stripe EXCEPT ![s] = st]
    /\ sent' = sent \o [i \in 1..Len(kinds) |->
           IF kinds[i] = "invoice"
           THEN Event("invoice", s, [st EXCEPT !.status = "paid"])
           ELSE Event(kinds[i], s, st)]

(* The customer pays a checkout session; none is refused because the        *)
(* organization already has a subscription.                                 *)
Buy(s) ==
    /\ stripe[s].status = "none"
    /\ Becomes(s, [status |-> "active", end |-> clock + Period, cancel |-> FALSE],
               <<"updated", "checkout">>)
    /\ strayed' = (strayed \/ \E t \in Subs : stripe[t].status # "none")
    /\ UNCHANGED <<clock, recorded, row, orgPlan, proc, crashes, overlapped>>

Due(s) == Renewing(s) /\ clock >= stripe[s].end

Renew(s) ==
    /\ Due(s) /\ ~stripe[s].cancel
    /\ Becomes(s, [stripe[s] EXCEPT !.status = "active", !.end = @ + Period],
               <<"updated", "invoice">>)
    /\ UNCHANGED <<clock, recorded, row, orgPlan, proc, crashes, history>>

PaymentFails(s) ==
    /\ Due(s) /\ ~stripe[s].cancel
    /\ Becomes(s, [stripe[s] EXCEPT !.status = IF @ = "active" THEN "past_due" ELSE "unpaid"],
               <<"updated">>)
    /\ UNCHANGED <<clock, recorded, row, orgPlan, proc, crashes, history>>

Lapse(s) ==
    /\ Due(s) /\ stripe[s].cancel
    /\ Becomes(s, [stripe[s] EXCEPT !.status = "canceled"], <<"deleted">>)
    /\ UNCHANGED <<clock, recorded, row, orgPlan, proc, crashes, history>>

Tick ==
    /\ clock < MaxTime
    /\ clock' = clock + 1
    /\ UNCHANGED <<stripe, sent, recorded, row, orgPlan, proc, crashes, history>>

-----------------------------------------------------------------------------
(* ProcessWebhookEvent.                                                     *)

AnyEvent(e) == TRUE
NotProcessed(e) == e \notin recorded

(* What may be delivered now: in order, an event follows those before it,   *)
(* except the ones the database refuses for ever.                           *)
Deliverable(e) == InOrder => Before(e)

AtUpsert(e, new) ==
    [at |-> "upsert", event |-> e, setPlan |-> TRUE, snap |-> row, new |-> new]

(* The period comes from Stripe as it is now, or from the event.            *)
CheckoutRows(e) ==
    {[known |-> TRUE, sub |-> sent[e].sub, plan |-> "pro", status |-> "active",
      end |-> t, cancel |-> FALSE] : t \in {sent[e].end, stripe[sent[e].sub].end}}

(* The plan is in the metadata of a subscription; an invoice has none.      *)
UpdatedRow(e) ==
    [known |-> TRUE, sub |-> sent[e].sub, status |-> sent[e].status,
     end |-> sent[e].end,
     cancel |-> IF sent[e].kind = "invoice" THEN row.cancel ELSE sent[e].cancel,
     plan |-> CASE EndsService(sent[e].status) -> "free"
                [] sent[e].kind = "invoice" -> row.plan
                [] OTHER -> "pro"]

DeletedKeepingPlan(r) == [r EXCEPT !.status = "canceled", !.cancel = FALSE]
DeletedRow(r) == [r EXCEPT !.plan = "free", !.status = "canceled", !.cancel = FALSE]

(* By provider id, else by the organization of the metadata.                *)
Found(e) == row.known /\ (sent[e].kind = "invoice" => row.sub = sent[e].sub)

ReceiveCheckout(p, e) ==
    /\ sent[e].kind = "checkout"
    /\ \E new \in CheckoutRows(e) : proc' = [proc EXCEPT ![p] = AtUpsert(e, new)]
    /\ UNCHANGED recorded

ReceiveUpdated(p, e) ==
    /\ sent[e].kind \in {"updated", "invoice"} /\ Found(e)
    /\ proc' = [proc EXCEPT ![p] = AtUpsert(e, UpdatedRow(e))]
    /\ UNCHANGED recorded

ReceiveDeleted(p, e) ==
    /\ sent[e].kind = "deleted" /\ Found(e)
    /\ proc' = [proc EXCEPT ![p] = AtUpsert(e, DeletedRow(row))]
    /\ UNCHANGED recorded

ReceiveUnknown(p, e) ==
    /\ sent[e].kind # "checkout" /\ ~Found(e)
    /\ recorded' = recorded \cup {e}
    /\ UNCHANGED proc

Receive(p, e) ==
    /\ proc[p].at = "idle" /\ NotProcessed(e) /\ Deliverable(e)
    /\ \/ ReceiveCheckout(p, e)
       \/ ReceiveUpdated(p, e)
       \/ ReceiveDeleted(p, e)
       \/ ReceiveUnknown(p, e)
    /\ overlapped' = overlapped \cup {d \in {e} : \E q \in Processes : proc[q].event = d}
    /\ strayed' = (strayed \/ ~Alone(p) \/ ~Before(e))
    /\ UNCHANGED <<clock, stripe, sent, row, orgPlan, crashes>>

-----------------------------------------------------------------------------
(* The commits of a process, one at a time.                                 *)

Upsert(p) ==
    /\ proc[p].at = "upsert"
    /\ StatusAllowed(proc[p].new.status)
    /\ row' = proc[p].new
    /\ proc' = [proc EXCEPT ![p] = IF proc[p].setPlan THEN [@ EXCEPT !.at = "plan"]
                                   ELSE IdleProc]
    /\ UNCHANGED <<clock, stripe, sent, recorded, orgPlan, crashes, history>>

(* The commit is refused and the request answers 500: nothing is written.   *)
UpsertRefused(p) ==
    /\ proc[p].at = "upsert"
    /\ ~StatusAllowed(proc[p].new.status)
    /\ proc' = [proc EXCEPT ![p] = IdleProc]
    /\ UNCHANGED <<clock, stripe, sent, recorded, row, orgPlan, crashes, history>>

SetPlan(p) ==
    /\ proc[p].at = "plan"
    /\ orgPlan' = proc[p].new.plan
    /\ proc' = [proc EXCEPT ![p] = IF proc[p].event = 0 THEN IdleProc
                                   ELSE [@ EXCEPT !.at = "record"]]
    /\ UNCHANGED <<clock, stripe, sent, recorded, row, crashes, history>>

(* A second insert of the same event breaks the unique constraint (500).    *)
Record(p) ==
    /\ proc[p].at = "record"
    /\ recorded' = recorded \cup {proc[p].event}
    /\ proc' = [proc EXCEPT ![p] = IdleProc]
    /\ UNCHANGED <<clock, stripe, sent, row, orgPlan, crashes, history>>

Crash(p) ==
    /\ proc[p].at # "idle"
    /\ crashes < MaxCrashes
    /\ proc' = [proc EXCEPT ![p] = IdleProc]
    /\ crashes' = crashes + 1
    /\ UNCHANGED <<clock, stripe, sent, recorded, row, orgPlan, history>>

-----------------------------------------------------------------------------
(* The billing API and the reconciler: read the row, call Stripe, write     *)
(* back a row computed from what was read.                                  *)

Begin(p, at) ==
    /\ proc[p].at = "idle"
    /\ row.known /\ row.plan # "free"
    /\ proc' = [proc EXCEPT ![p] = [at |-> at, event |-> 0, setPlan |-> FALSE,
                                    snap |-> row, new |-> NoRow]]
    /\ strayed' = (strayed \/ ~Alone(p))
    /\ UNCHANGED <<clock, stripe, sent, recorded, row, orgPlan, crashes, overlapped>>

CancelNow(p)   == Begin(p, "cancelNow")
CancelLater(p) == Begin(p, "cancelLater")
Resume(p)      == row.cancel /\ Begin(p, "resume")

NotExpired == FALSE
Expired == row.end <= clock

(* One pass of the reconciler over the organization's subscription.         *)
Reconcile(p) == Begin(p, IF Expired THEN "cancelNow" ELSE "sync")

(* A call to Stripe succeeds or raises; the code swallows what it raises.   *)
CallFails(s) ==
    /\ CallsMayFail \/ ~Renewing(s)
    /\ UNCHANGED <<stripe, sent>>

StripeCancel(s) ==
    /\ Renewing(s)
    /\ Becomes(s, [stripe[s] EXCEPT !.status = "canceled"], <<"deleted">>)

StripeModify(s, cancel) ==
    /\ Renewing(s)
    /\ IF stripe[s].cancel = cancel THEN UNCHANGED <<stripe, sent>>
       ELSE Becomes(s, [stripe[s] EXCEPT !.cancel = cancel], <<"updated">>)

Write(p, new, setPlan) ==
    proc' = [proc EXCEPT ![p] = [at |-> "upsert", event |-> 0, setPlan |-> setPlan,
                                 snap |-> proc[p].snap, new |-> new]]

CallCancelNow(p) ==
    /\ proc[p].at = "cancelNow"
    /\ StripeCancel(proc[p].snap.sub) \/ CallFails(proc[p].snap.sub)
    /\ Write(p, DeletedRow(proc[p].snap), TRUE)
    /\ strayed' = (strayed \/ (Renewing(proc[p].snap.sub) /\ stripe' = stripe))
    /\ UNCHANGED <<clock, recorded, row, orgPlan, crashes, overlapped>>

CallCancelLater(p) ==
    /\ proc[p].at = "cancelLater"
    /\ StripeModify(proc[p].snap.sub, TRUE) \/ CallFails(proc[p].snap.sub)
    /\ Write(p, [proc[p].snap EXCEPT !.cancel = TRUE], FALSE)
    /\ UNCHANGED <<clock, recorded, row, orgPlan, crashes, history>>

CallResume(p) ==
    /\ proc[p].at = "resume"
    /\ StripeModify(proc[p].snap.sub, FALSE) \/ CallFails(proc[p].snap.sub)
    /\ Write(p, [proc[p].snap EXCEPT !.cancel = FALSE], FALSE)
    /\ UNCHANGED <<clock, recorded, row, orgPlan, crashes, history>>

(* A subscription not yet expired is compared with Stripe's.                *)
SyncEnds(p, s) ==
    /\ EndsService(stripe[s].status)
    /\ Write(p, DeletedRow(proc[p].snap), TRUE)

SyncCancelFlag(p, s) ==
    /\ Renewing(s) /\ stripe[s].cancel # proc[p].snap.cancel
    /\ Write(p, [proc[p].snap EXCEPT !.status = stripe[s].status,
                                     !.cancel = stripe[s].cancel], FALSE)

SyncAgrees(p, s) ==
    /\ Renewing(s) /\ stripe[s].cancel = proc[p].snap.cancel
    /\ proc' = [proc EXCEPT ![p] = IdleProc]

SyncFails(p) ==
    /\ CallsMayFail
    /\ proc' = [proc EXCEPT ![p] = IdleProc]

CallRetrieve(p) ==
    /\ proc[p].at = "sync"
    /\ LET s == proc[p].snap.sub IN
       SyncEnds(p, s) \/ SyncCancelFlag(p, s) \/ SyncAgrees(p, s) \/ SyncFails(p)
    /\ UNCHANGED <<clock, stripe, sent, recorded, row, orgPlan, crashes, history>>

-----------------------------------------------------------------------------
NotBought == [status |-> "none", end |-> 0, cancel |-> FALSE]

Init ==
    /\ clock = 0
    /\ stripe = [s \in Subs |-> NotBought]
    /\ sent = <<>>
    /\ recorded = {}
    /\ row \in {NoRow, Backfilled}
    /\ orgPlan = "free"
    /\ proc = [p \in Processes |-> IdleProc]
    /\ crashes = 0
    /\ overlapped = {} /\ strayed = FALSE

StripeStep == \E s \in Subs : Buy(s) \/ Renew(s) \/ PaymentFails(s) \/ Lapse(s)

Call(p) == CallCancelNow(p) \/ CallCancelLater(p) \/ CallResume(p) \/ CallRetrieve(p)

Progress(p) == Upsert(p) \/ UpsertRefused(p) \/ SetPlan(p) \/ Record(p) \/ Call(p)

Next ==
    \/ Tick
    \/ StripeStep
    \/ \E p \in Processes :
         \/ \E e \in 1..Len(sent) : Receive(p, e)
         \/ CancelNow(p) \/ CancelLater(p) \/ Resume(p) \/ Reconcile(p)
         \/ Progress(p)
         \/ Crash(p)

Spec == Init /\ [][Next]_vars

(* The event loop runs what is in progress, and the reconciler comes back   *)
(* every 12 hours whatever else is going on (strong fairness: it is only    *)
(* kept out here by the bound on Processes).                                *)
FairSpec ==
    /\ Spec
    /\ \A p \in Processes : WF_vars(Progress(p))
    /\ SF_vars(\E p \in Processes : Reconcile(p))

-----------------------------------------------------------------------------
TypeOK ==
    /\ clock \in Nat
    /\ stripe \in [Subs -> [status : Statuses \cup {"none"}, end : Nat, cancel : BOOLEAN]]
    /\ sent \in Seq(EventType)
    /\ recorded \subseteq 1..Len(sent)
    /\ row \in RowType /\ row.status \in {"active", "past_due", "canceled"}
    /\ row.plan = "pro" => row.known /\ row.sub \in Subs
    /\ orgPlan \in Plans
    /\ proc \in [Processes -> [at : {"idle", "upsert", "plan", "record", "cancelNow",
                                     "cancelLater", "resume", "sync"},
                               event : 0..Len(sent), setPlan : BOOLEAN,
                               snap : RowType, new : RowType]]
    /\ crashes \in 0..MaxCrashes
    /\ overlapped \subseteq 1..Len(sent) /\ strayed \in BOOLEAN

Quiet == \A p \in Processes : proc[p].at = "idle"

(* When every event that can be handled has been and nothing is in          *)
(* progress, both rows agree with Stripe: the organization is on its paid   *)
(* plan exactly while Stripe renews a subscription of its.  A subscription  *)
(* that ends unpaid is left to the reconciler.                              *)
RowsAgree ==
    /\ Quiet
    /\ \A e \in 1..Len(sent) : Handled(e)
    /\ \A s \in Subs : stripe[s].status # "unpaid"
    => orgPlan = row.plan /\ (row.plan = "pro" <=> \E s \in Subs : Renewing(s))

(* They agree until one of four things has happened: two requests or tasks  *)
(* in progress at once, an event received before an earlier one was         *)
(* handled, a second subscription bought, or a cancellation that Stripe did *)
(* not carry out.                                                           *)
FollowsStripe == ~strayed => RowsAgree

(* "Guarantee that replayed ... Stripe webhooks never corrupt subscription  *)
(* states": a delivery writes the subscription of an event that has been    *)
(* recorded only if two deliveries of that event were in progress at once,  *)
(* whatever else was.                                                       *)
Replays ==
    \E p \in Processes :
        /\ proc[p].at = "upsert" /\ proc'[p].at = "plan"
        /\ proc[p].event \in recorded \ overlapped

ReplaysChangeNothing == [][~Replays]_vars

Overdue == row.known /\ row.plan = "pro" /\ row.end <= clock

(* A subscription past its period is downgraded or extended, even if no     *)
(* event of Stripe's ever arrives: the reconciler sees to it.               *)
OverdueIsSettled == Overdue ~> ~Overdue
=============================================================================
