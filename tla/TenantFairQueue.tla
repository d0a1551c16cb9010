--------------------------- MODULE TenantFairQueue ---------------------------
(***************************************************************************)
(* TenantFairQueue of packages/core-resource: a Map of tenants to slots,   *)
(* in the order the tenants came, and a cursor that moves by one at each   *)
(* dequeue.  Callers stamp a slot with the time of the call, so of equal   *)
(* priorities the earlier comes first.                                     *)
(***************************************************************************)
EXTENDS Integers, SequencesExt

CONSTANTS
  Tenants,
  Watched,      \* the tenant whose turns are counted: any of them
  Priorities,
  MaxSlots,     \* bound: slots waiting per tenant
  CursorCycle   \* the cursor is kept modulo a multiple of every number of tenants

ASSUME TenantsAreKnown == IsFiniteSet(Tenants) /\ Watched \in Tenants
ASSUME CursorCycleIsWhole ==
  CursorCycle \in Nat \ {0} /\ \A n \in 1..Cardinality(Tenants) : CursorCycle % n = 0

VARIABLES
  slotsByTenant,  \* in the Map's order: [tenant, slots]
  tenantCursor,
  passedOver      \* history: dequeues that served another while Watched waited and all could be served

queueVars == <<slotsByTenant, tenantCursor, passedOver>>

Slot(p, retryAfter) == [priority |-> p, retryAfter |-> retryAfter]

Entry(t) == {i \in DOMAIN slotsByTenant : slotsByTenant[i].tenant = t}
Waiting == {slotsByTenant[i].tenant : i \in DOMAIN slotsByTenant}

\* push, then a stable sort by falling priority.
Insert(slots, slot) ==
  InsertAt(slots, 1 + Cardinality({i \in DOMAIN slots : slots[i].priority >= slot.priority}), slot)

enqueue(t, slot) ==
  /\ \A i \in Entry(t) : Len(slotsByTenant[i].slots) < MaxSlots
  /\ slotsByTenant' =
       IF Entry(t) = {}
       THEN Append(slotsByTenant, [tenant |-> t, slots |-> <<slot>>])
       ELSE [i \in DOMAIN slotsByTenant |->
               IF i \in Entry(t) THEN [slotsByTenant[i] EXCEPT !.slots = Insert(@, slot)] ELSE slotsByTenant[i]]
  /\ UNCHANGED <<tenantCursor, passedOver>>

\* A tenant can be served when its first slot can.
Ready(time) == {i \in DOMAIN slotsByTenant : Head(slotsByTenant[i].slots).retryAfter <= time}

\* Mutant: the cursor starts again at every dequeue.
IsFirst(ready, i) == \A j \in ready : i <= j

\* tenants[tenantCursor % tenants.length], of the tenants that are ready.
HasTurn(ready, i) == Cardinality({j \in ready : j < i}) = tenantCursor % Cardinality(ready)

dequeue(time) ==
  \E i \in Ready(time) :
    LET served == slotsByTenant[i]
    IN  /\ HasTurn(Ready(time), i)
        /\ tenantCursor' = (tenantCursor + 1) % CursorCycle
        /\ slotsByTenant' = IF Tail(served.slots) = <<>>
                            THEN RemoveAt(slotsByTenant, i)
                            ELSE [slotsByTenant EXCEPT ![i].slots = Tail(@)]
        /\ passedOver' = IF Watched \in Waiting \ {served.tenant} /\ Ready(time) = DOMAIN slotsByTenant
                         THEN passedOver + 1
                         ELSE 0

QueueInit ==
  /\ slotsByTenant = <<>>
  /\ tenantCursor = 0
  /\ passedOver = 0

QueueNext(time, retries) ==
  \/ \E t \in Tenants, p \in Priorities, r \in retries : enqueue(t, Slot(p, r))
  \/ dequeue(time)

QueueSpec == QueueInit /\ [][\E time \in Nat : QueueNext(time, Nat)]_queueVars

-----------------------------------------------------------------------------
(* Properties *)

\* While no slot is held back, a waiting tenant gets its turn within one cycle of the cursor for each
\* tenant before it, although the others come and go and the cursor, kept across calls, points into a list
\* that is another at each of them (dequeue).
NobodyStarves == passedOver < CursorCycle * Cardinality(Tenants)
=============================================================================
