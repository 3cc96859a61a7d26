------------------------------ MODULE MCOutside ------------------------------
(* What the gateway and Zoho are told and tell, on small instances that share *)
(* no state, so a behaviour ("part") has one of them: a payment whose         *)
(* webhooks arrive, a support case followed at the desk by two dispatchers,   *)
(* records mirrored in the CRM by one, the token that requests to Zoho share. *)
EXTENDS Payments, Outbox, ZohoTokens

CONSTANTS d1, m1

VARIABLE part

MCInit ==
    /\ part \in {"payment", "desk", "crm", "tokens"}
    /\ Init /\ OutboxInit /\ TokensInit
    /\ \A r \in Mirrored : source[r] = CHOOSE s \in States : TRUE

\* A process loses a lease only while nothing was seized yet.
LeasesLast ==
    \A e \in leased \ leased' :
        (\E d \in Dispatchers : e \in DOMAIN dispatcher[d].batch) => dispatcher' # dispatcher

\* The event that creates the ticket and one that pulls its status.
Desk ==
    /\ OutboxNext /\ UNCHANGED source
    /\ seized = {} \/ LeasesLast
    /\ Len(events') <= 2

\* One dispatcher that keeps its leases; the second event is of either record,
\* and changes of m1 only are left to a pending event.
Crm ==
    /\ OutboxNext /\ UNCHANGED case /\ LeasesLast
    /\ \A d \in Dispatchers \ {d1} : dispatcher'[d] = dispatcher[d]
    /\ \A k \in DOMAIN events' : k # 2 => events'[k].record = m1
    /\ \A r \in Mirrored \ {m1} : writing'[r] = "NONE"

MCNext ==
    \/ /\ part = "payment" /\ Next
       /\ UNCHANGED <<part, outbox, zohoTokens>>
    \/ /\ \/ part = "desk" /\ Desk
          \/ part = "crm" /\ Crm
       /\ UNCHANGED <<part, vars, zohoTokens>>
    \/ part = "tokens" /\ TokensNext /\ UNCHANGED <<part, vars, outbox>>

MCSpec == /\ MCInit /\ [][MCNext]_<<part, vars, outbox, zohoTokens>>
          /\ WebhookFairness /\ OutboxFairness
=============================================================================
