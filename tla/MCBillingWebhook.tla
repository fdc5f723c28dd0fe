-------------------------- MODULE MCBillingWebhook --------------------------
\* Instances of BillingWebhook for TLC.
EXTENDS BillingWebhook, TLC

CONSTANTS w1, stray, failed, changed, deleted, customer, subscription

Starter ==
  [plan |-> "starter", limit |-> 200, billing |-> "active", customer |-> None, subscription |-> None]

MCInitialRow == [w \in Workspaces |-> Starter]

\* The events of tests/test_billing_quota_audit.py: a failed payment that names the
\* workspace and links it, a deleted subscription and a plan change that name the
\* subscription or the customer only; and one that names a workspace that does not exist.
LinkPayload ==
  failed :> [workspace |-> w1, type |-> "invoice.payment_failed", status |-> None, plan |-> None,
             limit |-> None, customer |-> customer, subscription |-> subscription]
  @@ deleted :> [workspace |-> None, type |-> "customer.subscription.deleted",
                 status |-> "canceled", plan |-> None,
                 limit |-> None, customer |-> None, subscription |-> subscription]
  @@ changed :> [workspace |-> None, type |-> "customer.subscription.updated",
                 status |-> "active", plan |-> "pro",
                 limit |-> None, customer |-> customer, subscription |-> None]
  @@ stray :> [workspace |-> Unknown, type |-> "invoice.payment_failed", status |-> None,
               plan |-> None, limit |-> None, customer |-> None, subscription |-> None]

ProcessSymmetry == Permutations(Processes)

\* Events that name their workspace and change its plan by name.
PlanPayload ==
  changed :> [workspace |-> w1, type |-> "customer.subscription.updated", status |-> "active",
              plan |-> "pro", limit |-> None, customer |-> None, subscription |-> None]
  @@ deleted :> [workspace |-> w1, type |-> "customer.subscription.deleted", status |-> "canceled",
                 plan |-> "starter", limit |-> None, customer |-> None, subscription |-> None]

\* What the admin page sends: a plan, a limit and a status, never the Stripe ids.
FormUpdates ==
  {[plan |-> "starter", limit |-> 300, billing |-> "active", customer |-> None, subscription |-> None]}

\* A request that leaves the limit to the plan.
NamedUpdates ==
  {[plan |-> "business", limit |-> None, billing |-> "active", customer |-> None, subscription |-> None]}
=============================================================================
