----------------------------- MODULE PriceRules -----------------------------
(***************************************************************************)
(* The money rules of one table -- price, payout, charge or tax -- that    *)
(* fit one booking, and which of them applies at each time.  Staff create, *)
(* end and replace rules; the requests are checked when they arrive and    *)
(* take effect when their transaction commits, up to Lag minutes later.    *)
(* Time is counted in minutes, and so is the tolerance for late clocks.    *)
(***************************************************************************)
EXTENDS Integers, Sequences, FiniteSetsExt

CONSTANTS
    Scopes,      \* dimensions rules may set, as sets of their names
    Priorities,
    MaxRules,    \* bound
    MaxMinute,   \* bound
    Lag          \* how long a request may take

ASSUME LagIsNat == Lag \in Nat /\ MaxMinute \in Nat /\ MaxRules \in Nat

VARIABLES
    table,   \* which table this is
    minute,  \* now
    rules    \* its rows, oldest first

pricing == <<table, minute, rules>>

-----------------------------------------------------------------------------
Minutes == 0 .. MaxMinute
Never == MaxMinute + 1          \* valid_to is null
Tables == {"price_rule", "payout_rule", "charge_rule", "tax_rate"}

\* of: the rule this one replaces, or 0.  A tax rate has no scope and no priority.
Rule == [scope : Scopes \cup {{}}, priority : Priorities \cup {0},
         from : Minutes, to : 1 .. Never, of : Nat]

-----------------------------------------------------------------------------
(* Which rule applies: selectRule. *)

Weight == [serviceOption |-> 16, zone |-> 8, city |-> 4, weekdays |-> 2, hours |-> 1]
Specificity(scope) == MapThenSumSet(LAMBDA dimension : Weight[dimension], scope)

Matching(rows, t) == {k \in DOMAIN rows : rows[k].from <= t /\ t < rows[k].to}

\* Priority first, then the more specific, the later, the smaller id (any order).
Before(rows, j, k) ==
    LET a == rows[j]
        b == rows[k]
        x == Specificity(a.scope)
        y == Specificity(b.scope)
    IN
    \/ a.priority > b.priority
    \/ a.priority = b.priority /\ x > y
    \/ a.priority = b.priority /\ x = y /\ a.from > b.from
    \/ a.priority = b.priority /\ x = y /\ a.from = b.from /\ j < k

\* The one that comes before all others.
Foremost(rows, found) == {k \in found : \A j \in found \ {k} : Before(rows, k, j)}
OneOf(found) == CHOOSE k \in found : TRUE

\* The rule in force at t, or 0: nothing is sold then.
Selected(rows, t) ==
    LET found == Foremost(rows, Matching(rows, t)) IN
    IF found = {} THEN 0 ELSE OneOf(found)

-----------------------------------------------------------------------------
\* FutureInstant, checked when the request arrived.
Arrived == {minute - d : d \in 0 .. Lag}
FutureInstant(t, asked) == t >= asked - 1

Adds(rule) == rules' = Append(rules, rule)

CreateRule(scope, priority, from, to) ==
    /\ table # "tax_rate" /\ Len(rules) < MaxRules
    /\ table = "charge_rule" => priority = 0 /\ "serviceOption" \notin scope
    /\ \E asked \in Arrived : FutureInstant(from, asked) /\ FutureInstant(to, asked)
    /\ from < to
    /\ Adds([scope |-> scope, priority |-> priority, from |-> from, to |-> to, of |-> 0])
    /\ UNCHANGED <<table, minute>>

\* A tax rate has no end at first.
CreateTaxRate(from) ==
    /\ table = "tax_rate" /\ Len(rules) < MaxRules
    /\ \E asked \in Arrived : FutureInstant(from, asked)
    /\ \A k \in DOMAIN rules : rules[k].to <= from
    /\ Adds([scope |-> {}, priority |-> 0, from |-> from, to |-> Never, of |-> 0])
    /\ UNCHANGED <<table, minute>>

\* Mutant: a rule that has ended can be given a later end.
MutantMayEnd(k, at) == at >= minute - 1

\* forbid_retroactive_end.
MayEnd(k, at) ==
    \/ at = rules[k].to
    \/ at >= minute - 1 /\ rules[k].to >= minute

Overlaps(rows) ==
    \E j, k \in DOMAIN rows : j # k /\ rows[j].from < rows[k].to /\ rows[k].from < rows[j].to

\* end looks at nothing else, and not at a rule that replaces this one; the
\* rates of one tax may not overlap.
EndRule(k, at) ==
    /\ k \in DOMAIN rules
    /\ \E asked \in Arrived : FutureInstant(at, asked)
    /\ at > rules[k].from /\ MayEnd(k, at)
    /\ rules' = [rules EXCEPT ![k].to = at]
    /\ table = "tax_rate" => ~Overlaps(rules')
    /\ UNCHANGED <<table, minute>>

\* replacePrice and replacePayout: the old rule ends where its copy begins.
ReplaceRule(k, from) ==
    /\ table \in {"price_rule", "payout_rule"}
    /\ k \in DOMAIN rules /\ Len(rules) < MaxRules
    /\ \E asked \in Arrived : FutureInstant(from, asked)
    /\ rules[k].from < from /\ from < rules[k].to   \* assertReplaceable
    /\ MayEnd(k, from)
    /\ rules' = Append([rules EXCEPT ![k].to = from],
                       [scope |-> rules[k].scope, priority |-> rules[k].priority,
                        from |-> from, to |-> rules[k].to, of |-> k])
    /\ UNCHANGED <<table, minute>>

TimePasses ==
    /\ minute < MaxMinute
    /\ minute' = minute + 1
    /\ UNCHANGED <<table, rules>>

-----------------------------------------------------------------------------
PricingInit ==
    /\ table \in Tables
    /\ minute = 0
    /\ rules = <<>>

PricingNext ==
    \/ \E scope \in Scopes, priority \in Priorities, from \in Minutes, to \in 1 .. Never :
           CreateRule(scope, priority, from, to)
    \/ \E from \in Minutes : CreateTaxRate(from)
    \/ \E k \in 1 .. MaxRules, t \in Minutes : EndRule(k, t) \/ ReplaceRule(k, t)
    \/ TimePasses

PricingSpec == PricingInit /\ [][PricingNext]_pricing

-----------------------------------------------------------------------------
PricingTypeOK ==
    /\ table \in Tables
    /\ minute \in Minutes
    /\ rules \in Seq(Rule)

\* "Any past quote can be explained exactly" (0021_config_governance.sql:5): no
\* request changes which rule applied at a time further back than the tolerance
\* and the time requests take, however rules are created, ended and replaced.
PastIsFixed ==
    [][\A t \in Minutes : t < minute - 1 - Lag => Selected(rules', t) = Selected(rules, t)]_pricing
=============================================================================
