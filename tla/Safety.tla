------------------------------- MODULE Safety -------------------------------
(***************************************************************************)
(* Safety incidents: reported by people (whose app may repeat a request),  *)
(* paged to the on-call roster in rounds that widen until a person         *)
(* acknowledges, led by a commander and closed.                            *)
(*                                                                         *)
(* The paging job reads which incidents are due, then pages each in a      *)
(* transaction of its own; runs of it may overlap (see JobLease).          *)
(***************************************************************************)
EXTENDS Naturals, FiniteSets

CONSTANTS
    Presses,    \* idempotency keys of reports
    Incidents,  \* rows there are to create
    Staff,      \* staff who manage incidents and can be on call
    Pagers,     \* runs of the paging job under way at the same time
    TopLevel    \* TOP_LEVEL

VARIABLES
    incident,   \* safety_incident
    roster,     \* safety_on_call entries not removed, <<level, person>>
    working,    \* staff whose account is ACTIVE
    paged,      \* SAFETY_ALERT messages, <<incident, round, person>>
    pager,      \* the due incidents a run of the paging job still has to page
    dueBy       \* incidents whose next_page_at has come

safety == <<incident, roster, working, paged, pager, dueBy>>

-----------------------------------------------------------------------------
Levels == 1..TopLevel
Severities == {"CRITICAL", "HIGH", "ROUTINE"}
NoOne == "NONE"

\* nextPage: whether next_page_at is set.
Unused == [press |-> NoOne, severity |-> "ROUTINE", status |-> "NONE",
           acknowledged |-> FALSE, pages |-> 0, nextPage |-> FALSE,
           commander |-> NoOne, closedBy |-> NoOne]

Exists(i) == incident[i].status # "NONE"

OnCall(level) == {p \in working : \E l \in 1..level : <<l, p>> \in roster}

\* Mutant: only the first level is ever paged.
MutantPageTo(round) == OnCall(1)

\* Who round n goes to: the levels up to n.
PageTo(round) == OnCall(round)

\* page: the next round, whether or not anybody is on call, and the time of the
\* one after it.  Rounds are counted up to TopLevel: all later ones go to the
\* same levels.
Page(i, inc) ==
    LET round == IF inc.pages < TopLevel THEN inc.pages + 1 ELSE TopLevel
    IN  /\ paged' = paged \cup {<<i, round, p>> : p \in PageTo(round)}
        /\ incident' = [incident EXCEPT ![i] = [inc EXCEPT !.pages = round, !.nextPage = TRUE]]

\* raise: a retry with the key of an earlier report returns that one.  An SOS,
\* and what else is CRITICAL, is paged in the same transaction.
Raise(i, press, severity) ==
    LET new == [Unused EXCEPT !.press = press, !.severity = severity, !.status = "OPEN"]
    IN  /\ ~Exists(i)
        /\ \A j \in Incidents : incident[j].press # press
        /\ IF severity = "CRITICAL" THEN Page(i, new)
           ELSE incident' = [incident EXCEPT ![i] = new] /\ UNCHANGED paged
        /\ UNCHANGED <<roster, working, pager, dueBy>>

-----------------------------------------------------------------------------
(* The paging job. *)

NextPageComes(i) ==
    /\ incident[i].nextPage /\ i \notin dueBy
    /\ dueBy' = dueBy \cup {i}
    /\ UNCHANGED <<incident, roster, working, paged, pager>>

\* pageDue reads what is due.
FindDue(g) ==
    LET due == {i \in dueBy : ~incident[i].acknowledged /\ incident[i].status # "CLOSED"}
    IN  /\ pager[g] = {} /\ due # {}
        /\ pager' = [pager EXCEPT ![g] = due]
        /\ UNCHANGED <<incident, roster, working, paged, dueBy>>

\* page looks again, with the row locked, before it pages.
PageDue(g, i) ==
    /\ i \in pager[g]
    /\ pager' = [pager EXCEPT ![g] = @ \ {i}]
    /\ IF \/ incident[i].acknowledged \/ incident[i].status = "CLOSED"
          \/ ~incident[i].nextPage \/ i \notin dueBy
       THEN UNCHANGED <<incident, paged, dueBy>>
       ELSE Page(i, incident[i]) /\ dueBy' = dueBy \ {i}
    /\ UNCHANGED <<roster, working>>

\* The run ends early: its process dies, or one page fails.
PagingFails(g) ==
    /\ pager[g] # {}
    /\ pager' = [pager EXCEPT ![g] = {}]
    /\ UNCHANGED <<incident, roster, working, paged, dueBy>>

-----------------------------------------------------------------------------
(* Staff. *)

Acknowledged(inc) == [inc EXCEPT !.acknowledged = TRUE, !.nextPage = FALSE]

Acknowledge(i) ==
    /\ Exists(i) /\ ~incident[i].acknowledged
    /\ incident' = [incident EXCEPT ![i] = Acknowledged(@)]
    /\ dueBy' = dueBy \ {i}
    /\ UNCHANGED <<roster, working, paged, pager>>

\* The CHECK of the table: the commander of a serious incident does not close it.
ClosedByAnother(inc) ==
    \/ inc.severity = "ROUTINE" \/ inc.closedBy = NoOne
    \/ inc.closedBy # inc.commander

\* act: who acts on an incident has it; it may change hands and status.
Act(i, p, takesCommand, status) ==
    LET has == Acknowledged(incident[i])
        led == IF takesCommand THEN [has EXCEPT !.commander = p] ELSE has
        new == IF status = "CLOSED" THEN [led EXCEPT !.status = status, !.closedBy = p]
               ELSE [led EXCEPT !.status = status]
    IN  /\ Exists(i) /\ incident[i].status # "CLOSED" /\ p \in working
        /\ ClosedByAnother(new)
        /\ incident' = [incident EXCEPT ![i] = new]
        /\ dueBy' = dueBy \ {i}
        /\ UNCHANGED <<roster, working, paged, pager>>

\* addOnCall, removeOnCall.
AddOnCall(level, p) ==
    /\ <<level, p>> \notin roster
    /\ roster' = roster \cup {<<level, p>>}
    /\ UNCHANGED <<incident, working, paged, pager, dueBy>>

RemoveOnCall(level, p) ==
    /\ <<level, p>> \in roster
    /\ roster' = roster \ {<<level, p>>}
    /\ UNCHANGED <<incident, working, paged, pager, dueBy>>

\* The account of a staff member is suspended, or restored.
AccountChanges(p) ==
    /\ working' = IF p \in working THEN working \ {p} ELSE working \cup {p}
    /\ UNCHANGED <<incident, roster, paged, pager, dueBy>>

-----------------------------------------------------------------------------
SafetyInit ==
    /\ incident = [i \in Incidents |-> Unused]
    /\ roster \in SUBSET (Levels \X Staff)
    /\ working \in SUBSET Staff
    /\ paged = {}
    /\ pager = [g \in Pagers |-> {}]
    /\ dueBy = {}

SafetyNext ==
    \/ \E i \in Incidents, press \in Presses, severity \in Severities : Raise(i, press, severity)
    \/ \E i \in Incidents : NextPageComes(i) \/ Acknowledge(i)
    \/ \E g \in Pagers : FindDue(g) \/ PagingFails(g) \/ (\E i \in Incidents : PageDue(g, i))
    \/ \E i \in Incidents : \E p \in Staff, takes \in BOOLEAN,
          status \in {incident[i].status, "CONTAINED", "UNDER_REVIEW", "CLOSED"} :
             Act(i, p, takes, status)
    \/ \E level \in Levels, p \in Staff : AddOnCall(level, p) \/ RemoveOnCall(level, p)
    \/ \E p \in Staff : AccountChanges(p)

\* The paging job runs again and again and does not fail for ever.
SafetyFairness ==
    /\ \A i \in Incidents : WF_safety(NextPageComes(i))
    /\ \A g \in Pagers :
          WF_safety(FindDue(g) \/ (\E i \in Incidents : PageDue(g, i)))
    /\ <>[][\A g \in Pagers : ~PagingFails(g)]_safety

SafetySpec == SafetyInit /\ [][SafetyNext]_safety

-----------------------------------------------------------------------------
\* Paging goes on and widens until somebody has the incident: in the end either
\* it is acknowledged or a person of the last level has been paged, if one has
\* been on call and at work all along.
LastLevelIsPaged ==
    \A i \in Incidents, p \in Staff :
        (/\ Exists(i) /\ incident[i].severity = "CRITICAL"
         /\ [](p \in working /\ <<TopLevel, p>> \in roster))
        ~> (\/ incident[i].acknowledged
            \/ \E r \in Levels : <<i, r, p>> \in paged)
=============================================================================
