----------------------------- MODULE MCReporting ----------------------------
(* Model-checking instance of what only reads or judges: Reporting, the    *)
(* walks up the org tree, the validation of files.  They share no state,   *)
(* so a behaviour is one of a part, and the other two rest.  Two reports   *)
(* do not disturb each other: one of them is enough.                       *)
EXTENDS Reporting, OrgWalks, ImportRules, TLC

CONSTANTS company, filing

VARIABLE part

Mills == {-10, 0, 4, 5, 15, 1000}
Tree == (company :> NULL) @@ (filing :> company)
Companies == {company}
FilingUnits == {company, filing}
NoUnit == {}

ReportsRest ==
    /\ Init
    /\ cycle = "draft" /\ accounts = {}
    /\ \A r \in Requests : req[r].kind = "account"

ReportsBegin ==
    /\ Init
    /\ \E r \in Requests : \A s \in Requests \ {r} : req[s].kind \in {"actuals", "account"}

WalksRest ==
    /\ parent = [u \in OrgUnits |-> NULL] /\ staffed = {}
    /\ \E u \in OrgUnits : walk = Done(Begin("manager", u))

FilesRest == file = NULL /\ result = Pending

MCInit ==
    \/ part = "reports" /\ ReportsBegin /\ WalksRest /\ FilesRest
    \/ part = "walks" /\ WalkInit /\ ReportsRest /\ FilesRest
    \/ part = "files" /\ FileInit /\ ReportsRest /\ WalksRest

MCNext ==
    \/ part = "reports" /\ Next /\ UNCHANGED <<part, parent, staffed, walk, file, result>>
    \/ part = "walks" /\ WalkNext /\ UNCHANGED <<vars, part, file, result>>
    \/ part = "files" /\ Judge /\ UNCHANGED <<vars, part, parent, staffed, walk>>

MCSpec == MCInit /\ [][MCNext]_<<vars, part, parent, staffed, walk, file, result>>

(* Nothing is written to a table, or told by a time, that no request of    *)
(* the behaviour reads; and beside a report there is one write less when   *)
(* the other request gets under way.                                       *)
Asked(kind) == \E r \in Requests : req[r].kind = kind

OnlyWhatIsRead ==
    /\ Asked("report") \/ /\ \A source \in Sources : costs[source] = <<>>
                          /\ \A u \in Units : \A n \in DOMAIN uploads[u] :
                               uploads[u][n].at = uploads[u][n].done
    /\ Asked("dashboard") \/ /\ \A u \in Units : templates[u] = "none"
                             /\ resubmits = {}
    /\ Asked("report") /\ writes = MaxWrites =>
         \A r \in Requests : req[r].kind # "report" => req[r].pc = "idle"

Symmetry == Permutations(Requests) \cup Permutations(OrgUnits)
=============================================================================
