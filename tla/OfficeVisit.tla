---------------------------- MODULE OfficeVisit ----------------------------
(***************************************************************************)
(* A visit: the page /start creates an office and waits for the desktop,   *)
(* and its departure loads the public page of the office, which follows    *)
(* the office from then on.  The two pages share the tab, not their state; *)
(* the revisions move all the time.                                        *)
(***************************************************************************)
EXTENDS StartPage, OfficeBrowser

visitVars == <<startVars, browserVars>>

VisitInit == StartInit /\ BrowserInit

\* location.assign(officeUrl): the tab loads the other page.
Departs(b) == Depart /\ view' = "gone" /\ Loads(b)

VisitNext ==
    \/ \E b \in Reader : Departs(b)
    \/ StartNext /\ view' # "gone" /\ UNCHANGED browserVars
    \/ BrowserNext /\ UNCHANGED startVars

VisitSpec == VisitInit /\ [][VisitNext]_visitVars /\ StartFairness /\ BrowserFairness

(* Neither page ever waits for nothing: /start asks again as long as it     *)
(* shows a pairing, and the office has a request, a source, a timer or a    *)
(* button that leads on.                                                    *)
VisitInv ==
    /\ StartTypeOK
    /\ KeepsAsking
    /\ BrowserTypeOK
    /\ NeverStranded
=============================================================================
