---------------------------- MODULE MCCrawlEngine ----------------------------
(***************************************************************************)
(* The model-checking instances of CrawlEngine: one small application.     *)
(*                                                                         *)
(*   home1 -open-> panel      home1 -leave-> outside                       *)
(*   panel -back-> home1      panel -link-> old => leaf                    *)
(*   panel -sort-> panel      panel -delete-> panel                        *)
(*   home2 -menu-> leaf       home2 -link-> home1, panel, outside          *)
(*   home2 -extern-> outside  leaf -account-> home1                        *)
(*                                                                         *)
(* It has a cycle of controls, a page with two controls to probe and one   *)
(* the classifier parks, a control that reorders its page, a route that    *)
(* only a button leads to, one that is only found by a redirect, one in an *)
(* overlay, and one that is out of scope, reached by a button and by a     *)
(* link.  Menus are opened by more, by delete, which is parked, and by     *)
(* account, which leaves its page.  The navigation repeats an entry and    *)
(* has one to another site.                                                *)
(***************************************************************************)
EXTENDS CrawlEngine, TLC

SiteRoutes == {"home1", "home2", "panel", "leaf", "old", "outside"}
SiteScope == SiteRoutes \ {"outside"}
SiteModules == {"m1", "m2", "m3"}
SiteMenu == <<"m1", "m2", "m1", "m3">>
SiteSelection == {"m1", "m2"}
SiteHome == [m \in SiteModules |-> CASE m = "m1" -> "home1" [] m = "m2" -> "home2" [] m = "m3" -> "outside"]
SiteLands == [r \in SiteRoutes |-> IF r = "old" THEN "leaf" ELSE r]

Control(page, to, words, marks) == [page |-> page, to |-> to, look |-> [words |-> words, marks |-> marks]]

Site ==
    "open"   :> Control("home1", "panel", {"navigation"}, {}) @@
    "leave"  :> Control("home1", "outside", {"return"}, {}) @@
    "back"   :> Control("panel", "home1", {"navigation"}, {"link"}) @@
    "sort"   :> Control("panel", "panel", {"sort"}, {"header"}) @@
    "delete" :> Control("panel", "panel", {"destructive", "navigation"}, {}) @@
    "extern" :> Control("home2", "outside", {}, {"link"}) @@
    "more"   :> Control("home2", "home2", {}, {}) @@
    "account" :> Control("leaf", "home1", {}, {})

SiteControls == DOMAIN Site
SitePageOf == [c \in SiteControls |-> Site[c].page]
SiteLeadsTo == [c \in SiteControls |-> Site[c].to]
SiteLooksLike == [c \in SiteControls |-> Site[c].look]
SiteShowsLink == {"back", "extern"}
SiteShifts == {"sort"}

Leads(edges) == [r \in SiteRoutes |-> {d \in SiteRoutes : <<r, d>> \in edges}]

SiteTriggers == {"more", "delete", "account"}
SiteOverlays == [c \in SiteControls |-> IF c = "more" THEN {"leaf"} ELSE {}]
SiteLinks == Leads({<<"panel", "old">>, <<"home2", "home1">>, <<"home2", "panel">>,
                    <<"home2", "outside">>})

\* Every page is healthy, but the leaf: after the redirect it may have lost its data.
Healthy == [stable |-> TRUE, loaded |-> TRUE, broken |-> FALSE, login |-> FALSE,
            redirected |-> FALSE, late |-> FALSE, api |-> "ok", targets |-> 6, visible |-> TRUE,
            attempted |-> 1, succeeded |-> 1]
Poor == [Healthy EXCEPT !.redirected = TRUE, !.api = "failed", !.targets = 0, !.succeeded = 0]
SiteSignals == [r \in SiteRoutes |-> IF r = "leaf" THEN {Healthy, Poor} ELSE {Healthy}]

Vanishing == {"m2"}
=============================================================================
