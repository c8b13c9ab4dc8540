-------------------------- MODULE MCSecurityReview --------------------------
(***************************************************************************)
(* The model-checking instance of SecurityReview: a captured page with two *)
(* links, of which the cap drops one, and a link back.  The root is only   *)
(* tried as a fallback.  A review without probes fits into the budget, a   *)
(* review with them does not.                                              *)
(***************************************************************************)
EXTENDS SecurityReview, TLC

CONSTANTS r1, r2

SitePages == {"home", "list", "help", "root"}
SiteCaptured == [r \in {r1, r2} |-> IF r = r1 THEN {"home"} ELSE {"help"}]
SiteLinks == [p \in SitePages |-> CASE p = "home" -> {"list", "help"}
                                    [] p = "list" -> {"home"}
                                    [] OTHER -> {}]
SiteRoot == {"root"}
=============================================================================
