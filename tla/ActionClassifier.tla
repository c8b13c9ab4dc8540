-------------------------- MODULE ActionClassifier --------------------------
(***************************************************************************)
(* classify_action of automation_framework/crawler/action_classifier.py:   *)
(* which controls of a page the crawler may press by itself.               *)
(*                                                                         *)
(* A control is what the classifier tells controls apart by: the word      *)
(* lists its label matches, and the marks of its role, tag, type, classes  *)
(* and ARIA attributes.                                                    *)
(***************************************************************************)
EXTENDS Naturals, Sequences

Words == {"destructive", "cart", "return", "confirm", "expand", "search", "filter", "sort",
          "pagination", "navigation"}
Marks == {"submit", "expandable", "search", "header", "pagination", "linked_option", "option", "link"}
Looks == [words : SUBSET Words, marks : SUBSET Marks]

Rule(words, marks, class) == [words |-> words, marks |-> marks, class |-> class]

\* The tests in the order of the code; the first that a control passes decides.
Rules == <<
    Rule({"destructive"}, {}, "blocked_destructive"),
    Rule({"cart"}, {}, "safe_action"),
    Rule({"return"}, {}, "safe_navigation"),
    Rule({"confirm"}, {"submit"}, "requires_manual_confirmation"),
    Rule({"expand"}, {"expandable"}, "safe_expand"),
    Rule({"search"}, {"search"}, "safe_search"),
    Rule({"filter"}, {}, "safe_filter"),
    Rule({"sort"}, {"header"}, "safe_sort"),
    Rule({"pagination"}, {"pagination"}, "safe_pagination"),
    Rule({}, {"linked_option"}, "safe_navigation"),
    Rule({}, {"option"}, "safe_expand"),
    Rule({"navigation"}, {"link"}, "safe_navigation")>>

Passes(look, rule) == rule.words \cap look.words # {} \/ rule.marks \cap look.marks # {}

ClassifyAction(look) ==
    LET passed == {n \in DOMAIN Rules : Passes(look, Rules[n])}
    IN  IF passed = {} THEN "unknown" ELSE Rules[CHOOSE n \in passed : \A k \in passed : n <= k].class

IsParkingLotAction(class) == class \in {"requires_manual_confirmation", "blocked_destructive", "unknown"}
=============================================================================
