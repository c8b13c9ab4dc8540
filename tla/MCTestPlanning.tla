--------------------------- MODULE MCTestPlanning ---------------------------
(***************************************************************************)
(* The model-checking instance of TestPlanning: a shop with two routes and *)
(* a broken one, and a scan with nothing in it; the name of a page in the  *)
(* menu is a destructive word.  A provider answers with nothing, with one  *)
(* of its cases or with two of them; two cases say a label and a selector  *)
(* that are not of one control, or not of any.                             *)
(***************************************************************************)
EXTENDS TestPlanning

AnyText == STRING \cup {Absent}

Control(label, selector, kind) == [label |-> label, selector |-> selector, kind |-> kind, blocked |-> FALSE]
Shop == [parked |-> {"Export", "#wipe"},
         routes |-> <<[path |-> "/items", name |-> "Delete item", working |-> TRUE,
                       targets |-> <<Control("Delete item", "#delete", "text"), Control("Add to cart", "#add", "cart"),
                                     Control("Export", "#export", "text"), Control("Next page", "#next", "page")>>],
                      [path |-> "/old", name |-> "Old", working |-> FALSE, targets |-> <<Control("Total", "#total", "text")>>],
                      [path |-> "/cart", name |-> "Cart", working |-> TRUE,
                       targets |-> <<Control("Continue shopping", Absent, "return"), Control("Coupon", "#coupon", "input"),
                                     [Control("Order", "#order", "text") EXCEPT !.blocked = TRUE],
                                     Control("Wipe", "#wipe", "text")>>]>>]
TwoScans == {Shop, [parked |-> {}, routes |-> <<>>]}

CaseFor(id, stem, path, steps) ==
    [id |-> id, stem |-> stem, route |-> path, kind |-> "positive", by |-> "provider",
     textual |-> FALSE, steps |-> steps]
Own == <<0, "step">>
Good == CaseFor(TC(1), TC(1), "/items", <<Navigate("/items", Absent), Step("click", "/items", "Add to cart", "#add"),
                                           Step("assert_cart_count", "/items", Absent, Absent)>>)
Answers == {Good, [Good EXCEPT !.id = TC(2), !.stem = Own], [Good EXCEPT !.id = <<7, "LOGIN">>, !.stem = Own],
            [Good EXCEPT !.textual = TRUE], [Good EXCEPT !.route = "/cart"], [Good EXCEPT !.route = "/none"],
            CaseFor(TC(3), TC(3), "/old", <<Step("assert_visible", "/old", "Total", Absent)>>),
            CaseFor(TC(3), TC(3), "/items", <<Step("assert_visible", "/items", "Delete item", "#delete")>>),
            CaseFor(TC(3), TC(3), "/items", <<Step("click", "/items", "Next page", "#delete")>>),
            CaseFor(TC(3), TC(3), "/items", <<Step("type", "/items", "Amount", "#next")>>),
            CaseFor(TC(3), TC(3), "/items", <<Navigate("/items", "Delete item")>>),
            CaseFor(TC(3), TC(3), "/items", <<Step("hover", "/items", "Next page", "#next")>>),
            CaseFor(TC(3), TC(3), "/items", <<Step("type", "/items", Absent, Absent)>>)}
Twins == <<[Good EXCEPT !.id = TC(2), !.stem = Own], [Good EXCEPT !.id = <<7, "LOGIN">>, !.stem = Own]>>
\* A visit under an id of the user, with the step ids of another row or beside a second case with the id.
Visit(id, stem) == CaseFor(id, stem, "/cart", <<Navigate("/cart", Absent)>>)
Mixed == {<<Visit(<<7, "LOGIN">>, TC(1))>>, <<Visit(TC(2), Own), [Good EXCEPT !.id = TC(2)]>>}
AnswersUpToTwo == Mixed \cup {Twins} \cup {<<>>} \cup {<<a>> : a \in Answers} \cup {<<Good, a>> : a \in Answers} \cup {<<a, Good>> : a \in Answers}

SomeUploads ==
    {[format |-> "text", rows |-> <<>>],
     [format |-> "table", rows |-> <<[id |-> TC(1), route |-> "/cart"], [id |-> <<7, "LOGIN">>, route |-> Absent]>>],
     [format |-> "table", rows |-> <<[id |-> Absent, route |-> "/login"], [id |-> TC(4), route |-> "/cart"],
                                     [id |-> TC(4), route |-> "/items"]>>],
     [format |-> "json", rows |-> <<[id |-> <<7, "LOGIN">>, route |-> "/login"], [id |-> TC(2), route |-> "/items"],
                                    [id |-> Absent, route |-> "/cart"]>>],
     [format |-> "text", rows |-> <<[id |-> Absent, route |-> "/login"], [id |-> TC(5), route |-> "/cart"]>>]}
=============================================================================
