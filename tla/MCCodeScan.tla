----------------------------- MODULE MCCodeScan -----------------------------
(***************************************************************************)
(* Source trees and lock files for TLC.                                    *)
(***************************************************************************)
EXTENDS CodeScan, MCImports

ModelRules == "stripe-test" :> 1 @@ "aws" :> 3 @@ "generic" :> 2

Hit(rule, value) == [rule |-> rule, value |-> value, random |-> TRUE, placeholder |-> FALSE]
Stripe == Hit("stripe-test", {"s"})
Aws == Hit("aws", {"s", "t"})
Assigned(value) == Hit("generic", value)

File(name, lines) == [name |-> name, lines |-> lines, size |-> 1, inside |-> TRUE,
                      skipped |-> FALSE, text |-> TRUE]

ModelLines ==
    {<< <<Stripe, Assigned({"s", "t"})>>, <<Assigned({"u"}), Assigned({"u", "v"})>> >>,
     << <<Stripe, Aws, Stripe>>, << >> >>,
     << <<[Stripe EXCEPT !.random = FALSE], [Assigned({"u"}) EXCEPT !.placeholder = TRUE]>> >>}

ModelFiles ==
    {File("f", lines) : lines \in ModelLines}
    \union {[File("g", << <<Aws>> >>) EXCEPT !.size = 3],
            [File("g", << <<Aws>> >>) EXCEPT !.inside = FALSE],
            [File("g", << <<Aws>> >>) EXCEPT !.text = FALSE]}

Tree(archive, files) == [archive |-> archive, corrupt |-> FALSE, files |-> files]
Three == <<File("f", << >>), File("g", << >>), File("h", << >>)>>

\* Two files, which may have one name; single files; three files, too many.
ModelTrees ==
    {Tree(TRUE, <<f, [g EXCEPT !.name = name]>>) :
        f \in ModelFiles, g \in ModelFiles, name \in {"f", "g"}}
    \union {Tree(FALSE, <<f>>) : f \in ModelFiles}
    \union {[Tree(TRUE, Three) EXCEPT !.corrupt = corrupt] : corrupt \in BOOLEAN}
    \union {[Tree(TRUE, << >>) EXCEPT !.corrupt = TRUE]}

Entry(names, version) == [names |-> names, version |-> version, root |-> FALSE]

ModelLockfiles ==
    {[format |-> format, corrupt |-> corrupt,
      entries |-> {Entry({"p"}, "1"), Entry({"p", "q"}, "2"), Entry({"q"}, "none"),
                   [Entry({"q"}, "1") EXCEPT !.root = TRUE]}] :
        format \in {"yarn", "unknown"}, corrupt \in BOOLEAN}

ModelAdvisories ==
    [name |-> "p", version |-> "1"] :> <<"i", "j">> @@
    [name |-> "q", version |-> "2"] :> <<"j", "k">> @@
    [name |-> "q", version |-> "1"] :> <<"k">>
ModelDetails ==
    "i" :> [label |-> Word(1), score |-> 90] @@
    "j" :> [label |-> Blank, score |-> 75] @@
    "k" :> [label |-> Word(4), score |-> -1]

=============================================================================
