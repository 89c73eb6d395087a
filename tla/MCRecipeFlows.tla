---------------------------- MODULE MCRecipeFlows ----------------------------
(* HotpotQA: a question and one further query over three passages, one of   *)
(* which both find; the index also returns an id that the corpus lacks.     *)
(* WebShop: two products.  The mug comes in two dark colours, which         *)
(* normalise to the same word; of its two lists of sizes the last counts.   *)
(* The strap has a value under two option names.                            *)
EXTENDS RecipeFlows

MCCorpus == <<"first", "shared", "second">>
MCNearest == [q \in {"who", "where"} |-> IF q = "who" THEN <<0, 1, -1>> ELSE <<1, 2, 7>>]
MCLength == [t \in {"first", "shared", "second"} |->
               CASE t = "first" -> [chars |-> 4, tokens |-> 3]
                 [] t = "shared" -> [chars |-> 6, tokens |-> 2]
                 [] t = "second" -> [chars |-> 9, tokens |-> 9]]

Mug == [asin |-> "MUG", query |-> "mugs", categories |-> {"home", "kitchen"},
        nouns |-> {"mug", "coffee"}, text |-> {"sturdy"}, price |-> 10,
        options |-> <<[name |-> "size", values |-> <<"huge">>],
                      [name |-> "color", values |-> <<"dark red", "dark blue", "dark red">>],
                      [name |-> "size", values |-> <<"small">>]>>,
        wanted |-> {"sturdy"}, instructed |-> TRUE,
        human |-> <<[attributes |-> {"sturdy"}, options |-> <<"dark red">>, instructed |-> TRUE],
                    [attributes |-> {"sturdy"}, options |-> <<"dark red", "small", "dark blue">>,
                      instructed |-> TRUE],
                    [attributes |-> {}, options |-> <<>>, instructed |-> TRUE]>>]

Strap == [asin |-> "STRAP", query |-> "straps", categories |-> {"home"},
          nouns |-> {"strap"}, text |-> {"sturdy"}, price |-> 10,
          options |-> <<[name |-> "buckle", values |-> <<"black">>],
                        [name |-> "band", values |-> <<"black">>]>>,
          wanted |-> {}, instructed |-> TRUE, human |-> <<>>]

MCCatalogue == <<Mug, Strap>>
MCQueries == {"", "home"}
MCScore == [q \in MCQueries |-> [i \in {1, 2} |-> IF q = "home" THEN i ELSE 0]]
MCAlike(v, w) == v = w \/ {v, w} = {"dark red", "dark blue"}
MCPriceRange == {10, 20, 30}

\* Every ASIN, option value and control, but one subpage for the three.
MCClicks == {"MUG", "STRAP", "dark red", "dark blue", "huge", "small", "black"}
            \cup (Controls \ {"features", "reviews"})
=============================================================================
