---------------------------- MODULE WebShopEngine ---------------------------
(***************************************************************************)
(* The WebShop environment (recipes/webshop/env): the goals built from a   *)
(* catalogue, the pages an agent walks through and the reward of a         *)
(* purchase.  The server keeps no session: a request carries the goal and  *)
(* the EnvState the last response returned, so everything here is a        *)
(* function of the two.                                                    *)
(*                                                                         *)
(* Texts are values: an attribute is in a product's text or not, a query   *)
(* has a score for every product (BM25, or Lucene in full mode, external). *)
(* EnvState.last_action is left out, nothing reads it.                     *)
(***************************************************************************)
EXTENDS Loops, FiniteSets

CONSTANTS
    Catalogue,     \* the products, in the order of the file
    Queries,       \* what may be searched for; "" is any query without a word
    Score,         \* Score[query][product]: the index's score, an integer
    Alike(_, _),   \* fuzzy score of two option values, colours normalised, > 85
    PriceRange,    \* the rounded prices a full-mode goal may be limited by
    PageSize,      \* PRODUCT_WINDOW, products on a page
    TopK           \* search_top_k, products a search returns at most

Products == 1 .. Len(Catalogue)
Asins == {Catalogue[i].asin : i \in Products}
NoAsin == "no asin"
Subpages == {"description", "features", "reviews"}
Controls == Subpages \cup {"buy now", "back to search", "back to item", "next >", "< prev"}
Unlimited == 1000000

Values(raw) == UNION {ToSet(raw[i].values) : i \in DOMAIN raw}

Handful == 200

ProductType ==
    [asin : STRING, query : STRING, categories : SUBSET STRING, nouns : SUBSET STRING,
     text : SUBSET STRING, price : 0 .. Unlimited,
     options : Seq([name : STRING, values : Seq(STRING)]),
     wanted : SUBSET STRING, instructed : BOOLEAN,
     human : Seq([attributes : SUBSET STRING, options : Seq(STRING), instructed : BOOLEAN])]

(***************************************************************************)
(* An option value reads like no control and no ASIN (step would take it   *)
(* for one of them), options have names (step knows no nameless one), and  *)
(* ASINs are unique and in upper case.  A goal asks for a handful of       *)
(* attributes and options: a success is a score of 0.999, which one        *)
(* missing of three hundred would still reach.                             *)
(***************************************************************************)
ASSUME CatalogueAssumption ==
    /\ Catalogue \in Seq(ProductType) /\ Catalogue # <<>>
    /\ \A i, j \in Products : Catalogue[i].asin = Catalogue[j].asin => i = j
    /\ \A i \in Products :
         /\ Values(Catalogue[i].options) \cap (Controls \cup Asins \cup {""}) = {}
         /\ \A k \in DOMAIN Catalogue[i].options : Catalogue[i].options[k].name # ""
    /\ Asins \cap (Controls \cup {NoAsin}) = {}
ASSUME GoalAssumption ==
    \A i \in Products :
        LET p == Catalogue[i]
        IN  /\ IsFiniteSet(p.nouns) /\ IsFiniteSet(p.wanted)
            /\ Cardinality(p.wanted) <= Handful /\ Len(p.options) <= Handful
            /\ \A h \in ToSet(p.human) :
                 IsFiniteSet(h.attributes) /\ Cardinality(h.attributes) + Len(h.options) <= Handful
ASSUME ScoreAssumption == Score \in [Queries -> [Products -> Int]] /\ PriceRange \subseteq Int
ASSUME WindowAssumption == PageSize \in Nat \ {0} /\ TopK \in Nat \ {0}

----------------------------------------------------------------------------
\* The catalogue and its goals.

Product(asin) == Catalogue[CHOOSE i \in Products : Catalogue[i].asin = asin]

\* Each value where it stands first.
Distinct(values) ==
    LET firsts == Among([i \in DOMAIN values |-> i],
                        {i \in DOMAIN values : \A j \in 1 .. i - 1 : values[j] # values[i]})
    IN  [k \in DOMAIN firsts |-> values[firsts[k]]]

\* normalize_options(raw, dedupe=True): options without values are dropped,
\* and of those with one name the last gives the values.
ValuesOfLast(kept) ==
    [k \in DOMAIN kept |->
       LET last == Max({i \in DOMAIN kept : kept[i].name = kept[k].name})
       IN  [name |-> kept[k].name, values |-> Distinct(kept[last].values)]]

Options == [asin \in Asins |->
    LET raw == Product(asin).options
    IN  Distinct(ValuesOfLast(Among(raw, {o \in ToSet(raw) : o.values # <<>>})))]

\* A value under two names belongs to the last of them.
OptionLookup == [asin \in Asins |->
    LET options == Options[asin]
    IN  [v \in Values(options) |->
           options[Max({i \in DOMAIN options : v \in ToSet(options[i].values)})].name]]

\* Every way to choose one value for each option name.
OptionCombos(asin) ==
    LET options == Options[asin]
        Names == {options[i].name : i \in DOMAIN options}
        ValuesOf(n) == UNION {ToSet(options[i].values) : i \in {k \in DOMAIN options : options[k].name = n}}
    IN  {c \in [Names -> Values(options)] : \A n \in Names : c[n] \in ValuesOf(n)}

BuildGoals ==
    UNION {{[full |-> FALSE, asin |-> p.asin, attributes |-> p.wanted, options |-> c,
             limit |-> (3 * p.price) \div 2 + 1] : c \in OptionCombos(p.asin)}
           : p \in {Catalogue[i] : i \in {k \in Products : Catalogue[k].instructed}}}

\* Four candidates above the price, two of them drawn, the larger one taken.
PriceUpper(price) ==
    LET Above == {x \in PriceRange : x > price}
        Candidates == {x \in Above : Cardinality({y \in Above : y < x}) < 4}
    IN  IF Cardinality(Candidates) < 2 THEN {Unlimited}
        ELSE {x \in Candidates : \E y \in Candidates : y < x}

HumanGoals ==
    UNION {UNION {{[full |-> TRUE, asin |-> p.asin, attributes |-> h.attributes,
                    options |-> h.options, limit |-> u] : u \in PriceUpper(p.price)}
                  : h \in {r \in ToSet(p.human) : r.attributes # {} /\ r.instructed}}
           : p \in {Catalogue[i] : i \in Products}}

\* A search ranks the products.  BM25 returns the first even when no product
\* scores, Lucene returns hits only; a query without a word finds nothing.
Before(query, i) ==
    {j \in Products : \/ Score[query][j] > Score[query][i]
                      \/ Score[query][j] = Score[query][i] /\ j < i}

Ranked == [query \in Queries |->
    [n \in Products |-> CHOOSE i \in Products : Cardinality(Before(query, i)) = n - 1]]

Search(goal, query) ==
    LET top == SubSeq(Ranked[query], 1, IF TopK < Len(Catalogue) THEN TopK ELSE Len(Catalogue))
        hits == Among(top, {i \in Products : Score[query][i] > 0})
    IN  IF query = "" THEN <<>>
        ELSE IF goal.full \/ hits # <<>> THEN hits ELSE SubSeq(top, 1, 1)

----------------------------------------------------------------------------
\* The reward of a purchase, as a task score in thousandths.

ScorePart(hits, all) == IF all = 0 THEN 1000 ELSE (1000 * hits) \div all

\* Small mode: the target itself, the attributes, the options and the price.
SmallScore(goal, state) ==
    LET item == Product(state.asin)
        found == goal.attributes \cap item.text
        chosen == {n \in DOMAIN goal.options :
                     n \in DOMAIN state.options /\ state.options[n] = goal.options[n]}
        target == IF item.asin = goal.asin THEN 1 ELSE 0
        score == 350 * target
                 + (300 * ScorePart(Cardinality(found), Cardinality(goal.attributes))) \div 1000
                 + (250 * ScorePart(Cardinality(chosen), Cardinality(DOMAIN goal.options))) \div 1000
                 + IF item.price <= goal.limit THEN 100 ELSE 0
    IN  IF target = 1 THEN score ELSE score \div 2

\* Full mode: any product of the right type will do, the more alike the better.
TypeScore(goal, item) ==
    LET wanted == Product(goal.asin)
        common == Cardinality(item.nouns \cap wanted.nouns)
        title == IF wanted.nouns = {} THEN 200 ELSE ScorePart(common, Cardinality(wanted.nouns))
    IN  CASE title = 0  -> 0
          [] title \in 1 .. 99 -> 100
          [] title >= 100 /\ \/ item.query = wanted.query
                             \/ Cardinality(item.categories \cap wanted.categories) >= 2
                             \/ title > 200 -> 1000
          [] OTHER -> 500

FullScore(goal, state) ==
    LET item == Product(state.asin)
        attributes == goal.attributes \cap item.text
        selected == {state.options[n] : n \in DOMAIN state.options}
        options == {k \in DOMAIN goal.options : \E v \in selected : Alike(v, goal.options[k])}
        hits == Cardinality(attributes) + Cardinality(options)
                + IF item.price <= goal.limit THEN 1 ELSE 0
        all == Cardinality(goal.attributes) + Len(goal.options) + 1
    IN  (TypeScore(goal, item) * hits) \div all

TaskScore(goal, state) ==
    CASE state.asin = NoAsin -> 0
      [] state.asin # NoAsin /\ goal.full -> FullScore(goal, state)
      [] OTHER -> SmallScore(goal, state)

Success(goal, state) == TaskScore(goal, state) >= 999

----------------------------------------------------------------------------
\* The pages.

Home == [page |-> "home", query |-> "", pageNum |-> 0, asin |-> NoAsin,
         subpage |-> "", options |-> <<>>]

OnPage(results, n) == SubSeq(results, n * PageSize + 1,
    IF (n + 1) * PageSize < Len(results) THEN (n + 1) * PageSize ELSE Len(results))

\* What is put on the screen: _render_current, or the end of the episode.
View(goal, state) ==
    CASE state.page = "search_results" ->
           <<"results", state.query, state.pageNum,
             OnPage(Search(goal, state.query), state.pageNum)>>
      [] state.page = "item" /\ state.asin # NoAsin -> <<"product", state.asin, state.options>>
      [] state.page = "subpage" /\ state.asin # NoAsin -> <<"subpage", state.asin, state.subpage>>
      [] state.page = "done" -> <<"done">>
      [] OTHER -> <<"home">>

\* The click targets available_actions lists; search[...] is always there.
AvailableActions(goal, state) ==
    LET results == Search(goal, state.query)
    IN  CASE state.page = "search_results" ->
               {Catalogue[i].asin : i \in ToSet(OnPage(results, state.pageNum))}
               \cup {t \in {"< prev"} : state.pageNum > 0}
               \cup {t \in {"next >"} : (state.pageNum + 1) * PageSize < Len(results)}
          [] state.page = "item" /\ state.asin # NoAsin ->
               Subpages \cup Values(Options[state.asin]) \cup {"back to search", "buy now"}
          [] state.page = "subpage" /\ state.asin # NoAsin ->
               {"back to item", "back to search", "buy now"}
          [] OTHER -> {}

SearchFor(query) == [verb |-> "search", of |-> query]
Click(target) == [verb |-> "click", of |-> target]
Garbled == [verb |-> "", of |-> ""]

Unavailable == [Home EXCEPT !.page = "unavailable"]

Shown(state) == [state EXCEPT !.page = "item", !.subpage = ""]

\* Defects: options that outlive their product; one option at a time.
OpenedKeeping(state, asin) == [Shown(state) EXCEPT !.asin = asin]
ChosenAlone(state, value) ==
    [Shown(state) EXCEPT !.options = [n \in {OptionLookup[state.asin][value]} |-> value]]

Opened(state, asin) == [Shown(state) EXCEPT !.asin = asin, !.options = <<>>]
Chosen(state, value) ==
    LET name == OptionLookup[state.asin][value]
        names == DOMAIN state.options \cup {name}
    IN  [Shown(state) EXCEPT !.options =
           [n \in names |-> IF n = name THEN value ELSE state.options[n]]]

\* What a click makes of the state, in the order step tries the targets.
Clicked(state, target) ==
    CASE target = "buy now" -> [state EXCEPT !.page = "done"]
      [] target = "back to search" ->
           [state EXCEPT !.page = IF state.query # "" THEN "search_results" ELSE "home",
                         !.subpage = ""]
      [] target = "back to item" -> IF state.asin # NoAsin THEN Shown(state) ELSE state
      [] target = "next >" /\ state.page = "search_results" -> [state EXCEPT !.pageNum = @ + 1]
      [] target = "< prev" /\ state.page = "search_results" ->
           [state EXCEPT !.pageNum = IF @ > 0 THEN @ - 1 ELSE 0]
      [] target \in Asins -> Opened(state, target)
      [] target \in Subpages /\ state.asin # NoAsin ->
           [state EXCEPT !.page = "subpage", !.subpage = target]
      [] state.asin # NoAsin /\ target \in Values(Options[state.asin]) ->
           Chosen(state, target)
      [] OTHER -> Unavailable

NewState(state, command) ==
    CASE command.verb = "search" ->
           [state EXCEPT !.page = "search_results", !.query = command.of, !.pageNum = 0,
                         !.asin = NoAsin, !.subpage = ""]
      [] command.verb = "click" -> Clicked(state, command.of)
      [] OTHER -> Unavailable

\* A command that is malformed or clicks what is not there changes nothing.
Denied(state, command) == NewState(state, command) = Unavailable
After(state, command) == IF Denied(state, command) THEN state ELSE NewState(state, command)

Answer(goal, after, denied) ==
    [state |-> after, error |-> denied, done |-> after.page = "done",
     score |-> IF after.page = "done" THEN TaskScore(goal, after) ELSE 0,
     success |-> after.page = "done" /\ Success(goal, after),
     view |-> View(goal, after), menu |-> AvailableActions(goal, after)]

Step(goal, state, command) == Answer(goal, After(state, command), Denied(state, command))
=============================================================================
