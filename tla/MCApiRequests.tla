--------------------------- MODULE MCApiRequests ---------------------------
(* Requests for TLC: for each handler its path with a word for each path     *)
(* parameter, and no query parameter, or one of those it documents or        *)
(* declares, written as documented.                                          *)
EXTENDS ApiRequests

\* The word is no integer, and one where an integer is wanted.
PathsOf(h) ==
    {[i \in DOMAIN h.path |-> IF h.path[i] = "*" THEN word ELSE h.path[i]] :
        word \in IF h.integers = {} THEN {"x"} ELSE {"x", "7"}}

\* sort_by of the tokens and of the supply is declared without its values.
WordsOf(h, p) ==
    CASE p = "sort_order" -> {"ASC", "DESC"}
      [] p = "sort_by" /\ h = GetTokens -> {"name", "denom"}
      [] p = "sort_by" /\ h = GetSupply -> {"denom", "amount", "height"}
      [] p = "module" -> {"bank", "gov"}
      [] p = "direction" -> {"sent", "both"}
      [] OTHER -> {"x"}

\* Numbers at both ends of what is documented, and one beyond.
Examples(h, p) ==
    IF p \notin DOMAIN h.dto THEN {WrittenWord("x")}
    ELSE LET field == h.dto[p] IN
      CASE field.check = "int" /\ p = "limit" -> {WrittenNumber(n) : n \in {0, 1, 100, 1000}}
        [] field.check = "int" /\ p # "limit" ->
               {WrittenNumber(Max({field.min, 0})), WrittenNumber(Min({field.max, 7}))}
        [] field.check = "word" -> {WrittenWord(w) : w \in field.words}
        [] field.check = "date" -> {WrittenDate}
        [] field.check = "list" -> {WrittenTwice, WrittenWord("x")}
        [] field.check \in {"boolean", "flag"} -> {WrittenWord("true"), WrittenWord("false")}
        [] OTHER -> {WrittenWord(w) : w \in WordsOf(h, p)}

\* A relative date is its value and its unit.
RelativeDate ==
    [relative_value |-> WrittenNumber(7), relative_unit |-> WrittenWord("days")]

Givens(h) ==
    LET names == h.documented \cup DOMAIN h.dto
    IN  {<< >>} \cup {p :> e : <<p, e>> \in UNION {{p} \X Examples(h, p) : p \in names}}
        \cup (IF "relative_value" \in DOMAIN h.dto THEN {RelativeDate} ELSE {})
        \cup {[page |-> WrittenNumber(3)] @@ [limit |-> WrittenNumber(5)] :
                 n \in DOMAIN h.dto \cap {"page"}}
        \cup (IF {"cursor", "offset"} \subseteq DOMAIN h.dto
               THEN {[cursor |-> WrittenNumber(3), offset |-> WrittenNumber(5)]} ELSE {})
        \cup (IF {"cursor", "sort_by"} \subseteq DOMAIN h.dto
               THEN {[cursor |-> WrittenNumber(3), sort_by |-> WrittenWord(w)] :
                        w \in h.dto["sort_by"].words}
               ELSE {})

RequestsOf(i) ==
    {[path |-> path, given |-> given, serving |-> i] :
        path \in PathsOf(Handlers[i]), given \in Givens(Handlers[i])}
EveryRequest == UNION {RequestsOf(i) : i \in DOMAIN Handlers}

\* What the theorems about requests suppose of them holds of these.
ASSUME RequestsDocumented ==
    PathsAsDocumented /\ ParametersAsDocumented /\ ValuesAsDocumented
=============================================================================
