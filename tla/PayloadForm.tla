----------------------------- MODULE PayloadForm -----------------------------
(***************************************************************************)
(* The builder of a trigger's payload transformation: a form for the       *)
(* fields it keeps, the conditions it filters by and its reduction, and a  *)
(* tab with the same value as JSON. Every edit of the form parses the      *)
(* filter into rows, changes a row and writes all the rows again; the      *)
(* parts of the filter that are no row are gone then. The reading knows no *)
(* quotes: an AND or a parenthesis counts in a quoted text as outside one. *)
(***************************************************************************)
EXTENDS Integers, FiniteSets, Sequences, SequencesExt

CONSTANTS
    PayFields,       \* names of fields
    JsonFilters,     \* filters that the user writes in the JSON tab
    MaxClauses,      \* bound: the parts of a filter
    MaxLayers        \* bound: the parentheses counted around a list, the backslashes before a quote mark
ASSUME PayAssumption ==
    /\ \A f \in PayFields : f \notin {"", "odd"}
    /\ MaxClauses \in Nat /\ MaxLayers \in Nat \ {0}

VARIABLES
    dsl,             \* the value: the fields kept, the filter and the reduction
    jsonText,        \* the text of the JSON tab, as the value it stands for
    jsonMode,        \* the JSON tab is shown, not the form
    jsonError,
    mapDraft         \* the field typed but not added
payVars == <<dsl, jsonText, jsonMode, jsonError, mapDraft>>

(* A part of the filter between two ANDs: a comparison ("=" stands for all), a list or a test for null, or "odd",
   which the form cannot read: a parenthesis, a name with other characters. What is compared with:
   a number; a literal, which is true, false or null; a word, which is a quoted text; quoted digits; a quoted
   literal; an apostrophe, which is a quoted text with escaped quote marks in it; "bare", an unquoted name or an
   expression; "opens", the same with a quote mark in it, as the half of a quoted text that holds an AND.
   The layers are the parentheses around a list, or the backslashes before each quote mark of an apostrophe.
   The depth is 1 if the text opens a parenthesis that it does not close, -1 if it closes one more. *)
Clause(field, op, text, layers, depth) == [field |-> field, op |-> op, text |-> text, layers |-> layers, depth |-> depth]
OddClause == Clause("odd", "=", "bare", 0, 0)
Depths == {-1, 0, 1}
Clauses ==
    [field : PayFields, op : {"="}, text : {"number", "literal", "digits", "quotedLiteral", "bare", "opens"},
     layers : {0}, depth : {0}]
        \cup [field : PayFields, op : {"="}, text : {"word"}, layers : {0}, depth : Depths]
        \cup [field : PayFields, op : {"="}, text : {"apostrophe"}, layers : 0 .. MaxLayers, depth : Depths]
        \cup [field : PayFields, op : {"IS NULL"}, text : {"none"}, layers : {0}, depth : {0}]
        \cup [field : PayFields, op : {"IN"}, text : {"list"}, layers : 1 .. MaxLayers, depth : Depths]
        \cup [field : {"odd"}, op : {"="}, text : {"bare"}, layers : {0}, depth : Depths]
ASSUME FiltersAssumption == JsonFilters \subseteq SeqOf(Clauses, MaxClauses)
NoReduce == [op |-> "none", field |-> ""]
DSLConfig == [map : SUBSET PayFields, filter : SeqOf(Clauses, MaxClauses),
              reduce : {NoReduce} \cup [op : {"sum", "count"}, field : PayFields \cup {""}]]
NotJson == [map |-> {}, filter |-> <<OddClause>>, reduce |-> [op |-> "none", field |-> "odd"]]

PayTypeOK ==
    /\ dsl \in DSLConfig /\ jsonText \in DSLConfig \cup {NotJson}
    /\ jsonMode \in BOOLEAN /\ jsonError \in BOOLEAN
    /\ mapDraft \in PayFields \cup {""}
    \* What is typed as JSON and not applied is gone with the next edit of the form.
    /\ jsonMode => mapDraft = ""

-----------------------------------------------------------------------------
(* The members of S in a sequence, in their order: SelectSeq, as a function. *)
Only(s, S) ==
    LET only[n \in 0 .. Len(s)] ==
            IF n = 0 THEN <<>> ELSE IF s[n] \in S THEN Append(only[n - 1], s[n]) ELSE only[n - 1]
    IN  only[Len(s)]

(* A part ends at an AND where as many parentheses are closed as opened. One that is left open swallows the
   conditions behind it, with their quote marks, up to where it is closed, or to the end. *)
Count(filter, n, d) == Cardinality({j \in 1 .. n : filter[j].depth = d})
Balanced(filter, n) == Count(filter, n, 1) = Count(filter, n, -1)
Joined(filter, k) == [filter[k] EXCEPT !.text = IF @ = "word" THEN "apostrophe" ELSE @,
                          !.depth = IF \E n \in k + 1 .. Len(filter) : Balanced(filter, n) THEN 0 ELSE @]
\* What is swallowed is no part of its own.
splitTopAnd(filter) ==
    [k \in DOMAIN filter |->
        IF ~Balanced(filter, k - 1) THEN OddClause
        ELSE IF filter[k].depth = 0 \/ k = Len(filter) THEN filter[k] ELSE Joined(filter, k)]

(* The rows of a filter. A row may be without a field, and keeps a value that its comparison does not use. An
   apostrophe is shown with its backslashes. "half" is a value as typed, up to an AND or from there on. *)
ConditionRows == [field : PayFields \cup {"", "odd"}, op : {"=", "IN", "IS NULL"},
         text : {"number", "literal", "word", "apostrophe", "half", "none", "list"},
         layers : 0 .. MaxLayers, depth : Depths]
stripQuotes(c) ==
    [c EXCEPT !.text = CASE @ = "digits" -> "number" [] @ = "quotedLiteral" -> "literal" [] @ = "bare" -> "word"
                         [] @ = "opens" -> "apostrophe" [] OTHER -> @]
parseFilter(filter) ==
    LET rows == Only(splitTopAnd(filter), {c \in Clauses : c.field # "odd"})
    IN  [i \in DOMAIN rows |-> stripQuotes(rows[i])]
\* Mutant: every value is quoted.
AlwaysQuoted(text) == CASE text = "apostrophe" -> text [] text = "half" -> "opens" [] OTHER -> "word"
\* A number stays one, true, false and null too, and anything else is quoted.
Quoted(text) ==
    CASE text \in {"number", "literal", "apostrophe"} -> text [] text = "half" -> "opens" [] OTHER -> "word"
\* A list is put between parentheses, those it has included, and a backslash before every quote mark.
OneMore(n) == IF n < MaxLayers THEN n + 1 ELSE MaxLayers
Written(r) ==
    CASE r.op = "=" -> Clause(r.field, "=", Quoted(r.text), IF r.text = "apostrophe" THEN OneMore(r.layers) ELSE 0,
                              IF Quoted(r.text) \in {"word", "apostrophe"} THEN r.depth ELSE 0)
      [] r.op = "IN" -> Clause(r.field, "IN", "list", OneMore(r.layers), r.depth)
      [] r.op = "IS NULL" -> Clause(r.field, "IS NULL", "none", 0, 0)
\* A row without a field is left out.
serialiseFilter(rows) ==
    LET named == Only(rows, {r \in ConditionRows : r.field # ""})
    IN  [i \in DOMAIN named |->
            IF named[i].field = "odd" THEN [OddClause EXCEPT !.depth = named[i].depth] ELSE Written(named[i])]

(* Every change is the value from now on, and the text of the JSON tab. *)
onChange(next) == dsl' = next /\ jsonText' = next
onForm(next) == ~jsonMode /\ onChange(next) /\ UNCHANGED <<jsonMode, jsonError>>
setConditions(rows) == onForm([dsl EXCEPT !.filter = serialiseFilter(rows)])

-----------------------------------------------------------------------------
setMode ==
    /\ jsonMode' = ~jsonMode /\ mapDraft' = ""
    /\ UNCHANGED <<dsl, jsonText, jsonError>>
setDraft ==
    /\ ~jsonMode /\ \E f \in (PayFields \cup {""}) \ {mapDraft} : mapDraft' = f
    /\ UNCHANGED <<dsl, jsonText, jsonMode, jsonError>>
AddField ==
    /\ mapDraft # "" /\ mapDraft' = ""
    /\ onForm([dsl EXCEPT !.map = @ \cup {mapDraft}])
RemoveField ==
    /\ \E f \in dsl.map : onForm([dsl EXCEPT !.map = @ \ {f}])
    /\ UNCHANGED mapDraft

(* One row: its field, its comparison, its value (not that of IS NULL). A list has quote marks or has none. *)
RowEdits(r) ==
    {[r EXCEPT !.field = f] : f \in PayFields \cup {"", "odd"}}
        \cup {[r EXCEPT !.op = "IS NULL"], [r EXCEPT !.op = "IN", !.text = "list", !.layers = 0]}
        \cup {[r EXCEPT !.op = "=", !.text = t, !.layers = 0] :
                t \in CASE r.op = "=" -> {} [] r.op = "IN" -> {"word", "apostrophe"} [] r.op = "IS NULL" -> {"word"}}
        \cup (IF r.op = "=" THEN {[r EXCEPT !.text = t, !.layers = 0, !.depth = 0] :
                                    t \in {"number", "literal", "word", "apostrophe"}}
                                \cup {[r EXCEPT !.text = "word", !.layers = 0, !.depth = d] : d \in Depths} ELSE {})
        \cup (IF r.op = "IN" THEN {[r EXCEPT !.layers = 0, !.depth = d] : d \in Depths} ELSE {})
\* A value with an AND in it: the next reading takes what it finds behind the AND for a part of its own.
OtherHalf == [field : PayFields \cup {"odd"}, op : {"="}, text : {"half"}, layers : {0}, depth : {0}]
WithAnd(rows, i, half) ==
    SubSeq(rows, 1, i - 1) \o <<[rows[i] EXCEPT !.text = "half", !.layers = 0, !.depth = 0], half>>
        \o SubSeq(rows, i + 1, Len(rows))
update ==
    LET rows == parseFilter(dsl.filter)
    IN  /\ \E i \in DOMAIN rows :
               \/ \E r \in RowEdits(rows[i]) : setConditions([rows EXCEPT ![i] = r])
               \/ /\ rows[i].op = "=" /\ Len(rows) < MaxClauses
                  /\ \E half \in OtherHalf : setConditions(WithAnd(rows, i, half))
        /\ UNCHANGED mapDraft
RemoveRow ==
    LET rows == parseFilter(dsl.filter)
    IN  /\ \E i \in DOMAIN rows : setConditions(RemoveAt(rows, i))
        /\ UNCHANGED mapDraft
AddCondition ==
    /\ setConditions(Append(parseFilter(dsl.filter), Clause("", "=", "word", 0, 0)))
    /\ UNCHANGED mapDraft

\* None forgets the field; a count keeps it.
ReduceBuilder ==
    /\ \/ onForm([dsl EXCEPT !.reduce = NoReduce])
       \/ \E op \in {"sum", "count"} : onForm([dsl EXCEPT !.reduce = [op |-> op, field |-> dsl.reduce.field]])
       \/ /\ dsl.reduce.op = "sum"
          /\ \E f \in PayFields \cup {""} : onForm([dsl EXCEPT !.reduce.field = f])
    /\ UNCHANGED mapDraft

(* The JSON tab. *)
setJson ==
    /\ jsonMode
    /\ \/ jsonText' = NotJson
       \/ \E filter \in JsonFilters : jsonText' = [dsl EXCEPT !.filter = filter]
    /\ UNCHANGED <<dsl, jsonMode, jsonError, mapDraft>>
applyJson ==
    /\ jsonMode
    /\ IF jsonText = NotJson THEN jsonError' = TRUE /\ UNCHANGED <<dsl, jsonText>>
       ELSE jsonError' = FALSE /\ onChange(jsonText)
    /\ UNCHANGED <<jsonMode, mapDraft>>

-----------------------------------------------------------------------------
NewDSL == [map |-> {}, filter |-> <<>>, reduce |-> NoReduce]
PayInit == dsl = NewDSL /\ jsonText = NewDSL /\ jsonMode = FALSE /\ jsonError = FALSE /\ mapDraft = ""
PayNext ==
    \/ setMode \/ setDraft \/ AddField \/ RemoveField \/ update \/ RemoveRow \/ AddCondition \/ ReduceBuilder
    \/ setJson \/ applyJson
PaySpec == PayInit /\ [][PayNext]_payVars

-----------------------------------------------------------------------------
(* An edit of the form changes one condition at most, besides those it cannot write as they were read: parts
   that are no row, lists, quoted digits and literals, texts with quote marks, unquoted ones, and all from a
   parenthesis in a text that is not closed there. *)
Plain(c) == c.field # "odd" /\ c.text \in {"number", "literal", "word", "none"} /\ c.depth = 0
Faithful(filter, k) == Plain(filter[k]) /\ \A j \in 1 .. k - 1 : filter[j].depth = 0
OtherClausesKept ==
    [][ applyJson \/ \E e \in 0 .. MaxClauses : \A k \in DOMAIN dsl.filter \ {e} :
            Faithful(dsl.filter, k) => Contains(dsl'.filter, dsl.filter[k]) ]_payVars
=============================================================================
