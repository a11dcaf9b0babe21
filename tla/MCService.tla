------------------------------ MODULE MCService ------------------------------
(* A bounded instance of Service for TLC. *)
EXTENDS Service

\* "special" wraps "generic"; "generic2" is the same error as "generic".
Matches ==
  {<<e, e>> : e \in {"generic", "special", "generic2", "tooLarge"}}
    \union {"generic", "generic2"} \X {"generic", "generic2"}
    \union {<<"special", "generic">>, <<"special", "generic2">>}

Entry(err, status) == [err |-> err, status |-> status, ok |-> TRUE]
First == <<Entry("special", 422), Entry("generic", 0)>>
Later == {<<Entry("tooLarge", 413), Entry("tooLarge", 400)>>,
          <<Entry("generic2", 400)>>, <<Entry("tooLarge", 99)>>}
Others == {Entry("other", 503), Entry("other", 0), [Entry("other", 503) EXCEPT !.ok = FALSE]}

\* The other replica may start again.
Starts == [r \in Replicas |-> IF r = Main THEN 1 ELSE 2]

AllFirst == [n \in Names |-> CHOOSE c \in Conns : TRUE]

Config(port, ssl, redirect, limit, tables) ==
  [port |-> port, host |-> "", ssl |-> ssl, cert |-> FALSE, redirect |-> redirect,
   json |-> FALSE, limit |-> limit, tables |-> tables]
Engines ==
  {Config(80, FALSE, TRUE, 1, FALSE), Config(80, TRUE, FALSE, 1, FALSE), Config(80, FALSE, FALSE, 0, TRUE)}

\* Rows 1..3 exist, row 4 may be inserted.
Rows == <<<<"a", "!">>, <<"b", "%">>, <<"!", "_">>, <<"a">>>>
Leaf(op, value) == Where(<<>>, op, value)[1]
Empty == [group |-> TRUE, op |-> "AND", value |-> <<>>, filters |-> <<>>]
Inner == Append(Where(<<Empty>>, "LIKE", <<"_">>), Leaf("<>", <<"a">>))
Either == WhereGroup(WhereGroup(Where(<<>>, "LIKE", <<"%">>), "AND", <<>>), "and", Inner)
AnyOf == WhereGroup(<<>>, "OR", Either)
Marked == Where(<<>>, "LIKE", <<"!">>)
AllFilters == ToSet(Marked) \union ToSet(AnyOf) \union ToSet(Either) \union ToSet(Inner)

Query(all, dir, number, perPage, filters, wanted) ==
  [all |-> all, dir |-> dir, page |-> [number |-> number, perPage |-> perPage],
   filters |-> filters, wanted |-> wanted]
Upwards == Query(TRUE, "", 0, 1, Marked, {r \in DOMAIN Rows : Contains(Rows[r], "!")})
Downwards == Query(TRUE, "desc", 1, 0, <<>>, DOMAIN Rows)
Pages ==
  {Query(FALSE, "asc", n, 9, AnyOf, {r \in DOMAIN Rows : Contains(Rows[r], "%") \/ Contains(Rows[r], "_")}) :
     n \in {1, 5}}
Trimmed(name) == IF name = " " THEN "" ELSE name
Folded(name) == IF name = "Sheet1" THEN "sheet1" ELSE name
Files ==
  {[query |-> Upwards, format |-> "xlsx", book |-> <<"", "notes">>],
   [query |-> Downwards, format |-> "csv", book |-> <<"", "notes">>],
   [query |-> Upwards, format |-> "xlsx", book |-> <<" ", "sheet1">>],
   [query |-> Upwards, format |-> "pdf", book |-> <<"">>]}
=============================================================================
