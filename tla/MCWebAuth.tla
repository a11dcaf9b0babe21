------------------------------ MODULE MCWebAuth ------------------------------
(* A bounded instance of WebAuth for TLC. *)
EXTENDS WebAuth

\* For the one set of roles the entries of the first route agree, and those of
\* the second do not.
Agreeing ==
  [roles |-> {"r1", "r4"},
   extras |-> <<[role |-> "r1", values |-> {<<"k", 1>>}],
                [role |-> "r2", values |-> {<<"k", 1>>, <<"j", 1>>}]>>]
Disagreeing ==
  [roles |-> {"r2"},
   extras |-> <<[role |-> "r2", values |-> {<<"j", 1>>}],
                [role |-> "r3", values |-> {<<"k", 1>>}],
                [role |-> "r1", values |-> {<<"j", 2>>}]>>]
TwoRoutes == {Agreeing, Disagreeing}

Claims == {{"r1", "r2"}}

Calls ==
  {[route |-> Agreeing, method |-> "GET", origin |-> "app", bearer |-> None],
   [route |-> Disagreeing, method |-> "GET", origin |-> "app", bearer |-> None],
   [route |-> Agreeing, method |-> "GET", origin |-> None, bearer |-> "token"],
   [route |-> Agreeing, method |-> "OPTIONS", origin |-> "other", bearer |-> None]}

Lists == {None, {"app"}}
Symmetry == Permutations(Tabs) \union Permutations(Codes) \union Permutations(Sessions)
=============================================================================
