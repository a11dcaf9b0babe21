---------------------------- MODULE ErrorResolver ----------------------------
(***************************************************************************)
(* The mapping of errors to API errors (src/httpserver/respond): an entry  *)
(* binds a sentinel to a status, and an error is answered with the first   *)
(* entry whose sentinel it is.                                             *)
(***************************************************************************)
EXTENDS Integers, SequencesExt

CONSTANTS
  NilErr, \* an entry without a sentinel
  Sentinels, \* what entries bind, NilErr among them
  IsErr   \* the pairs of an error and a sentinel for which errors.Is holds

VARIABLES entries, fallback

resolverVars == <<entries, fallback>>

Err == [err : Sentinels, status : Int, ok : BOOLEAN]

Is(err, sentinel) == <<err, sentinel>> \in IsErr

\* validate; ok stands for a code and a message that are not empty.
Validate(e) == e.err # NilErr /\ e.ok /\ (e.status # 0 => e.status \in 100..599)

\* Mutant: a zero status is kept.
Normalized_Raw(e) == e
\* A zero Status becomes 500.
Normalized(e) ==
  [err |-> e.err, status |-> IF e.status = 0 THEN 500 ELSE e.status, ok |-> e.ok]

\* aliasLocked
Alias(list, err) == \E i \in DOMAIN list : Is(err, list[i].err) /\ Is(list[i].err, err)

\* Mutant: the batch is checked first, against what was registered before it.
Added_CheckedFirst(list, batch) ==
  IF \A i \in DOMAIN batch : Validate(batch[i]) /\ ~Alias(list, batch[i].err)
  THEN [list |-> list \o [i \in DOMAIN batch |-> Normalized(batch[i])], failed |-> FALSE]
  ELSE [list |-> list, failed |-> TRUE]

\* AddEntries, which stops at the first bad entry and keeps those before it.
Added(list, batch) ==
  LET bad == {i \in DOMAIN batch : \/ ~Validate(batch[i])
                                   \/ Alias(list \o SubSeq(batch, 1, i - 1), batch[i].err)}
      kept == IF bad = {} THEN batch ELSE SubSeq(batch, 1, Min(bad) - 1)
  IN [list |-> list \o [i \in DOMAIN kept |-> Normalized(kept[i])], failed |-> bad # {}]

AddEntries(batch) ==
  /\ entries' = Added(entries, batch).list
  /\ UNCHANGED fallback

SetFallback(e) ==
  /\ fallback' = IF Validate(e) THEN Normalized(e) ELSE fallback
  /\ UNCHANGED entries

\* Mutant: the entry registered last wins.
Lookup_Last(list, err) == SelectLastInSeq(list, LAMBDA e : Is(err, e.err))
\* Lookup: the index of the first entry that matches, or 0.
Lookup(list, err) == SelectInSeq(list, LAMBDA e : Is(err, e.err))

\* No two entries are equivalent: one of them would never be answered
\* (error_resolver.go:87-110; README.md:150: a duplicate is "a loud startup
\* failure rather than a silently shadowed entry").
NoAliases ==
  \A i, j \in DOMAIN entries :
    i # j => ~(Is(entries[i].err, entries[j].err) /\ Is(entries[j].err, entries[i].err))
=============================================================================
