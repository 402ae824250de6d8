---------------------------- MODULE ReportResult ----------------------------
(***************************************************************************)
(* What the Go code of a check produces, and the helpers all checks share: *)
(* src/pghrep/internal/checkup/checkuputil.go.                             *)
(*                                                                         *)
(* A message is the tuple of the values it is printed with; the wording is *)
(* left out.  A Go map is a function.  A `range` over a map visits the     *)
(* keys in an order that the run time picks anew each time: the operators  *)
(* of the checks take that order as a sequence of hosts, and the actions   *)
(* choose it among Orders.                                                 *)
(***************************************************************************)
EXTENDS Integers, FiniteSets, FiniteSetsExt, Sequences, SequencesExt, Sublist

\* The results of a report: a map from hosts to what the check collected.
HostMap(Host, Data) == UNION {[H -> Data] : H \in SUBSET Host}

Orders(map) == SetToSeqs(DOMAIN map)

\* A map of a JSON file, whose values have that form.
IsMap(map, Values) == IsFiniteSet(DOMAIN map) /\ Range(map) \subseteq Values

\* A loop over `order` from `start`: Turn is what one pass makes of what the loop
\* keeps.
Loop(Turn(_, _), start, order) ==
  LET kept[i \in 0 .. Len(order)] ==
        IF i = 0 THEN start ELSE Turn(kept[i - 1], order[i])
  IN  kept[Len(order)]

-----------------------------------------------------------------------------
NoResult == [P1 |-> FALSE, P2 |-> FALSE, P3 |-> FALSE,
             Conclusions |-> <<>>, Recommendations |-> <<>>]

Priority == {"P1", "P2", "P3"}

\* result.P1 = true
Raise(result, p) == [result EXCEPT ![p] = TRUE]

Item(id, message) == [Id |-> id, Message |-> message]

\* A message without arguments, and the empty message.
Text == <<"text">>
NoText == <<>>

AppendConclusion(result, id, message) ==
  [result EXCEPT !.Conclusions = Append(@, Item(id, message))]

\* Seeded fault: empty recommendations are recorded.
AppendAlways(result, id, message) ==
  [result EXCEPT !.Recommendations = Append(@, Item(id, message))]

\* An empty recommendation is not recorded.
AppendRecommendation(result, id, message) ==
  IF message = NoText THEN result
  ELSE [result EXCEPT !.Recommendations = Append(@, Item(id, message))]

ResultInList(items, id) == \E i \in DOMAIN items : items[i].Id = id

\* What the items of that id say.
Messages(items, id) == {items[i].Message : i \in {j \in DOMAIN items : items[j].Id = id}}

-----------------------------------------------------------------------------
RECOMMENDATION_ITEMS_LIMIT == 5
MSG_ETC_ITEM == "etc."

\* Seeded fault: the mark is dropped.
LimitListSilently(list) ==
  IF Len(list) > RECOMMENDATION_ITEMS_LIMIT + 1
  THEN SubSeq(list, 1, RECOMMENDATION_ITEMS_LIMIT)
  ELSE list

\* Six items are printed: the sixth takes no more room than the mark.
LimitList(list) ==
  IF Len(list) > RECOMMENDATION_ITEMS_LIMIT + 1
  THEN Append(SubSeq(list, 1, RECOMMENDATION_ITEMS_LIMIT), MSG_ETC_ITEM)
  ELSE list

\* The distinct values of a list; their order, that of a map, is left out.
GetUniques(list) == ToSet(list)

\* The names GetMasterHostName may return: a master if there is one, else
\* any host, and "" if there is no host at all.
GetMasterHostName(roles) ==
  LET masters == {h \in DOMAIN roles : roles[h] = "master"}
  IN IF masters # {} THEN masters
     ELSE IF DOMAIN roles # {} THEN DOMAIN roles
     ELSE {""}

\* The ids of the items, the smallest value first, or the largest; `value` maps
\* the ids to what they are sorted by.
SortItems(value, reverse) ==
  LET Ahead(a, b) == IF reverse THEN value[a] >= value[b] ELSE value[a] <= value[b]
      First(ids) == CHOOSE id \in ids : \A other \in ids : Ahead(id, other)
      rest[i \in 0 .. Cardinality(DOMAIN value)] ==
        IF i = 0 THEN DOMAIN value ELSE rest[i - 1] \ {First(rest[i - 1])}
  IN [i \in 1 .. Cardinality(DOMAIN value) |-> First(rest[i - 1])]

\* SortItemsByInt keeps one of the items that share a number: the queries of
\* the checks number their rows, so no two items have the same Num.
GetItemsSortedByNum(items) == SortItems([id \in DOMAIN items |-> items[id].Num], FALSE)

\* Equal values are told apart by a factor of 1.000001: the items stay
\* neighbours, in either order.
SortItemsByFloat64(value, reverse) == SortItems(value, reverse)
=============================================================================
