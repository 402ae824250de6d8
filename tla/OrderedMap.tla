----------------------------- MODULE OrderedMap -----------------------------
(***************************************************************************)
(* A report is read, extended and written again by pghrep: the ordered     *)
(* maps of pghrep/internal/orderedmap/orderedmap.go, as                    *)
(* SaveJsonReportResults (checkup/checkuputil.go) and LoadJsonFile         *)
(* (reportutils/templates.go) use them.                                    *)
(*                                                                         *)
(* encoding/json yields the keys of an object and their values in no       *)
(* order.  mapStringToOrderedMap looks the text of every key up in the     *)
(* JSON text to find out where it stands; a key whose spelling is not the  *)
(* expected one is not found, and stays among the values only.             *)
(*                                                                         *)
(* A report has two levels here: its fields, whose names are plain, and    *)
(* the items of one host (its tables, its indexes), whose names come from  *)
(* the database.  A piece of text is a name and the way it is spelled.     *)
(* Delete, Sort and SortKeys are not used by pghrep.                       *)
(***************************************************************************)
EXTENDS Integers, Sequences, Functions, Sublist

CONSTANTS
  Key,       \* names of items
  ClassOf,   \* ClassOf[k]: what the name has: nothing special, one of < > &, a
             \* backslash or a control character, or a newline
  MaxItems,  \* bound: the items of a collection
  MaxSaves   \* bound: the saves between two collections

VARIABLES
  file,       \* the report: its fields, its items, and how they are spelled
  data,       \* what the templates get of the items
  collected,  \* the items of the last collection, in their order
  saves,      \* how often the report was saved since, as far as it matters
  said        \* whether the last save was able to write

mapVars == <<file, data, collected, saves, said>>

Class == {"plain", "angle", "backslash", "newline"}
Spelling == {"raw", "escaped", "html"}
Result == <<"processed", "conclusions", "recommendations", "p1", "p2", "p3">>
ItemText == [name : Key, spelling : Spelling]
Field == {"results"} \cup Range(Result)

ASSUME ClassAssumption == ClassOf \in [Key -> Class]
ASSUME BoundAssumption == MaxItems \in Nat /\ MaxSaves \in Nat

-----------------------------------------------------------------------------
\* jq escapes what JSON demands.
JqSpelling == [key \in Key |-> IF ClassOf[key] \in {"backslash", "newline"} THEN "escaped" ELSE "raw"]

\* Seeded fault: newlines of a name are not escaped before it is looked for.
SoughtRaw(key) == "raw"

\* kQuoted: quotes and newlines are escaped, nothing else.
Sought(key) == IF ClassOf[key] = "newline" THEN "escaped" ELSE "raw"

\* encoding/json compacts what the MarshalJSON of a nested map returns, and spells
\* < > & as \u003c \u003e \u0026.
MarshalSpelling == [key \in Key |-> IF ClassOf[key] = "angle" THEN "html" ELSE "raw"]

Spelled(name, spelling) == [name |-> name, spelling |-> spelling]

Written(keys, spelling) == [i \in DOMAIN keys |-> Spelled(keys[i], spelling[keys[i]])]

Names(text) == [i \in DOMAIN text |-> text[i].name]

Once(seq) == \A i, j \in DOMAIN seq : seq[i] = seq[j] => i = j

-----------------------------------------------------------------------------
\* keys: the names that were found, in their order.  values: all names.
mapStringToOrderedMap(text) ==
  [keys |-> Names(Sublist(text, {t \in ItemText : t.spelling = Sought(t.name)})),
   values |-> Range(Names(text))]

\* Seeded fault: a field that is already there is added again.
SetAgain(map, key) ==
  [map EXCEPT !.keys = Append(@, key), !.values = @ \cup {key}]

Set(map, key) ==
  IF key \in map.values THEN map
  ELSE [map EXCEPT !.keys = Append(@, key), !.values = @ \cup {key}]

\* MarshalJSON escapes quotes only: a newline in the name of a nested map breaks the
\* JSON, and the whole report fails to marshal.
Marshals(map) == \A key \in Range(map.keys) : ClassOf[key] # "newline"

MarshalJSON(map) == Written(map.keys, MarshalSpelling)

\* The fields of a report are plain, and MarshalJSON is called for it directly.
SetAll(fields) ==
  LET loaded == [keys |-> fields, values |-> Range(fields)]
      explained == Set(Set(Set(loaded, "processed"), "conclusions"), "recommendations")
  IN  Set(Set(Set(explained, "p1"), "p2"), "p3")

\* What a template finds: the items, and their names in order under "_keys".
ToInterfaceArray(map) == [_keys |-> map.keys, items |-> Range(map.keys) \cap map.values]

NotLoaded == [_keys |-> <<>>, items |-> {}]

-----------------------------------------------------------------------------
MapInit ==
  /\ file = [fields |-> <<"results">>, items |-> <<>>]
  /\ data = NotLoaded
  /\ collected = <<>>
  /\ saves = 0
  /\ said = TRUE

\* generate_report_json: jq replaces the results of the host, and writes all anew.
\* The run of pghrep that had loaded the report is over.
CollectHost ==
  \E n \in 0 .. MaxItems : \E items \in [1 .. n -> Key] :
    /\ Once(items)
    /\ file' = [file EXCEPT !.items = Written(items, JqSpelling)]
    /\ collected' = items
    /\ data' = NotLoaded
    /\ saves' = 0
    /\ UNCHANGED said

\* The same for another host: the items are only spelled anew.
CollectOther ==
  /\ file' = [file EXCEPT !.items = Written(Names(@), JqSpelling)]
  /\ data' = NotLoaded
  /\ UNCHANGED <<collected, saves, said>>

\* LoadJsonFile: the report is read for the templates.
LoadJsonFile ==
  /\ data' = ToInterfaceArray(mapStringToOrderedMap(file.items))
  /\ UNCHANGED <<file, collected, saves, said>>

\* SaveJsonReportResults: nothing is written if the report fails to marshal.
SaveJsonReportResults ==
  /\ saves < MaxSaves
  /\ LET map == mapStringToOrderedMap(file.items)
     IN /\ said' = Marshals(map)
        /\ IF Marshals(map)
           THEN file' = [fields |-> SetAll(file.fields).keys, items |-> MarshalJSON(map)]
           ELSE UNCHANGED file
  /\ saves' = saves + 1
  /\ UNCHANGED <<data, collected>>

MapNext == CollectHost \/ CollectOther \/ LoadJsonFile \/ SaveJsonReportResults

MapSpec == MapInit /\ [][MapNext]_mapVars

-----------------------------------------------------------------------------
\* Every variable has its type; a field or an item is there once.
MapTypeOK ==
  /\ file \in [fields : Seq(Field), items : Seq(ItemText)]
  /\ Once(file.fields) /\ Once(Names(file.items))
  /\ data \in [_keys : Seq(Key), items : SUBSET Key]
  /\ Range(data._keys) = data.items
  /\ collected \in Seq(Key)
  /\ saves \in 0 .. MaxSaves
  /\ said \in BOOLEAN

\* Items whose names are plain stay in the report, in the order they were collected,
\* however often it is saved; so do those with a newline, with which nothing is saved at
\* all.  One with < > & outlasts the first save, and the order of what is left
\* does not change (mapStringToOrderedMap, MarshalJSON).
NothingLost ==
  /\ \A k \in Range(collected) :
       k \notin Range(Names(file.items)) =>
         \/ ClassOf[k] = "backslash" /\ saves >= 1
         \/ ClassOf[k] = "angle" /\ saves >= 2
  /\ Names(file.items) = Sublist(collected, Range(Names(file.items)))
  /\ (\E k \in Range(collected) : ClassOf[k] = "newline") => Names(file.items) = collected
  /\ file.fields = <<"results">> \/ file.fields = <<"results">> \o Result
=============================================================================
