----------------------------- MODULE ConfigStore -----------------------------
(***************************************************************************)
(* The configuration store of utils/config.c: a list of typed items, the   *)
(* text file it is saved to and loaded from, and the guess a load makes at *)
(* the type of a value.  Memory may run out in any call.                   *)
(***************************************************************************)
EXTENDS Naturals, Sequences

CONSTANTS ConfigKeys,
          Texts,    \* what strings and edited lines look like; see Looks
          MaxLines  \* bound on the lines of an edited file

VARIABLES items,      \* config->items, the head of the list first
          itemCount,
          configFile, \* "none", "path", or "garbage" after it was read once freed
          file,       \* the lines of the file
          inferred    \* history: every item has come from a load, and memory sufficed

configVars == <<items, itemCount, configFile, file, inferred>>

\* What a text looks like to the parsers: a number within int or beyond it, a
\* decimal fraction, one too small for %f, true or false, a word, a word with
\* blanks around it, and what %s prints for a NULL string.
Looks == {"int", "long", "fraction", "tiny", "bool", "word", "padded", "(null)"}

ASSUME ConfigAssumption == Texts \subseteq Looks /\ MaxLines \in Nat

Types == {"STRING", "INT", "LONG", "DOUBLE", "BOOL"}

\* The values a caller may give each setter.
Settable == [STRING |-> Texts, INT |-> {"int"}, LONG |-> {"int", "long"},
             DOUBLE |-> {"fraction", "tiny"}, BOOL |-> {"bool"}]

Missing == "NULL"

ConfigInit == /\ items = <<>> /\ itemCount = 0
              /\ configFile = "none" /\ file = <<>> /\ inferred = TRUE

-----------------------------------------------------------------------------
\* find_config_item: the position of the first item with the key, or 0.
FindItem(list, k) ==
  LET found == {i \in 1 .. Len(list) : list[i].key = k}
  IN  IF found = {} THEN 0 ELSE CHOOSE i \in found : \A j \in found : i <= j

\* Faulty variant of Stored: the item is not looked up first.
StoredBlind(list, k, tv) == <<[key |-> k, type |-> tv.type, value |-> tv.value]>> \o list

\* set_config_item when memory suffices: the item with the key is overwritten, type
\* and all, or a new one becomes the head.
Stored(list, k, tv) ==
  LET item == [key |-> k, type |-> tv.type, value |-> tv.value]
      i == FindItem(list, k)
  IN  IF i = 0 THEN <<item>> \o list ELSE [list EXCEPT ![i] = item]

\* The lists one call may leave behind: with a new key the item or the copy of the key
\* may not be allocated; the copy of a string may fail after the item was linked.
Outcomes(list, k, tv) ==
  {Stored(list, k, tv)}
    \cup (IF FindItem(list, k) = 0 THEN {list} ELSE {})
    \cup (IF tv.type = "STRING" THEN {Stored(list, k, [tv EXCEPT !.value = Missing])} ELSE {})

\* Faulty variant of Shown: a truth value is written as a number.
ShownNumeric(type, value) == IF type = "BOOL" THEN "int" ELSE IF value = "tiny" THEN "fraction" ELSE value

\* The text save_to_file prints for a value.
Shown(type, value) == CASE value = Missing -> "(null)"
                        [] type = "DOUBLE" -> "fraction"
                        [] OTHER -> value

\* The value of a line: xsan_parse_config_line strips the blanks.
Stripped(text) == IF text = "padded" THEN "word" ELSE text

\* What that is read as: int, long, double and bool are tried in this order.
Inferred(text) ==
  CASE text = "int" -> [type |-> "INT", value |-> text]
    [] text = "long" -> [type |-> "LONG", value |-> text]
    [] text \in {"fraction", "tiny"} -> [type |-> "DOUBLE", value |-> text]
    [] text = "bool" -> [type |-> "BOOL", value |-> text]
    [] OTHER -> [type |-> "STRING", value |-> Stripped(text)]

\* What a line may be taken for; xsan_str_to_bool needs memory to compare.
Guesses(text) == {Inferred(text)}
                   \cup (IF text = "bool" THEN {[type |-> "STRING", value |-> text]} ELSE {})

\* The list a load builds from lines when memory suffices, and all it may build.
LoadedExactly(lines) ==
  LET after[n \in 0 .. Len(lines)] ==
        IF n = 0 THEN <<>> ELSE Stored(after[n - 1], lines[n].key, Inferred(lines[n].text))
  IN  after[Len(lines)]

LoadedOutcomes(lines) ==
  LET after[n \in 0 .. Len(lines)] ==
        IF n = 0 THEN {<<>>}
        ELSE UNION {UNION {Outcomes(list, lines[n].key, tv) : tv \in Guesses(lines[n].text)} : list \in after[n - 1]}
  IN  after[Len(lines)]

SavedLines(list) == [i \in DOMAIN list |-> [key |-> list[i].key, text |-> Shown(list[i].type, list[i].value)]]

-----------------------------------------------------------------------------
\* The set functions.
ConfigSet(k, type, value) ==
  /\ \E list \in Outcomes(items, k, [type |-> type, value |-> value]) :
       items' = list /\ itemCount' = itemCount + Len(list) - Len(items)
  /\ inferred' = FALSE
  /\ UNCHANGED <<configFile, file>>

ConfigRemove(k) ==
  /\ FindItem(items, k) # 0
  /\ LET i == FindItem(items, k)
     IN  items' = SubSeq(items, 1, i - 1) \o SubSeq(items, i + 1, Len(items))
  /\ itemCount' = itemCount - 1
  /\ UNCHANGED <<configFile, file, inferred>>

\* xsan_config_clear, and destroy followed by create.
ConfigClear ==
  /\ items' = <<>> /\ itemCount' = 0
  /\ configFile' \in {configFile, "none"}
  /\ inferred' = TRUE
  /\ UNCHANGED file

\* The body of xsan_config_load_from_file once the file is open.
LoadLines ==
  /\ \E list \in LoadedOutcomes(file) :
       items' = list /\ itemCount' = Len(list) /\ inferred' = (list = LoadedExactly(file))
  /\ UNCHANGED file

\* The file is opened and read, or cannot be opened.
ConfigLoad == \/ LoadLines /\ configFile' \in {"path", "none"}
              \/ UNCHANGED configVars

\* xsan_config_load_from_string with the same lines; without memory for its copy of
\* the string it fails after it has cleared the items.
ConfigLoadString == /\ UNCHANGED configFile
                    /\ \/ LoadLines
                       \/ items' = <<>> /\ itemCount' = 0 /\ inferred' = TRUE /\ UNCHANGED file

\* xsan_config_reload hands load_from_file the path that load_from_file frees before
\* it copies it: the copy is the path or what free() left in its place.
ConfigReload == /\ configFile # "none"
                /\ \/ configFile = "path" /\ LoadLines /\ configFile' \in {"path", "garbage", "none"}
                   \/ UNCHANGED configVars

\* xsan_config_save_to_file.
ConfigSave == /\ file' = SavedLines(items)
              /\ UNCHANGED <<items, itemCount, configFile, inferred>>

\* Someone adds a line to the file, or empties it.
FileEdited == /\ \/ file' = <<>>
                 \/ /\ Len(file) < MaxLines
                    /\ \E l \in [key : ConfigKeys, text : Texts] : file' = Append(file, l)
              /\ UNCHANGED <<items, itemCount, configFile, inferred>>

ConfigNext ==
  \/ \E k \in ConfigKeys :
       \/ ConfigRemove(k)
       \/ \E type \in Types : \E value \in Settable[type] : ConfigSet(k, type, value)
  \/ ConfigClear \/ ConfigLoad \/ ConfigLoadString \/ ConfigReload \/ ConfigSave \/ FileEdited

ConfigSpec == ConfigInit /\ [][ConfigNext]_configVars

-----------------------------------------------------------------------------
(* Properties *)

\* After any sequence of sets, removals and loads, failed ones included, no key has
\* two items and item_count is the length of the list.
ItemsUnique == /\ itemCount = Len(items)
               /\ \A i, j \in 1 .. Len(items) : items[i].key = items[j].key => i = j

\* Saving a configuration that was loaded and loading it again gives every item its
\* type back and its value, but for the digits %f drops.
\* Types need not survive for items that were set by a call: a long within the range
\* of int comes back as an int, and a string that looks like a number as that number.
LoadedSurvivesSave ==
  LET again == LoadedExactly(SavedLines(items))
  IN  inferred =>
        /\ Len(again) = Len(items)
        /\ \A i \in 1 .. Len(items) :
             LET j == FindItem(again, items[i].key)
             IN  /\ j # 0 /\ again[j].type = items[i].type
                 /\ again[j].value = items[i].value \/ items[i].value = "tiny"
=============================================================================
