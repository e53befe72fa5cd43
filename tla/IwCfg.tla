------------------------------- MODULE IwCfg --------------------------------
(***************************************************************************)
(* The configuration of src/iw_cfg.c through the lives of a program: it is *)
(* set up (iw_cfg_init and more), loaded from its file, changed and        *)
(* saved by the configuration page (src/iw_web_gui.c), and gone when the   *)
(* program ends or crashes.  The file stays, and may be edited by hand.    *)
(*                                                                         *)
(* The file has a JSON value per name, a string as the parser of parson    *)
(* reads it; names are below "cfg", and none is a prefix of another.  The next start may be of another version of the   *)
(* program, which declares its settings differently.                       *)
(***************************************************************************)
EXTENDS IwValStore

CONSTANTS Declarations, \* the settings the versions of the program declare
          EditedFiles,  \* what the file may be after an edit by hand
          Damaged,      \* a file that is absent, or no JSON
          Control,      \* strings with a character below 32 that JSON has no letter for
          Malformed     \* strings that are not UTF-8

Json == [kind : {"string"}, v : Text] \union [kind : {"number"}, v : Int]
          \union [kind : {"boolean"}, v : {0, 1}]
Content == [Name -> Json \union {NoValue}]

ASSUME CfgAssumption ==
  /\ Declarations \subseteq
       [name : Name, criteria : Criteria, default : Value \union {NoValue}]
  /\ EditedFiles \subseteq Content \union {Damaged}
  /\ NoValue \notin Json /\ Damaged \notin Content
  /\ DOMAIN AddressOf \intersect (Control \union Malformed) = {}

VARIABLES phase,       \* "down", "setup", "running", "assigning", "saving"
          iw_cfg_file, \* the name of the file is known
          file,        \* what is on the disk
          content,     \* the serialized text that is being written
          saved        \* the names and the table of the file, if it is a saved one

cfgVars == <<phase, iw_cfg_file, file, content, saved>>
allVars == <<storeVars, cfgVars>>

CfgTypeOK ==
  /\ StoreTypeOK
  /\ phase \in {"down", "setup", "running", "assigning", "saving"}
  /\ iw_cfg_file \in BOOLEAN
  /\ file \in Content \union {Damaged}
  /\ content \in Content \union {Damaged}
  /\ saved \in [names : [Name -> Criteria \union {NoCriteria}],
                table : [Name -> Value \union {NoValue}]] \union {NoValue}

CfgInit ==
  /\ StoreInit
  /\ phase = "down"
  /\ iw_cfg_file = FALSE
  /\ file \in EditedFiles
  /\ content = Damaged
  /\ saved = NoValue

-----------------------------------------------------------------------------
\* iw_cfg_init creates the store.
Boot ==
  /\ phase = "down"
  /\ phase' = "setup"
  /\ UNCHANGED <<storeVars, iw_cfg_file, file, content, saved>>

\* iw_cfg_add_number and iw_cfg_add_string: the name, then the default.
AddSetting(d) ==
  /\ phase = "setup" /\ d.criteria.type # "ADDRESS"
  /\ names' \in NamesWith(d.name, d.criteria)
  /\ \/ /\ d.default # NoValue
        /\ Store(d.name, CreateOutcomes(names'[d.name], table[d.name], d.default))
     \/ d.default = NoValue /\ UNCHANGED <<table, ret>>
  /\ UNCHANGED <<memory, cfgVars>>

\* iw_val_store_add_name* on the store of the configuration.
AddName(d) ==
  /\ phase = "setup"
  /\ names' \in NamesWith(d.name, d.criteria)
  /\ ret' = IF names[d.name] = NoCriteria /\ names' # names THEN "true" ELSE "false"
  /\ UNCHANGED <<table, memory, cfgVars>>

\* The other calls a program may make before iw_main.
SetUp(n) ==
  /\ phase = "setup"
  /\ DeleteName(n) \/ \E value \in Value : SetValue(n, value)
  /\ UNCHANGED cfgVars

\* iw_val_store_get_persist
Persisted(n) == names[n] # NoCriteria /\ names[n].persist

-----------------------------------------------------------------------------
\* The values a JSON value can become; that of a number too large for an int
\* is undefined.
FromJson(json) ==
  CASE json.kind = "string"  -> {[type |-> "STRING", v |-> json.v]}
    [] json.kind = "boolean" -> {[type |-> "NUMBER", v |-> json.v]}
    [] json.kind = "number"  ->
         [type : {"NUMBER"}, v : IF json.v \in INT THEN {json.v} ELSE INT]

\* What a load can leave under a name.
Loaded(n) ==
  IF file[n] = NoValue \/ ~Persisted(n) THEN {table[n]}
  ELSE {outcome.value : outcome \in
          UNION {CreateOutcomes(names[n], table[n], value) : value \in FromJson(file[n])}}
         \union IfShort(table[n])

\* iw_cfg_load of the program's file.
Load ==
  /\ phase = "setup"
  /\ iw_cfg_file' \in {TRUE} \union IfShort(FALSE)
  /\ \/ /\ file = Damaged \/ memory = "short"
        /\ ret' = "false"
        /\ UNCHANGED table
     \/ /\ file # Damaged
        /\ ret' = "true"
        /\ table' \in [Name -> Value \union {NoValue}]
        /\ \A n \in Name : table'[n] \in Loaded(n)
  /\ UNCHANGED <<names, memory, phase, file, content, saved>>

\* iw_main
Start ==
  /\ phase = "setup"
  /\ phase' = "running"
  /\ UNCHANGED <<storeVars, iw_cfg_file, file, content, saved>>

-----------------------------------------------------------------------------
\* The configuration page sets the values of a form one by one ...
AssignParameter(n, text) ==
  /\ phase \in {"running", "assigning"}
  /\ SetExistingValue(n, text)
  /\ phase' = "assigning"
  /\ UNCHANGED <<iw_cfg_file, file, content, saved>>

\* Fault: a number is written as a boolean.
JsonOf_Boolean(value) ==
  IF value.type = "NUMBER"
  THEN [kind |-> "boolean", v |-> IF value.v = 0 THEN 0 ELSE 1]
  ELSE [kind |-> "string",
        v |-> IF value.type = "STRING" THEN value.v
              ELSE CHOOSE text \in DOMAIN AddressOf : AddressOf[text] = value.v]

\* Fault: an address is not printed.
JsonOf_Raw(value) ==
  [kind |-> IF value.type = "NUMBER" THEN "number" ELSE "string", v |-> value.v]

\* An address is printed.  No JSON value is made of a string that is not UTF-8.
JsonOf(value) ==
  CASE value.type = "NUMBER"  -> [kind |-> "number", v |-> value.v]
    [] value.type = "STRING" /\ value.v \notin Malformed ->
         [kind |-> "string", v |-> value.v]
    [] value.type = "STRING" /\ value.v \in Malformed -> NoValue
    [] value.type = "ADDRESS" ->
         [kind |-> "string",
          v |-> CHOOSE text \in DOMAIN AddressOf : AddressOf[text] = value.v]

\* The JSON values a save can collect for a name.
Collected(n) ==
  IF Persisted(n) /\ table[n] # NoValue
  THEN {JsonOf(table[n])} \union IfShort(NoValue)
  ELSE {NoValue}

\* What the parser makes of a serialized text: a control character is written
\* as it is, and the parser takes none.
ReadAs(text) ==
  IF text # Damaged /\ \E n \in Name : /\ text[n] # NoValue
                                      /\ text[n].kind = "string" /\ text[n].v \in Control
  THEN Damaged ELSE text

\* ... and calls iw_cfg_save(NULL), which collects the values and opens the
\* file, which empties it, if it knows the name and the disk lets it.  It
\* returns false in any case.
SaveOpen ==
  /\ phase \in {"running", "assigning"}
  /\ \/ /\ iw_cfg_file
        /\ content' \in [Name -> UNION {Collected(n) : n \in Name}]
        /\ \A n \in Name : content'[n] \in Collected(n)
        /\ file' = Damaged /\ saved' = NoValue
        /\ phase' = "saving"
        /\ UNCHANGED ret
     \/ /\ phase' = "running" /\ ret' = "false"
        /\ UNCHANGED <<file, content, saved>>
  /\ UNCHANGED <<names, table, memory, iw_cfg_file>>

\* The text is written, or not all of it.
SaveWrite ==
  /\ phase = "saving"
  /\ \/ file' = ReadAs(content) /\ saved' = [names |-> names, table |-> table]
     \/ UNCHANGED <<file, saved>>
  /\ phase' = "running"
  /\ content' = Damaged
  /\ ret' = "false"
  /\ UNCHANGED <<names, table, memory, iw_cfg_file>>

\* The program ends (iw_cfg_exit) or crashes, anywhere.
Stop ==
  /\ phase # "down"
  /\ phase' = "down"
  /\ names' = [n \in Name |-> NoCriteria]
  /\ table' = [n \in Name |-> NoValue]
  /\ iw_cfg_file' = FALSE
  /\ content' = Damaged
  /\ ret' = "none"
  /\ UNCHANGED <<memory, file, saved>>

Edit ==
  /\ phase = "down"
  /\ file' \in EditedFiles
  /\ saved' = NoValue
  /\ UNCHANGED <<storeVars, phase, iw_cfg_file, content>>

CfgNext ==
  \/ Boot \/ Load \/ Start \/ SaveOpen \/ SaveWrite \/ Stop \/ Edit
  \/ \E d \in Declarations : AddSetting(d) \/ AddName(d)
  \/ \E n \in Name : SetUp(n)
  \/ \E n \in Name, text \in Text : AssignParameter(n, text)

CfgSpec == CfgInit /\ [][CfgNext]_allVars

-----------------------------------------------------------------------------
(* Properties.                                                             *)

Reads(value, text) ==
  CASE value.type = "STRING" -> value.v = text
    [] value.type = "NUMBER" -> text \in DOMAIN NumberOf /\ value.v = NumberOf[text]

(* The answer to an assignment from the configuration page is true: after  *)
(* "OK" the value is the one that was typed, after a refusal nothing has   *)
(* changed.  Except: an address (a refusal is answered "OK"), a number     *)
(* beyond int (its lower bits are stored), an allocation that failed.      *)
AnswersAreTrue ==
  [][\A n \in Name, typed \in Text :
       /\ AssignParameter(n, typed)
       /\ table[n] # NoValue => table[n].type # "ADDRESS"
       /\ typed \in DOMAIN NumberOf => NumberOf[typed] \in INT
       => \/ ret' = "OK" /\ Reads(table'[n], typed)
          \/ ret' = "FAILED_TO_CREATE" /\ memory = "short"
          \/ ret' \notin {"OK", "FAILED_TO_CREATE"} /\ table' = table]_allVars

\* A saved value that is read back: a number, or a string of UTF-8.
Survivor(value) ==
  \/ value.type = "NUMBER"
  \/ value.type = "STRING" /\ value.v \notin Malformed

\* A saved string the parser refuses, and the file with it.
Spoils(n) ==
  /\ saved.names[n] # NoCriteria /\ saved.names[n].persist /\ saved.table[n] # NoValue
  /\ saved.table[n].type = "STRING" /\ saved.table[n].v \in Control \ Malformed

(* What of the saved settings comes back, if the file is one the program   *)
(* has written to the end, whatever happened since.  With one string with  *)
(* a control character among them, nothing: the load fails.  Else every    *)
(* number and string with the persist flag whose criteria are still those  *)
(* it had, but for a string that is not UTF-8; that one, an address, and   *)
(* what has no such flag stay as they are.                                 *)
PersistedSurvive ==
  [][Load /\ memory = "ample" /\ saved # NoValue =>
       IF \E n \in Name : Spoils(n) THEN ret' = "false" /\ table' = table
       ELSE /\ ret' = "true"
            /\ \A n \in Name :
                 /\ ~Persisted(n) => table'[n] = table[n]
                 /\ Persisted(n) /\ saved.names[n] = names[n] =>
                      table'[n] = IF saved.table[n] # NoValue /\ Survivor(saved.table[n])
                                  THEN saved.table[n] ELSE table[n]]_allVars
=============================================================================
