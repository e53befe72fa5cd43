----------------------------- MODULE IwValStore -----------------------------
(***************************************************************************)
(* The value store of src/iw_val_store.c: typed values under names.  A     *)
(* controlled store, as that of the configuration, only takes a value      *)
(* under a name that was added, of the type of the name, and that fits its *)
(* criteria.                                                               *)
(*                                                                         *)
(* A regular expression and a callback are the set of values they let      *)
(* pass.  A text (a string value, what is typed into a form) is a model    *)
(* value; what strtoll and iw_ip_str_to_addr read in it is given by tables.*)
(***************************************************************************)
EXTENDS Integers

CONSTANTS Name,        \* names of values
          Text,        \* strings
          NumberOf,    \* what iw_util_strtoll reads in the texts it accepts
          AddressOf,   \* what iw_ip_str_to_addr reads in those it accepts
          INT_MAX,     \* the largest int: one less than half of 2 to its width
          NoValue,     \* no value under the name
          NoCriteria   \* the name was not added

INT == -(INT_MAX + 1) .. INT_MAX
Address == {AddressOf[text] : text \in DOMAIN AddressOf}

ASSUME ValStoreAssumption ==
  /\ INT_MAX \in Nat \ {0}
  /\ DOMAIN NumberOf \subseteq Text
  /\ DOMAIN AddressOf \subseteq Text
  /\ \A text \in DOMAIN NumberOf : NumberOf[text] \in Int

Type == {"NUMBER", "STRING", "ADDRESS"}
Datum(type) == CASE type = "NUMBER"  -> INT
                 [] type = "STRING"  -> Text
                 [] type = "ADDRESS" -> Address
Value == UNION {[type : {type}, v : Datum(type)] : type \in Type}
Criteria == UNION {[type : {type}, persist : BOOLEAN,
                    fn : SUBSET Datum(type), regexp : SUBSET Datum(type)] : type \in Type}

\* Neither is a value or a criterion: both are NULL.
ASSUME NoneAssumption == NoValue \notin Value /\ NoCriteria \notin Criteria

Answers == {"OK", "FAILED_TO_CREATE", "NO_SUCH_VALUE", "INCORRECT_TYPE",
            "FAILED_CALLBACK", "FAILED_REGEXP"}

VARIABLES names,  \* the criteria of each name
          table,  \* the value of each name
          memory, \* "ample", or "short": an allocation can fail
          ret     \* the result of the last call

storeVars == <<names, table, memory, ret>>

StoreInit ==
  /\ names = [n \in Name |-> NoCriteria]
  /\ table = [n \in Name |-> NoValue]
  /\ memory \in {"ample", "short"}
  /\ ret = "none"

IfShort(outcome) == IF memory = "short" THEN {outcome} ELSE {}

-----------------------------------------------------------------------------
\* The checks of iw_val_store_set, of a value for a name with criteria crit.
Answer(crit, value) ==
  IF crit = NoCriteria                THEN "NO_SUCH_VALUE"
  ELSE IF crit.type # value.type      THEN "INCORRECT_TYPE"
  ELSE IF value.v \notin crit.fn      THEN "FAILED_CALLBACK"
  ELSE IF value.v \notin crit.regexp  THEN "FAILED_REGEXP"
  ELSE "OK"

\* Fault: the value is stored before it is checked.
SetOutcomes_StoredFirst(crit, old, value) ==
  {[ret |-> Answer(crit, value), value |-> value]}

\* What iw_val_store_set can answer and leave under the name.  Replacing
\* takes the old value away before it allocates the node of the new one.
SetOutcomes(crit, old, value) ==
  IF Answer(crit, value) # "OK"
  THEN {[ret |-> Answer(crit, value), value |-> old]}
  ELSE {[ret |-> "OK", value |-> value]}
         \union IfShort([ret |-> "FAILED_TO_CREATE", value |-> NoValue])

\* iw_val_store_set_number, _string and _address create the value and set it.
\* The last returns false, which is IW_VAL_RET_OK, when the value is refused.
CreateOutcomes(crit, old, value) ==
  IfShort([ret |-> "FAILED_TO_CREATE", value |-> old])
    \union IF value.type = "ADDRESS"
           THEN {[outcome EXCEPT !.ret = "OK"] : outcome \in SetOutcomes(crit, old, value)}
           ELSE SetOutcomes(crit, old, value)

Store(n, outcomes) ==
  \E outcome \in outcomes : /\ ret' = outcome.ret
                            /\ table' = [table EXCEPT ![n] = outcome.value]

SetValue(n, value) ==
  /\ Store(n, CreateOutcomes(names[n], table[n], value))
  /\ UNCHANGED <<names, memory>>

\* A long long passed for an int.
Truncated(number) ==
  ((number + INT_MAX + 1) % (2 * (INT_MAX + 1))) - (INT_MAX + 1)

\* The value of a type that a text stands for.
ValueOf(type, text) ==
  CASE type = "STRING" -> [type |-> type, v |-> text]
    [] type = "NUMBER" /\ text \in DOMAIN NumberOf ->
         [type |-> type, v |-> Truncated(NumberOf[text])]
    [] type = "ADDRESS" /\ text \in DOMAIN AddressOf ->
         [type |-> type, v |-> AddressOf[text]]
    [] OTHER -> NoValue

\* iw_val_store_set_existing_value: the type is that of the value there.
ExistingOutcomes(n, text) ==
  IF table[n] = NoValue THEN {[ret |-> "NO_SUCH_VALUE", value |-> NoValue]}
  ELSE LET value == ValueOf(table[n].type, text)
       IN IF value = NoValue THEN {[ret |-> "FAILED_REGEXP", value |-> table[n]]}
          ELSE CreateOutcomes(names[n], table[n], value)

SetExistingValue(n, text) ==
  /\ Store(n, ExistingOutcomes(n, text))
  /\ UNCHANGED <<names, memory>>

-----------------------------------------------------------------------------
\* The criteria after iw_val_store_add_name*: a name that was added before
\* keeps those it has.
NamesWith(n, crit) ==
  {[names EXCEPT ![n] = IF @ = NoCriteria THEN crit ELSE @]} \union IfShort(names)

\* Fault: the value of the name stays.
DeleteName_ValueKept(n) ==
  /\ names' = [names EXCEPT ![n] = NoCriteria]
  /\ UNCHANGED <<table, memory, ret>>

DeleteName(n) ==
  /\ names' = [names EXCEPT ![n] = NoCriteria]
  /\ table' = [table EXCEPT ![n] = NoValue]
  /\ UNCHANGED <<memory, ret>>

-----------------------------------------------------------------------------
(* Properties.                                                             *)

StoreTypeOK ==
  /\ names \in [Name -> Criteria \union {NoCriteria}]
  /\ table \in [Name -> Value \union {NoValue}]
  /\ memory \in {"ample", "short"}
  /\ ret \in Answers \union {"none", "true", "false"}

(* Whatever is set, loaded, deleted and added again, in which order, every *)
(* value in the store fits the criteria its name has now.                  *)
StoredFitCriteria ==
  \A n \in Name : table[n] # NoValue => Answer(names[n], table[n]) = "OK"
=============================================================================
