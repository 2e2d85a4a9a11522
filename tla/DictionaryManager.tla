------------------------- MODULE DictionaryManager --------------------------
(***************************************************************************)
(* The operations of DictionaryManager (rde_dictionary_manager.cpp) as     *)
(* functions on its state: a record dm of the map of dictionaries, by      *)
(* resource id, and the counter of valid ones.  Dictionary data is a       *)
(* sequence of the chunks it was received in.                              *)
(***************************************************************************)
EXTENDS Integers, Sequences, FiniteSets

CONSTANTS
  ResourceIds,            \* PDR resource ids (uint32_t in the code)
  annotationResourceId,   \* the one of the annotation dictionary
  Chunks                  \* pieces of dictionary data

ASSUME ResourceAssumption ==
  /\ IsFiniteSet(ResourceIds)
  /\ annotationResourceId \in ResourceIds

(* An element of the map, or its absence (found = FALSE).                  *)
DictionaryEntry == [found : BOOLEAN, valid : BOOLEAN, data : Seq(Chunks)]
Absent == [found |-> FALSE, valid |-> FALSE, data |-> <<>>]

Managers == [dictionaries : [ResourceIds -> DictionaryEntry],
             validDictionaryCount : Nat]

(* The constructor.                                                        *)
NoDictionaries == [dictionaries |-> [r \in ResourceIds |-> Absent],
                   validDictionaryCount |-> 0]

-----------------------------------------------------------------------------
(* validateDictionaryEntry and invalidateDictionaryEntry keep the counter  *)
(* in step with the flag.                                                  *)

(* Faulty variant: a dictionary completed twice is counted twice.          *)
ValidateUnconditionally(dm, r) ==
  [dm EXCEPT !.dictionaries[r].valid = TRUE, !.validDictionaryCount = @ + 1]

ValidateDictionaryEntry(dm, r) ==
  [dm EXCEPT !.dictionaries[r].valid = TRUE,
             !.validDictionaryCount =
                IF dm.dictionaries[r].valid THEN @ ELSE @ + 1]

InvalidateDictionaryEntry(dm, r) ==
  [dm EXCEPT !.dictionaries[r].valid = FALSE,
             !.validDictionaryCount =
                IF dm.dictionaries[r].valid THEN @ - 1 ELSE @]

(* Starting an entry over an existing one invalidates it and flushes its   *)
(* data.                                                                   *)
StartDictionaryEntry(dm, r, data) ==
  [InvalidateDictionaryEntry(dm, r) EXCEPT
     !.dictionaries[r].found = TRUE,
     !.dictionaries[r].data = data]

(* markDataComplete and addDictionaryData do nothing, and return false,    *)
(* for a resource id that is not in the map.                               *)
MarkDataComplete(dm, r) ==
  IF dm.dictionaries[r].found THEN ValidateDictionaryEntry(dm, r) ELSE dm

AddDictionaryData(dm, r, data) ==
  IF dm.dictionaries[r].found
  THEN [InvalidateDictionaryEntry(dm, r) EXCEPT
          !.dictionaries[r].data = @ \o data]
  ELSE dm

InvalidateDictionaries(dm) ==
  [dictionaries |-> [r \in ResourceIds |->
                       [dm.dictionaries[r] EXCEPT !.valid = FALSE]],
   validDictionaryCount |-> 0]

(* Faulty variant: an incomplete dictionary is returned as well.           *)
HasAnyDictionary(dm, r) == dm.dictionaries[r].found

(* getDictionary returns the data, and not std::nullopt.                   *)
HasDictionary(dm, r) ==
  dm.dictionaries[r].found /\ dm.dictionaries[r].valid

-----------------------------------------------------------------------------
ValidDictionaries(dm) == {r \in ResourceIds : dm.dictionaries[r].valid}

(* The counter behind getDictionaryCount is the number of valid entries,   *)
(* and only entries of the map are valid.  The uint32_t counter therefore  *)
(* never wraps below 0.                                                    *)
CountIsExact(dm) ==
  /\ dm.validDictionaryCount = Cardinality(ValidDictionaries(dm))
  /\ \A r \in ResourceIds : dm.dictionaries[r].valid => dm.dictionaries[r].found

=============================================================================
