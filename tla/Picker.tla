------------------------------- MODULE Picker -------------------------------
(***************************************************************************)
(* Package picker (picker/picker.go): PickData, which GetData and its        *)
(* relatives call to drill into a value, and its cache of struct types.     *)
(*                                                                          *)
(* A goroutine's call on a struct is a Load of structCache and, when the     *)
(* type is not there, a scan of the fields and a Store.  Calls on other      *)
(* values touch nothing that is shared.                                     *)
(***************************************************************************)
EXTENDS Integers, FiniteSets, SequencesExt

CONSTANTS
    Goroutines,
    Keys,         \* names of drill keys and of entries of maps
    Capital,      \* Capital[k]: capitalizeFirst(k)
    KeyLists,     \* the keys arguments of GetDataWithKeys
    DefaultLists, \* the arguments of SetDefaultDrillKeys
    InitialKeys,  \* the default list before the first of them, <<"data">>
    Types,        \* struct types
    Fields,       \* Fields[t]: the fields of t, each a name and a json name
    Maps,         \* maps, as the sets of their keys
    NoInfo,       \* what Load returns for a type that is not in the cache
    NoCall

ASSUME PickerAssumption ==
    /\ Capital \in [Keys -> Keys]
    /\ KeyLists \cup DefaultLists \subseteq Seq(Keys)
    /\ InitialKeys \in DefaultLists
    /\ \A t \in Types : Fields[t] \in Seq([name : Keys, json : Keys])
    /\ Maps \subseteq SUBSET Keys

(* The default list is written and read without a lock.  Lists of one length  *)
(* differ in one word, so a reader gets the old list or the new one.         *)
ASSUME OneLengthAssumption ==
    \A l \in DefaultLists : Len(l) = Len(InitialKeys)

VARIABLES
    structCache,  \* structCache[t]: its fieldMap, or NoInfo
    defaultKeys,  \* defaultDrillKeys
    pc,           \* pc[g]: "idle", "load", "store", "done"
    call,         \* call[g]: the value and the keys of the call
    result,       \* result[g]: what it picked
    asked         \* asked[t]: the keys that calls on t passed, or all lists

vars == <<structCache, defaultKeys, pc, call, result, asked>>

Lists == KeyLists \cup DefaultLists

Nothing  == [what |-> "nil"]
Whole    == [what |-> "whole"]
Entry(k) == [what |-> "entry", at |-> k]
Field(i) == [what |-> "field", at |-> i]

(* name == capitalizeFirst(k) || tag == k || tagHasName(tag, k)              *)
Names(f, k) == f.name = Capital[k] \/ f.json = k

FieldsNamed(t, k) == {i \in DOMAIN Fields[t] : Names(Fields[t][i], k)}

(* A scan that counts the fields from one and indexes them from zero.        *)
ScanOneOff(t, keys) ==
    [k \in {kk \in ToSet(keys) : FieldsNamed(t, kk) # {}} |-> Max(FieldsNamed(t, k)) + 1]

(* The fieldMap of t for these keys: the last field a key names.             *)
Scan(t, keys) ==
    [k \in {kk \in ToSet(keys) : FieldsNamed(t, kk) # {}} |-> Max(FieldsNamed(t, k))]

(* Any field the map has, as if the map were the caller's own.               *)
FromInfoAnyKey(fieldMap, keys) ==
    IF DOMAIN fieldMap = {} THEN Whole
    ELSE Field(fieldMap[CHOOSE k \in DOMAIN fieldMap : TRUE])

(* The field of the first key the map has.                                   *)
FromInfo(fieldMap, keys) ==
    LET at == SelectInSeq(keys, LAMBDA k : k \in DOMAIN fieldMap)
    IN  IF at = 0 THEN Whole ELSE Field(fieldMap[keys[at]])

(* A map[string]any is asked for each key, and for it with a capital.        *)
FromAnyMap(m, keys) ==
    LET at == SelectInSeq(keys, LAMBDA k : {k, Capital[k]} \cap m # {})
    IN  IF at = 0 THEN Whole
        ELSE IF keys[at] \in m THEN Entry(keys[at]) ELSE Entry(Capital[keys[at]])

(* Another map is gone through in any order up to an entry a key names.      *)
Named(m, keys) == {e \in m : \E k \in ToSet(keys) : e \in {k, Capital[k]}}

(* Values: nil and nil pointers; []byte and string, with the top keys of the  *)
(* document they hold; maps; structs.                                        *)
(* Pointers to them are followed and are not told apart.                     *)
Values ==
    [kind : {"nil"}]
    \cup [kind : {"document", "anymap", "map"}, of : Maps]
    \cup [kind : {"struct"}, of : Types]

(* No call is no call, whatever value and keys it has.                       *)
ASSUME SentinelAssumption == NoCall \notin [value : Values, keys : Lists]

Init ==
    /\ structCache = [t \in Types |-> NoInfo]
    /\ defaultKeys = InitialKeys
    /\ pc = [g \in Goroutines |-> "idle"]
    /\ call = [g \in Goroutines |-> NoCall]
    /\ result = [g \in Goroutines |-> Nothing]
    /\ asked = [t \in Types |-> {}]

Goto(g, from, to) == pc[g] = from /\ pc' = [pc EXCEPT ![g] = to]

SetDefaultDrillKeys(keys) ==
    /\ defaultKeys' = keys
    /\ UNCHANGED <<structCache, pc, call, result, asked>>

(* A note for the properties of which lists calls on a struct type passed:    *)
(* none, one, or several.                                                    *)
Ask(v, keys) ==
    IF v.kind # "struct" THEN UNCHANGED asked
    ELSE asked' = [asked EXCEPT ![v.of] = IF @ \subseteq {keys} THEN {keys} ELSE Lists]

(* PickData(v, keys) begins: GetDataWithKeys passes the caller's keys, and    *)
(* GetData and its relatives the default ones.                               *)
Call(g, v, keys) ==
    /\ Goto(g, "idle", IF v.kind = "struct" THEN "load" ELSE "pick")
    /\ call' = [call EXCEPT ![g] = [value |-> v, keys |-> keys]]
    /\ Ask(v, keys)
    /\ UNCHANGED <<structCache, defaultKeys, result>>

Answer(g, r) == result' = [result EXCEPT ![g] = r]

Pick(g) ==
    /\ Goto(g, "pick", "done")
    /\ LET v == call[g].value
           keys == call[g].keys
       IN  \/ v.kind = "nil" /\ Answer(g, Nothing)
           \/ v.kind = "document" /\ Answer(g, Whole)
           \/ v.kind = "anymap" /\ Answer(g, FromAnyMap(v.of, keys))
           \/ v.kind = "map" /\ Named(v.of, keys) = {} /\ Answer(g, Whole)
           \/ v.kind = "map" /\ \E k \in Named(v.of, keys) : Answer(g, Entry(k))
    /\ UNCHANGED <<structCache, defaultKeys, call, asked>>

LoadHit(g) ==
    /\ Goto(g, "load", "done")
    /\ structCache[call[g].value.of] # NoInfo
    /\ Answer(g, FromInfo(structCache[call[g].value.of], call[g].keys))
    /\ UNCHANGED <<structCache, defaultKeys, call, asked>>

(* A map that is stored before it is filled.                                 *)
LoadMissPublishing(g) ==
    /\ Goto(g, "load", "store")
    /\ structCache[call[g].value.of] = NoInfo
    /\ structCache' = [structCache EXCEPT ![call[g].value.of] = [k \in {} |-> 0]]
    /\ UNCHANGED <<defaultKeys, call, result, asked>>

LoadMiss(g) ==
    /\ Goto(g, "load", "store")
    /\ structCache[call[g].value.of] = NoInfo
    /\ UNCHANGED <<structCache, defaultKeys, call, result, asked>>

(* The fields are scanned, the map is stored whatever is there by now, and    *)
(* the caller's own map answers.                                             *)
ScanAndStore(g) ==
    /\ Goto(g, "store", "done")
    /\ LET t == call[g].value.of
           si == Scan(t, call[g].keys)
       IN  /\ structCache' = [structCache EXCEPT ![t] = si]
           /\ Answer(g, FromInfo(si, call[g].keys))
    /\ UNCHANGED <<defaultKeys, call, asked>>

Return(g) ==
    /\ Goto(g, "done", "idle")
    /\ call' = [call EXCEPT ![g] = NoCall]
    /\ result' = [result EXCEPT ![g] = Nothing]
    /\ UNCHANGED <<structCache, defaultKeys, asked>>

Next ==
    \/ \E keys \in DefaultLists : SetDefaultDrillKeys(keys)
    \/ \E g \in Goroutines :
         \/ \E v \in Values, keys \in KeyLists \cup {defaultKeys} : Call(g, v, keys)
         \/ Pick(g) \/ LoadHit(g) \/ LoadMiss(g) \/ ScanAndStore(g) \/ Return(g)

Spec == Init /\ [][Next]_vars

-----------------------------------------------------------------------------
(* Properties.                                                               *)

FieldMaps(t) == UNION {[D -> DOMAIN Fields[t]] : D \in SUBSET Keys}

(* The cache holds maps from keys to fields of their types, and a goroutine   *)
(* has a call exactly while it is in PickData.                               *)
TypeOK ==
    /\ \A t \in Types : structCache[t] \in FieldMaps(t) \cup {NoInfo}
    /\ defaultKeys \in DefaultLists
    /\ pc \in [Goroutines -> {"idle", "pick", "load", "store", "done"}]
    /\ \A t \in Types : asked[t] \subseteq Lists
    /\ \A g \in Goroutines : call[g] = NoCall <=> pc[g] = "idle"

Done(g, kind) == pc[g] = "done" /\ call[g].value.kind = kind

(* Whatever the cache holds, from whichever call, and whoever else stores     *)
(* into it: a field that is picked is one that a key of this very call       *)
(* names, and never one that only other callers asked for.                   *)
PicksWhatACallNames ==
    \A g \in Goroutines :
        Done(g, "struct") /\ result[g].what = "field" =>
            \E k \in ToSet(call[g].keys) :
                result[g].at \in FieldsNamed(call[g].value.of, k)

(* What a call on a struct picks with an empty cache.                        *)
Fresh(g) == FromInfo(Scan(call[g].value.of, call[g].keys), call[g].keys)

(* As long as all calls for a type pass the same keys, the cache changes no   *)
(* answer, however the loads and stores of the goroutines interleave and     *)
(* whatever the calls for other types do.                                    *)
OneListPicksAsFresh ==
    \A g \in Goroutines :
        Done(g, "struct") /\ asked[call[g].value.of] = {call[g].keys} =>
            result[g] = Fresh(g)
=============================================================================
