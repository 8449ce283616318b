---------------------------- MODULE PickerProofs ----------------------------
(***************************************************************************)
(* Proofs about Picker: that a call picks a field its own keys name,         *)
(* whatever the cache holds, and that the cache changes no answer as long    *)
(* as the calls for a type pass one list.                                    *)
(*                                                                          *)
(* Both rest on one fact about the cache: the map it has for a type is the   *)
(* scan of its fields for a list that some call for this type passed.        *)
(***************************************************************************)
EXTENDS Picker, TLAPS

L == INSTANCE Lemmas

(* Who is in PickData has a call, and the path through the code fits it.     *)
CallInv ==
    /\ DOMAIN call = Goroutines
    /\ \A g \in Goroutines : pc[g] # "idle" =>
         call[g] \in [value : Values, keys : Lists]
    /\ \A g \in Goroutines : pc[g] = "pick" => call[g].value.kind # "struct"
    /\ \A g \in Goroutines : pc[g] \in {"load", "store"} => call[g].value.kind = "struct"

OnStruct(g) == pc[g] # "idle" /\ call[g].value.kind = "struct"

(* What asked says of the calls that are under way, and of the cache.        *)
AskedInv ==
    /\ \A g \in Goroutines : OnStruct(g) => call[g].keys \in asked[call[g].value.of]
    /\ \A t \in Types : structCache[t] # NoInfo =>
         \E l \in asked[t] : structCache[t] = Scan(t, l)

Shape ==
    /\ DOMAIN structCache = Types
    /\ asked \in [Types -> SUBSET Lists]
    /\ DOMAIN result = Goroutines

IInv ==
    /\ TypeOK /\ Shape /\ CallInv /\ AskedInv
    /\ PicksWhatACallNames /\ OneListPicksAsFresh

-----------------------------------------------------------------------------
(* The operators.                                                            *)

(* The last field a key names is a field it names.                           *)
LEMMA LastOfTheNamed ==
    ASSUME NEW t \in Types, NEW k, FieldsNamed(t, k) # {}
    PROVE  Max(FieldsNamed(t, k)) \in FieldsNamed(t, k)
<1>1. PICK n \in Nat : DOMAIN Fields[t] = 1 .. n
  BY PickerAssumption
<1>2. FieldsNamed(t, k) \in SUBSET (0 .. n)
  BY <1>1 DEF FieldsNamed
<1>3. \E m \in FieldsNamed(t, k) : \A i \in FieldsNamed(t, k) : m >= i
  <2>1. PICK m \in FieldsNamed(t, k) : \A i \in FieldsNamed(t, k) : i <= m
    BY <1>2, L!Greatest
  <2>2. \A i \in FieldsNamed(t, k) : m >= i
    BY <1>2, <2>1
  <2> QED BY <2>2
<1> QED BY <1>3 DEF Max

(* A scan gives each of its keys a field that this key names.                *)
LEMMA ScanNames ==
    ASSUME NEW t \in Types, NEW keys \in Seq(Keys)
    PROVE  /\ DOMAIN Scan(t, keys) \subseteq ToSet(keys)
           /\ \A k \in DOMAIN Scan(t, keys) : Scan(t, keys)[k] \in FieldsNamed(t, k)
BY LastOfTheNamed DEF Scan

(* A scan is a map from keys to fields of the type.                          *)
LEMMA ScanType ==
    ASSUME NEW t \in Types, NEW keys \in Seq(Keys)
    PROVE  Scan(t, keys) \in FieldMaps(t)
<1> DEFINE D == {k \in ToSet(keys) : FieldsNamed(t, k) # {}}
<1>1. D \in SUBSET Keys
  BY DEF ToSet
<1>2. \A k \in D : Max(FieldsNamed(t, k)) \in DOMAIN Fields[t]
  BY LastOfTheNamed DEF FieldsNamed
<1>3. Scan(t, keys) \in [D -> DOMAIN Fields[t]]
  BY <1>2 DEF Scan
<1> QED BY <1>1, <1>3 DEF FieldMaps

(* FromInfo picks the field the map has for one of the keys, or nothing.     *)
LEMMA FromInfoPicks ==
    ASSUME NEW m, NEW keys \in Seq(Keys)
    PROVE  \/ FromInfo(m, keys) = Whole
           \/ \E k \in ToSet(keys) \cap DOMAIN m : FromInfo(m, keys) = Field(m[k])
<1> DEFINE I == {i \in 1 .. Len(keys) : keys[i] \in DOMAIN m}
           at == SelectInSeq(keys, LAMBDA k : k \in DOMAIN m)
<1>1. at = IF I # {} THEN Min(I) ELSE 0
  BY DEF SelectInSeq
<1>2. FromInfo(m, keys) = IF at = 0 THEN Whole ELSE Field(m[keys[at]])
  BY DEF FromInfo
<1> HIDE DEF at
<1>3. CASE I = {}
  BY <1>1, <1>2, <1>3
<1>4. CASE I # {}
  <2>1. I \in SUBSET Nat
    OBVIOUS
  <2>2. \E i \in I : \A j \in I : i <= j
    BY <1>4, <2>1, L!Least
  <2>3. at \in I
    BY <1>1, <1>4, <2>2 DEF Min
  <2>4. keys[at] \in ToSet(keys) \cap DOMAIN m /\ at # 0
    BY <2>3 DEF ToSet
  <2> QED BY <1>2, <2>4
<1> QED BY <1>3, <1>4

(* Whatever list a cached map was made for, what a call picks with it is a    *)
(* field that one of the call's own keys names.                              *)
LEMMA CachedPicksNamed ==
    ASSUME NEW t \in Types, NEW l \in Seq(Keys), NEW keys \in Seq(Keys),
           FromInfo(Scan(t, l), keys).what = "field"
    PROVE  \E k \in ToSet(keys) : FromInfo(Scan(t, l), keys).at \in FieldsNamed(t, k)
<1>1. FromInfo(Scan(t, l), keys) # Whole
  BY DEF Whole
<1>2. PICK k \in ToSet(keys) \cap DOMAIN Scan(t, l) :
           FromInfo(Scan(t, l), keys) = Field(Scan(t, l)[k])
  BY <1>1, FromInfoPicks
<1>3. Scan(t, l)[k] \in FieldsNamed(t, k)
  BY <1>2, ScanNames
<1> QED BY <1>2, <1>3 DEF Field

-----------------------------------------------------------------------------
(* The invariant.                                                            *)

(* The inductive invariant holds at first.                                   *)
LEMMA Initially == Init => IInv
BY PickerAssumption
DEF Init, IInv, TypeOK, Shape, CallInv, AskedInv, PicksWhatACallNames,
    OneListPicksAsFresh, Done, OnStruct, Lists

(* The parts that say which lists there are, and who has which call.         *)
LEMMA ControlKept ==
    ASSUME IInv, [Next]_vars PROVE TypeOK' /\ Shape' /\ CallInv'
<1> USE PickerAssumption, SentinelAssumption
    DEF IInv, TypeOK, Shape, CallInv, Goto, Answer, Answer
<1>1. ASSUME NEW keys \in DefaultLists, SetDefaultDrillKeys(keys)
      PROVE  TypeOK' /\ Shape' /\ CallInv'
  BY <1>1 DEF SetDefaultDrillKeys
<1>2. ASSUME NEW g \in Goroutines, NEW v \in Values,
             NEW keys \in KeyLists \cup {defaultKeys}, Call(g, v, keys)
      PROVE  TypeOK' /\ Shape' /\ CallInv'
  <2>1. keys \in Lists /\ [value |-> v, keys |-> keys] \in [value : Values, keys : Lists]
    BY DEF Lists
  <2>2. asked' \in [Types -> SUBSET Lists]
    <3>1. CASE v.kind = "struct"
      <4>1. v.of \in Types
        BY <3>1 DEF Values
      <4>2. {keys} \in SUBSET Lists /\ Lists \in SUBSET Lists
        BY <2>1
      <4> QED BY <1>2, <3>1, <4>1, <4>2 DEF Call, Ask
    <3>2. CASE v.kind # "struct"
      BY <1>2, <3>2 DEF Call, Ask
    <3> QED BY <3>1, <3>2
  <2> QED BY <1>2, <2>1, <2>2 DEF Call
<1>3. ASSUME NEW g \in Goroutines, Pick(g)
      PROVE  TypeOK' /\ Shape' /\ CallInv'
  BY <1>3 DEF Pick
<1>4. ASSUME NEW g \in Goroutines, LoadHit(g)
      PROVE  TypeOK' /\ Shape' /\ CallInv'
  BY <1>4 DEF LoadHit
<1>5. ASSUME NEW g \in Goroutines, LoadMiss(g)
      PROVE  TypeOK' /\ Shape' /\ CallInv'
  BY <1>5 DEF LoadMiss
<1>6. ASSUME NEW g \in Goroutines, ScanAndStore(g)
      PROVE  TypeOK' /\ Shape' /\ CallInv'
  <2>1. call[g].value.of \in Types /\ call[g].keys \in Seq(Keys)
    <3>1. call[g] \in [value : Values, keys : Lists] /\ call[g].value.kind = "struct"
      BY <1>6 DEF ScanAndStore
    <3> QED BY <3>1 DEF Values, Lists
  <2>2. Scan(call[g].value.of, call[g].keys) \in FieldMaps(call[g].value.of)
    BY <2>1, ScanType
  <2> QED BY <1>6, <2>1, <2>2 DEF ScanAndStore
<1>7. ASSUME NEW g \in Goroutines, Return(g)
      PROVE  TypeOK' /\ Shape' /\ CallInv'
  BY <1>7 DEF Return
<1>8. CASE UNCHANGED vars
  BY <1>8 DEF vars
<1> QED BY <1>1, <1>2, <1>3, <1>4, <1>5, <1>6, <1>7, <1>8 DEF Next

(* A goroutine with a call on a struct passed a list of keys for a type.     *)
LEMMA CallsOnStructs ==
    ASSUME IInv, NEW g \in Goroutines, OnStruct(g)
    PROVE  /\ call[g].value.of \in Types
           /\ call[g].keys \in Lists
           /\ call[g].keys \in Seq(Keys)
<1>1. call[g] \in [value : Values, keys : Lists] /\ call[g].value.kind = "struct"
  BY DEF IInv, CallInv, OnStruct
<1> QED BY <1>1, PickerAssumption DEF Values, Lists

(* Steps that neither ask nor store keep what was asked.                     *)
LEMMA AskedUntouched ==
    ASSUME IInv, UNCHANGED <<asked, structCache>>,
           \A g \in Goroutines : OnStruct(g)' => OnStruct(g) /\ call'[g] = call[g]
    PROVE  AskedInv'
BY DEF IInv, AskedInv, Shape

(* A call adds its list to those asked for the type, and drops none.         *)
LEMMA AskAdds ==
    ASSUME IInv, NEW g \in Goroutines, NEW v \in Values, v.kind = "struct",
           NEW keys \in Lists, Ask(v, keys)
    PROVE  /\ keys \in asked'[v.of]
           /\ \A t \in Types : asked[t] \subseteq asked'[t]
           /\ \A t \in Types : t # v.of => asked'[t] = asked[t]
<1>1. v.of \in Types /\ asked[v.of] \subseteq Lists
  BY DEF Values, IInv, Shape
<1> QED BY <1>1 DEF IInv, Shape, Ask

LEMMA AskedKept == ASSUME IInv, [Next]_vars PROVE AskedInv'
<1> USE DEF Goto, OnStruct
<1>0. TypeOK /\ CallInv /\ Shape
  BY DEF IInv
<1>1. ASSUME NEW keys \in DefaultLists, SetDefaultDrillKeys(keys) PROVE AskedInv'
  BY <1>0, <1>1, AskedUntouched DEF SetDefaultDrillKeys
<1>2. ASSUME NEW g \in Goroutines, NEW v \in Values,
             NEW keys \in KeyLists \cup {defaultKeys}, Call(g, v, keys)
      PROVE  AskedInv'
  <2>1. keys \in Lists
    BY <1>0 DEF Lists, TypeOK
  <2>2. \A h \in Goroutines \ {g} : (OnStruct(h)' <=> OnStruct(h)) /\ call'[h] = call[h]
    BY <1>0, <1>2 DEF Call, CallInv, TypeOK
  <2>3. call'[g] = [value |-> v, keys |-> keys] /\ structCache' = structCache
    BY <1>0, <1>2 DEF Call, CallInv
  <2>4. CASE v.kind # "struct"
    <3>1. asked' = asked /\ ~ OnStruct(g)'
      BY <1>2, <2>3, <2>4 DEF Call, Ask
    <3> QED BY <2>2, <2>3, <3>1, AskedUntouched
  <2>5. CASE v.kind = "struct"
    <3>1. /\ keys \in asked'[v.of]
          /\ \A t \in Types : asked[t] \subseteq asked'[t]
      BY <1>2, <2>1, <2>5, AskAdds DEF Call
    <3>2. \A h \in Goroutines : OnStruct(h)' => call'[h].keys \in asked'[call'[h].value.of]
      <4> SUFFICES ASSUME NEW h \in Goroutines, OnStruct(h)'
                   PROVE  call'[h].keys \in asked'[call'[h].value.of]
        OBVIOUS
      <4>1. CASE h = g
        BY <2>3, <3>1, <4>1
      <4>2. CASE h # g
        BY <2>2, <3>1, <4>2, CallsOnStructs DEF IInv, AskedInv
      <4> QED BY <4>1, <4>2
    <3>3. \A t \in Types : structCache'[t] # NoInfo =>
             \E l \in asked'[t] : structCache'[t] = Scan(t, l)
      BY <2>3, <3>1 DEF IInv, AskedInv
    <3> QED BY <3>2, <3>3 DEF AskedInv
  <2> QED BY <2>4, <2>5
<1>3. ASSUME NEW g \in Goroutines, Pick(g) \/ LoadHit(g) \/ LoadMiss(g)
      PROVE  AskedInv'
  <2>1. UNCHANGED <<asked, structCache, call>>
    BY <1>3 DEF Pick, LoadHit, LoadMiss
  <2>2. \A h \in Goroutines : pc'[h] # "idle" => pc[h] # "idle"
    BY <1>0, <1>3 DEF Pick, LoadHit, LoadMiss, TypeOK
  <2> QED BY <2>1, <2>2, AskedUntouched
<1>4. ASSUME NEW g \in Goroutines, Return(g) PROVE AskedInv'
  <2>1. UNCHANGED <<asked, structCache>>
    BY <1>4 DEF Return
  <2>2. \A h \in Goroutines : OnStruct(h)' => OnStruct(h) /\ call'[h] = call[h]
    BY <1>0, <1>4 DEF Return, TypeOK, CallInv
  <2> QED BY <2>1, <2>2, AskedUntouched
<1>5. ASSUME NEW g \in Goroutines, ScanAndStore(g) PROVE AskedInv'
  <2> DEFINE u == call[g].value.of
             keys == call[g].keys
  <2>1. OnStruct(g) /\ u \in Types /\ keys \in asked[u]
    BY <1>0, <1>5, CallsOnStructs DEF ScanAndStore, CallInv, IInv, AskedInv
  <2>2. /\ structCache' = [structCache EXCEPT ![u] = Scan(u, keys)]
        /\ UNCHANGED <<asked, call>>
    BY <1>5 DEF ScanAndStore
  <2>3. \A h \in Goroutines : OnStruct(h)' => OnStruct(h)
    BY <1>0, <1>5, <2>1, <2>2 DEF ScanAndStore, TypeOK
  <2>4. \A t \in Types : structCache'[t] = IF t = u THEN Scan(u, keys) ELSE structCache[t]
    BY <1>0, <2>1, <2>2 DEF Shape
  <2> HIDE DEF u, keys
  <2>5. \A t \in Types : structCache'[t] # NoInfo =>
           \E l \in asked[t] : structCache'[t] = Scan(t, l)
    BY <2>1, <2>4 DEF IInv, AskedInv
  <2>6. \A h \in Goroutines : OnStruct(h)' => call[h].keys \in asked[call[h].value.of]
    BY <2>3 DEF IInv, AskedInv
  <2> QED BY <2>2, <2>5, <2>6 DEF AskedInv
<1>6. CASE UNCHANGED vars
  BY <1>6, AskedUntouched DEF vars
<1> QED BY <1>1, <1>2, <1>3, <1>4, <1>5, <1>6 DEF Next

(* What the two properties say of one goroutine.                             *)
AnswerOK(g) ==
    Done(g, "struct") =>
        /\ result[g].what = "field" =>
             \E k \in ToSet(call[g].keys) :
                 result[g].at \in FieldsNamed(call[g].value.of, k)
        /\ asked[call[g].value.of] = {call[g].keys} => result[g] = Fresh(g)

LEMMA AnswersOK ==
    (\A g \in Goroutines : AnswerOK(g)) <=> PicksWhatACallNames /\ OneListPicksAsFresh
BY DEF AnswerOK, PicksWhatACallNames, OneListPicksAsFresh

(* An answer stays right while its goroutine stands still, whatever the       *)
(* others store and ask: their lists only add to what was asked.             *)
LEMMA AnswerStays ==
    ASSUME IInv, NEW g \in Goroutines, Done(g, "struct")' => Done(g, "struct"),
           Done(g, "struct")' => result'[g] = result[g] /\ call'[g] = call[g],
           \A t \in Types : asked[t] \subseteq asked'[t]
    PROVE  AnswerOK(g)'
<1> SUFFICES ASSUME Done(g, "struct")' PROVE AnswerOK(g)'
  BY DEF AnswerOK
<1>1. Done(g, "struct") /\ AnswerOK(g) /\ result'[g] = result[g] /\ call'[g] = call[g]
  BY AnswersOK DEF IInv
<1>2. /\ call[g].value.of \in Types
      /\ call[g].keys \in asked[call[g].value.of]
  BY <1>1, CallsOnStructs DEF Done, OnStruct, IInv, AskedInv
<1>3. Fresh(g)' = Fresh(g)
  BY <1>1 DEF Fresh
<1>4. asked'[call[g].value.of] = {call[g].keys} => asked[call[g].value.of] = {call[g].keys}
  BY <1>2
<1> QED BY <1>1, <1>3, <1>4 DEF AnswerOK

(* An answer out of a map that was scanned for a list asked is right: it is a *)
(* field a key names, and the only list asked is the call's own.             *)
LEMMA AnswerFromMap ==
    ASSUME IInv, NEW g \in Goroutines, OnStruct(g),
           NEW l \in asked[call[g].value.of],
           call' = call, asked' = asked,
           result'[g] = FromInfo(Scan(call[g].value.of, l), call[g].keys)
    PROVE  AnswerOK(g)'
<1>1. /\ call[g].value.of \in Types
      /\ call[g].keys \in Seq(Keys)
  BY CallsOnStructs
<1>2. l \in Seq(Keys)
  BY <1>1, PickerAssumption DEF IInv, Shape, Lists
<1>3. result'[g].what = "field" =>
         \E k \in ToSet(call[g].keys) : result'[g].at \in FieldsNamed(call[g].value.of, k)
  BY <1>1, <1>2, CachedPicksNamed
<1>4. asked[call[g].value.of] = {call[g].keys} => result'[g] = Fresh(g)
  BY DEF Fresh
<1>5. Fresh(g)' = Fresh(g)
  BY DEF Fresh
<1> QED BY <1>3, <1>4, <1>5 DEF AnswerOK

LEMMA AnswersKept == ASSUME IInv, [Next]_vars PROVE \A h \in Goroutines : AnswerOK(h)'
<1> USE DEF Goto, Done
<1>0. TypeOK /\ CallInv /\ Shape /\ AskedInv
  BY DEF IInv
<1> SUFFICES ASSUME NEW h \in Goroutines PROVE AnswerOK(h)'
  OBVIOUS
<1>1. ASSUME NEW keys \in DefaultLists, SetDefaultDrillKeys(keys) PROVE AnswerOK(h)'
  BY <1>1, AnswerStays DEF SetDefaultDrillKeys
<1>2. ASSUME NEW g \in Goroutines, NEW v \in Values,
             NEW keys \in KeyLists \cup {defaultKeys}, Call(g, v, keys)
      PROVE  AnswerOK(h)'
  <2>1. keys \in Lists
    BY <1>0 DEF Lists, TypeOK
  <2>2. \A t \in Types : asked[t] \subseteq asked'[t]
    BY <1>2, <2>1, AskAdds DEF Call, Ask
  <2>3. /\ Done(h, "struct")' => Done(h, "struct")
        /\ Done(h, "struct")' => result'[h] = result[h] /\ call'[h] = call[h]
    BY <1>0, <1>2 DEF Call, TypeOK, CallInv
  <2> QED BY <2>2, <2>3, AnswerStays
<1>3. ASSUME NEW g \in Goroutines, Pick(g) PROVE AnswerOK(h)'
  <2>1. call[g].value.kind # "struct"
    BY <1>0, <1>3 DEF Pick, CallInv
  <2>2. CASE h = g
    BY <1>3, <2>1, <2>2 DEF Pick, AnswerOK
  <2>3. CASE h # g
    <3>1. /\ Done(h, "struct")' => Done(h, "struct")
          /\ result'[h] = result[h] /\ call'[h] = call[h] /\ asked' = asked
      BY <1>0, <1>3, <2>3 DEF Pick, TypeOK, Shape, Answer
    <3> QED BY <3>1, AnswerStays
  <2> QED BY <2>2, <2>3
<1>4. ASSUME NEW g \in Goroutines, LoadHit(g) PROVE AnswerOK(h)'
  <2>1. /\ OnStruct(g) /\ call[g].value.of \in Types
        /\ call' = call /\ asked' = asked
    BY <1>0, <1>4, CallsOnStructs DEF LoadHit, CallInv, OnStruct
  <2>2. CASE h = g
    <3>1. PICK l \in asked[call[g].value.of] :
               structCache[call[g].value.of] = Scan(call[g].value.of, l)
      BY <1>0, <1>4, <2>1 DEF LoadHit, AskedInv
    <3>2. result'[g] = FromInfo(Scan(call[g].value.of, l), call[g].keys)
      BY <1>0, <1>4, <3>1 DEF LoadHit, Answer, Shape
    <3> QED BY <2>1, <2>2, <3>2, AnswerFromMap
  <2>3. CASE h # g
    <3>1. /\ Done(h, "struct")' => Done(h, "struct")
          /\ result'[h] = result[h]
      BY <1>0, <1>4, <2>3 DEF LoadHit, TypeOK, Shape, Answer
    <3> QED BY <2>1, <3>1, AnswerStays
  <2> QED BY <2>2, <2>3
<1>5. ASSUME NEW g \in Goroutines, LoadMiss(g) PROVE AnswerOK(h)'
  <2>1. /\ Done(h, "struct")' => Done(h, "struct")
        /\ UNCHANGED <<result, call, asked>>
    BY <1>0, <1>5 DEF LoadMiss, TypeOK
  <2> QED BY <2>1, AnswerStays
<1>6. ASSUME NEW g \in Goroutines, ScanAndStore(g) PROVE AnswerOK(h)'
  <2>1. /\ OnStruct(g) /\ call[g].keys \in asked[call[g].value.of]
        /\ call' = call /\ asked' = asked
    BY <1>0, <1>6 DEF ScanAndStore, CallInv, OnStruct, AskedInv
  <2>2. CASE h = g
    <3>1. result'[g] = FromInfo(Scan(call[g].value.of, call[g].keys), call[g].keys)
      BY <1>0, <1>6 DEF ScanAndStore, Answer, Shape
    <3> QED BY <2>1, <2>2, <3>1, AnswerFromMap
  <2>3. CASE h # g
    <3>1. /\ Done(h, "struct")' => Done(h, "struct")
          /\ result'[h] = result[h]
      BY <1>0, <1>6, <2>3 DEF ScanAndStore, TypeOK, Shape, Answer
    <3> QED BY <2>1, <3>1, AnswerStays
  <2> QED BY <2>2, <2>3
<1>7. ASSUME NEW g \in Goroutines, Return(g) PROVE AnswerOK(h)'
  <2>1. /\ Done(h, "struct")' => Done(h, "struct")
        /\ Done(h, "struct")' => result'[h] = result[h] /\ call'[h] = call[h]
        /\ asked' = asked
    BY <1>0, <1>7 DEF Return, TypeOK, CallInv
  <2> QED BY <2>1, AnswerStays
<1>8. CASE UNCHANGED vars
  BY <1>8, AnswerStays DEF vars
<1> QED BY <1>1, <1>2, <1>3, <1>4, <1>5, <1>6, <1>7, <1>8 DEF Next

(* Every step keeps the invariant.                                           *)
LEMMA StepKeeps == IInv /\ [Next]_vars => IInv'
<1> SUFFICES ASSUME IInv, [Next]_vars PROVE IInv'
  OBVIOUS
<1>1. TypeOK' /\ Shape' /\ CallInv'
  BY ControlKept
<1>2. AskedInv'
  BY AskedKept
<1>3. PicksWhatACallNames' /\ OneListPicksAsFresh'
  <2>1. \A g \in Goroutines : AnswerOK(g)'
    BY AnswersKept
  <2> QED BY <2>1 DEF AnswerOK, PicksWhatACallNames, OneListPicksAsFresh
<1> QED BY <1>1, <1>2, <1>3 DEF IInv

THEOREM Invariance == Spec => []IInv
BY Initially, StepKeeps, PTL DEF Spec

(* The cache holds maps from keys to fields of their types, and a goroutine   *)
(* has a call exactly while it is in PickData.                               *)
THEOREM TypeCorrect == Spec => []TypeOK
<1>1. IInv => TypeOK
  BY DEF IInv
<1> QED BY <1>1, Invariance, PTL

(* No call picks a field that only other calls named, whatever the lists and  *)
(* types are and however many goroutines share the cache.                    *)
THEOREM PicksOnlyWhatIsNamed == Spec => []PicksWhatACallNames
<1>1. IInv => PicksWhatACallNames
  BY DEF IInv
<1> QED BY <1>1, Invariance, PTL

(* As long as the calls for a type pass one list, they all pick what they     *)
(* would pick with an empty cache.                                           *)
THEOREM CacheChangesNothing == Spec => []OneListPicksAsFresh
<1>1. IInv => OneListPicksAsFresh
  BY DEF IInv
<1> QED BY <1>1, Invariance, PTL
=============================================================================
