# A verification of gcjson

gcjson reads values out of JSON documents and Go structs by path. Most of its
speed comes from hand-written scanners over bytes and from caches that all
goroutines share without locks. This directory models both in TLA+, and what is
built on them: typed getters, conversions and a struct decoder. TLC checks the
models on small instances, and TLAPS proves the main results for every instance:
that the shared caches hold what they should, and that walks, lookups, batch reads,
paths and the scan for a top key find what the document has there, whatever its
length and depth.

Line numbers are those of `src/` at the commit the project was written for.
`PROJECT.json` lists the components, runs, findings, hazards and theorems, and
maps every definition to the lines it stands for.

## 1. The system

| Component | Files | State it keeps | Operations |
|---|---|---|---|
| Path compiler | `internal/pathplan.go` | `hot` (512 atomic slots), `hotNext`, `segPool` | `Compile`, `CompileMany` |
| Raw values | `raw/raw.go`, `raw/plan.go` | none; uses the compiler and nodes | `GetBytes`, `GetBytesByPlan`, and loops over them |
| Zero-copy nodes | `zeronode/node.go` | none of its own; a `Node` is a span of the caller's bytes, `GetManyInto` writes the caller's buffer | `FromBytes`, `Get`, `ObjectKey`, `ArrayIndex`, `GetPath`, `GetPathFast`, `GetManyInto`, `ForEachArray`, `ForEachObject`, conversions |
| Hot path ring | `cache/hot.go`, `get` of `gcjson.go` | `hotPaths` (64 atomic slots), `hotPtr` | `HitHot`, `PutHot`, called by every `GetAny` and `GetData` |
| Picker | `picker/picker.go` | `structCache` (`sync.Map`), `defaultDrillKeys` (not synchronised) | `PickData`, `SetDefaultDrillKeys` |
| Type plans | `structfast/plan.go` | `cachePtr` (atomic pointer to a map), `mu` | `getTypePlan`, through `Register` and `Decode` |
| Struct schemas | `structfast/structfast.go`, `structfast/dyn.go` | `cache` (`sync.Map`) | `Compile`, `Get`, `GetAny`, `GetByPtr`, `GetByPtrTyped` |
| Struct decoder | `structfast/decode_complex.go` | none; uses nodes and type plans | `Decode` |
| Typed getters, numbers | `gcjson.go`, `parser/` | none | `Any`, `AnyAs`, `AnyAsFast`, `AnyDataAs`, `TypeOfAny`, `ToNative`, `ToNativeBytes`, `ParseIntFast` |
| Top-key scanner | `fast/fast.go` | none | `IsSimpleTopKey`, `GetTopKeyFast`, `ParseFloat` |
| Conversion, limits | `convert/`, `raw/from.go` | `MaxJSONSize` | `From` |
| Iterators | `gcjson.go` | none | `EachArray` and others, over gjson |

How they interact. `GetAny` and `GetData` make bytes of the value (`convert`,
after `picker` for `GetData`), scan for a simple top key (`fast`), touch the ring
of hot paths (`cache`) and hand over to the library gjson. `Raw*` goes through
`raw` to `zeronode`, with plans from `internal/pathplan.go` when the caller
compiles its paths. `Decode` gets a plan from the registry of type plans and
reads fields through `zeronode`. Nothing persists, no process talks to another,
and the only timeouts are the callers'. What is hard:

- **shared state without locks**: two rings whose slots are claimed and stored
  in two steps, a buffer pool, two `sync.Map`s filled by load, build, store, a
  copy-on-write map with double-checked locking, and a default list with no
  synchronisation;
- **positions**: scanners that must agree with each other and with the grammar
  about where a value ends, with strings full of quotes, backslashes, commas and
  brackets;
- **shapes**: nodes of one Go type whose fields mean different things, depending
  on the function that made them;
- **reused memory**: pooled segment buffers, callers' buffers and variables that
  are decoded into, which still hold an earlier answer;
- **conversions written more than once**: four ladders of types in the getters,
  three parsers of numbers, two `ToNative`s, which must agree.

What makes each component correct, in a line: a path's plan is a function of the
path; a type's plan is built once and never lost; a lookup lands on the value
the document has there; a walk hands over each item once, whole, and ends; a
batch read answers as the single reads do; a ring keeps what was put until it is
full; a picked field is one the call named; a schema that can be loaded is whole;
an answer is exactly the value of the document or none, whichever getter gives
it; a decode gives a variable what the document has and nothing else, and leaves
it alone when it fails.

## 2. The modules

Abstract specifications are `PathCompiler` and `PlanLookup`. Modules named `MC*`
give constants their values; modules named `*Proofs` hold theorems, and `Lemmas`
what several of them need.

**`GoInt`** is the width of an int: `Wrapped` is what an int holds after
arithmetic that would give a number. The modules of paths and of numbers use it.

**`PathSyntax`, `PathPlan`, `PathCompiler`** (path compiler). A path is the
sequence of its tokens. One variable per package variable (`hot`, `hotNext`,
`pool` with the contents `mem` of its buffers) and per local of `Compile` and
`CompileMany` (`request`, `answers`, `probe`, `buf`, `segsLen`, `plan`,
`ticket`, `pc`). Each atomic operation is an action: a slot load (`LoadHit`,
`LoadMiss`), `PoolGet`, each append (`AppendSeg`), the copy (`CopyPlan`),
`PoolPut`, the counter (`ClaimSlot`), `StoreHot`. `PoolDrop` is the garbage
collector emptying the pool. `PathCompiler` says what callers see: a list asked,
answered in order, by plans that are a function of the path. `putSegs`, which
nothing calls, and `String` are not modelled.

**`TypePlans`, `PlanLookup`** (type plans). The actions are the steps of
`getTypePlan`: the lock-free `LoadHit`/`LoadMiss`, `Lock`, the second look
(`ReloadHit`/`ReloadMiss`), `Build` or the panic of `NumField` (`BuildPanics`),
`Publish`, the deferred `Unlock`, `Return`. `PlanLookup` says: the one plan of
the type, or the panic.

**`ZeroNode`** (scanners) has one operator per function of `node.go`, over
documents that are sequences of characters, indexed from 1. The key loop that five
functions repeat is written once (`HasMember`, `MemberKey`, `MemberNode`, `After`).
`GetPathFast`, which leaves its loop at the first member with its key, has a scan of its
own over them (`FirstMember`), while `GetPath` goes from one `GetBytes` to the next until
what it has is without a type;
`skipValue` with its object and array scans is one recursive function of the kind of
contents and a position (`ContentsSkipped`). The scans are recursive functions, with
which theorems can be stated, never `RECURSIVE` operators. A choice whose first test
guards the others (past the end of the text, or else what stands there) is an `IF`
before a `CASE`, as the arms of a TLA+ `CASE` have no order.

**`Layout`, `JsonText`** are what the scanners are judged by; neither is code.
`Layout` says of the positions of a text, without any scan, what JSON is: a quote
that an odd number of backslashes hides ends no string (`Hidden`, `IsString`); a
value lies between two positions (`IsSpan`); the items of a container lie one behind
the other, with white space, commas, keys and colons between them (`LeadsTo`,
`ItemInPlace`, `Encloses`), and a document comes with the places of all its values
(`Laid`). `Depth` and `Balances` count brackets, those in strings
too; `Holds` adds that the brackets of a container balance at its end and nowhere
before. The theorems are about texts laid out like this, of any length. `JsonText`
writes the text of a tree and says where each item lies in it; it is recursive, so
only the `MC` modules take documents from it, and TLC checks the assumptions on
`Layout` for every one of them.

**`Numerals`, `Natives`, `JsonMeaning`** (conversions). `Numerals` translates `Int`
of a node and the parsers of numbers, `Natives` the other conversions of a node
(`Float`, `Bool`, `UnescapedString`) and `ToNativeBytes`. A Go value is a pair of its
dynamic type and what it holds. `Float64` is what `strconv.ParseFloat` and a
conversion of an int64 give: the nearest float of `FloatBits` bits, ties to even, down
to 2^-`FloatLow`, and an error from 2^`FloatTop` on, which makes `ParseFloat64` fail.
Only `fast.ParseFloat`, behind `Float` of a node, gives a decimal number that is never
rounded. `JsonMeaning` is the
reference: the Go value of a tree, where the instance says what number each
literal writes and what each text with escapes decodes to.

**`NodeWalk`** walks one document with `ForEachArray` or `ForEachObject`; a turn
of the loop with its call is a step, and the function answers either way. That a
document does not end with a backslash (`TextAssumption`) is what every JSON value
has, and what keeps the scan of strings inside it; `LayoutAssumption` says where the
items of a container lie.
**`Lookups`** (with **`RawPath`**, package raw) is a client that takes its node
through any sequence of `Get`, `GetPath`, `GetPathFast`, `ArrayIndex` and walks; its
first node may come from `raw.From`, which can refuse (`OpenFrom`). Or it asks `raw`
for a path with and without a plan. A document comes with the places of its values
(`value`, `inside`), which `DocumentAssumption` says are where JSON has them;
`target` is the place the client's node should stand for, and the functions only see
the text. **`Conversions`** adds the client that converts what it landed on with
`ToNativeBytes` (`Convert`), judged by the tree; its behaviours without that step are
those of `LookupSpec`. **`ManyReads`** is a caller that uses one buffer for
`GetManyInto` again and again. `HandOut` is a turn of the scan: the first key that
the member equals and that has no hit yet gets it; `HandOutAll` is the scan. Its
`ValueAssumption` leaves out texts that end where the value of a member should be,
like `{"a":`: there the member is counted (`node.go:380`) with the type of a node
that was not found.

**`HotPaths`** (hot path ring). The actions are the slot loads of `HitHot`, the
add and the store of `PutHot`, and the two outcomes of the top-key scanner before
them in `get`. Its variable `adds` counts adds up to one past the ring's size and
only serves to say "in the first lap".

**`Picker`**. `PickData` for nil, documents, maps and structs, with the load, scan
and store of the type cache as steps, while `SetDefaultDrillKeys` replaces the
default list. A map of another type is gone through in any order. Lists are
replaced by lists of one length (`OneLengthAssumption`): the slice header is
written without synchronisation, and lists of two lengths could be read torn.
`asked` is a note of the lists that calls on a type passed, for
`OneListPicksAsFresh`; it is no state of the code.

**`SchemaCache`** (struct schemas). A call is a stack of `buildSchema` frames;
`LookupHit`, `LookupMiss`, `StoreNested` are `lookupOrBuild`, `StoreOwn` is the
`LoadOrStore` of `Compile` or the `Store` of `GetByPtr`, `Read` is `getAt`. A
schema is its type and the schemas of its nested fields; offsets and readers are
abstracted to "the field at this path". `Read` asserts what was read to the type
the caller asks for: any for `GetAny` and `GetByPtr`, any or a type of fields for
`Get`, the struct's own type for `GetByPtrTyped`. A path is the sequence of its names, so
the trailing dot that `getAt` ignores is not there.

**`TopKeys`, `TopKeyScan`, `Getters`** (top-key scanner, typed getters, iterators).
`TopKeys` has the scanner's state machine; `Turn` is a turn of its loop.
`TopKeyScan` is what a call does before gjson is asked: the checks of `convert.From`
and of the size (`Refuse`), and the scan turn by turn (`BeginScan`, `ScanTurn`).
`Getters` is the whole call, with the value gjson finds (`Gjson`, external), and one
of the getters (`Typed`), or `AnyMany`, or an iterator whose function may stop it at
every call (`BeginEach`, `Visit`, `EndEach`). `AnyAsFast` and `AnyDataAsFast` each have
their ladder of types, the one over `viewFromG` (`ViewKind`), the other over the types of
gjson, and share only what both fall back to (`NativeAs`). Each of its actions contains one of
`ScanNext`, those behind the scan `Beside`, so its behaviours are behaviours of
`ScanSpec`, about which the theorem is. Documents are whole (`InputAssumption` says
where their values lie), cut off anywhere, nil, or no UTF-8. The scan goes over the
cut ones too and ends in `panic` for some; what gjson makes of them is not modelled.
Left out of the scan, and of no property's concern, are the capital letters of
`IsSimpleTopKey` and the control characters the scan takes for white space beside the
four of JSON.

**`Decoder`** (struct decoder). A variable of a struct type is decoded into again
and again; `DecodeValue` is `decodeValue` with `decodeStruct`, over strings,
booleans, integers narrower than an int, floats, times, bytes, pointers, structs,
slices and maps, and `PlanOf` is what `buildTypePlan` says of the fields: tags,
paths in tags, "-", fields that are not exported. `Expected` is the reference: the
same over trees, without scanning.

## 3. The runs

Passing runs:

| Run | Instance | Distinct states | Shows |
|---|---|---|---|
| `path_plan` | 2 goroutines, 3 paths (one empty), lists of 1 and 2, ring 2, probes 2, 2 buffers, counter modulo 4 | 496,068 | `BuffersExclusive`, `PlansBelongToTheirPaths`, `CallsReturn`, `ImplementsPathCompiler` |
| `type_plans` | 3 goroutines, 2 structs, a pointer, a type without fields | 40,316 | `BuiltOnce`, `RegistryGrows`, `CallsEnd`, `ImplementsPlanLookup` |
| `node_walk` | generated documents of depth 2, with and without white space | 12,052 | `ItemsHandedOver`, `NoItemLeftOut`, `SpansInOrder`, `WalkEnds` |
| `lookups` | generated documents of depth 2 and 3, paths of up to 3 tokens, ints of 8 bits, floats of 5 | 101,989 | `KeysLandRight`, `IndexesLandRight`, `PathAnswersRight`, `PlanAnswersRight`, `NativeRight` |
| `many_reads` | 7 documents, 15 lists of up to 3 keys, buffer of 2 | 14,726 | `OneScanAnswersAsGets`, `RestUntouched` |
| `hot_paths` | 2 goroutines, 3 paths, ring 4, probes 2, counter modulo 8 | 232,603 | `FirstLapKeepsAll`, `GetsReturn` |
| `picker` | 2 goroutines, 2 struct types, 3 maps, 4 lists of keys | 1,691,232 | `PicksWhatACallNames`, `OneListPicksAsFresh` |
| `schema_cache` | 2 goroutines, 3 struct types that share one another, 2 types of fields, nil pointers, 6 paths | 169,227 | `SchemasComplete`, `ReadsRight`, `CallsEnd` |
| `getters` | documents of up to 2 members and all their beginnings, 5 paths, 8 types asked for, ints of 8 bits, floats of 5 | 348,145 | `TopKeyFound`, `ScanEnds`, `AnswersExact`, `GettersAgree`, `TypeOfAnyPredicts` |
| `decoder` | 6 struct types, documents with every kind of value for every kind of field, any sequence of decodes | 4,103 | `DecodesRight`, `RetryChangesNothing`, `FailureChangesNothing` |

The runs of the caches and of `NodeWalk` also check `TypeOK`.

Why the bounds are enough. The races need two goroutines between load and store,
who then also profit from what is stored, and three for the mutex; the rings need paths whose probes overlap, a counter
that goes round the ring and past its own width, and a goroutine that sleeps in
between, all of which the instances have. Hashes are chosen to collide. The
documents hold strings of the characters the scanners look at, in every position
that nesting of depth two has. Counters are never cut off by a guard, they wrap
as in the code: `IntWrap`, `CounterWrap` and `IndexWrap` are small in the runs
and stand for 2^64 or 2^32. Where the properties are about numbers, an int has 8
bits, with 127, 128, -128 and 999 among the literals, and digits are still decimal,
so a parser meets its limit at the third digit; a float has a mantissa of 5 bits, and
floats go from 2^-9 to below 512, so that 127 and 49.5 are rounded, 0.01 has only 3 bits, and 1e3, 999 and 1300 are beyond all floats; the limits of times (30, 100, and 4
to multiply with) stand in the same order to them as in the code, so that a count
of milliseconds may overflow. `MaxJSONSize` lets documents of both sizes happen.

Runs in which TLC finds a violation; each quotes, in `findings`, the line the
code departs from:

| Run | What the code does |
|---|---|
| `schema_recursive` | the schema of a recursive struct type never ends |
| `getters_any_as` | `AnyAs[int64]`, the README's example, answers false for an integer |

Other places where the code does less than its comments say, which the models
contain (the operators are translated from the code) and the properties go
around by an explicit condition:

- `findValueEnd` counts brackets inside strings, so an element like `["]"]` of an
  array is cut short (`node.go:749`); condition `bracketFree`. `ForEachArray` of
  `[{"a":"}x"}]` even calls its function for ever: after the text that is left the
  loop stands at a closing brace, where the end found is the start
  (`node.go:771`); `WalkEnds` excepts such arrays, and no object;
- `GetBytesByPlan`, the recommended fast path (`raw.go:31`), never finds an object
  key: its node comes from `New` and has no type (`raw.go:33`);
  `PlanAnswersRight` says so;
- `GetData` after a `GetDataWithKeys` with other keys misses the data field of the
  same struct type, as the cache of types does not know the keys
  (`picker.go:81`); `OneListPicksAsFresh` is for types asked with one list;
- a number with white space behind it, inside a container, has a span that takes
  the white space in (`node.go:771`): `Int` fails, `Decode` leaves the field, and
  `ToNativeBytes` answers with the text, which its comment takes for impossible
  (`native_bytes.go:35`); condition on `ws` and `HasNumbers`;
- a number beyond all floats, like `1e999`, is an error to `strconv.ParseFloat`
  (`parser.go:52`, `bytes.go:49`), so `ToNative` and `ToNativeBytes` answer with its
  text, the latter for an integer of 310 digits too, where its comment takes that for
  impossible as well, and `TypeOfAny` says "float" or "int"; `NumberOf` and `StaysText`
  say so;
- of a container that holds an integer beyond an int, or a key with escapes,
  `ToNative` and `ToNativeBytes` make different values (text and float, a key
  decoded and as it is written); condition `ConvertedAlike`;
- `AnyAsFast[float64]` of an integer rounds it like any float (`gcjson.go:242`), so
  above 2^53 it may lose digits; `AnswersExact` promises the nearest float;
- in a text that ends where the value of a member should be, like `{"a":`, `GetPath`
  answers a node that has bytes and no type (`node.go:310`) for more keys too, where
  its comment says it is a chain of `Get`, and `GetPathFast` the empty node;
  `GetPathFastAsGetPath` says so;
- integers that do not fit wrap in `Int` (`node.go:218`) and in paths
  (`pathplan.go:124`), are text from `ToNative` (`parser.go:74`) and floats from
  `ToNativeBytes` (`native_bytes.go:32`) as far as floats go; the smallest int64 is refused
  (`parser.go:40`); conditions `FitsInt`, `FitsInt64`, `NumbersFit`. Narrow fields
  of structs take the low bits (`decode_complex.go:76`), which `Expected` says;
- milliseconds beyond 2^63 nanoseconds wrap (`decode_complex.go:192`);
- a `\u` escape of a surrogate makes `UnescapedString` panic (`node.go:811`); one
  that is cut off or unknown is dropped; and keys are never decoded, by lookups or
  by `ToNativeBytes`, while gjson decodes them;
- `AnyAsFast` gives strings undecoded, which its comment says, while
  `AnyDataAsFast` decodes them; `AnyDataAs[int]` never answers, and
  `AnyDataAs[float64]` does not for 3, where the fast variants do;
  `GettersAgree` states what is left;
- `TypeOfAny` is "unknown" for null and "null" where nothing is
  (`gcjson.go:312`); `TypeOfAnyPredicts` says so;
- `GetByPtrTyped` never answers, as a struct has no field of its own type
  (`structfast.go:110`), so the struct path of `AnyAs` never does; a nil `*T` is
  followed and panics;
- `Decode` of null into a pointer allocates its pointee and returns false
  (`decode_complex.go:45`); `FailureChangesNothing` allows it;
- `GetTopKeyFast` panics for a document that ends behind the opening quote of a
  key (`fast.go:71`); the model has the step;
- `ArrayIndex` of a node that a walk handed out reads the whole document's bytes
  and answers for the document (`node.go:110`); condition in `IndexesLandRight`;
- `GetManyInto` finds a key that is asked for twice once only (`node.go:380`), and
  its early return for nodes that are no objects leaves the hits of an earlier
  call in `out` (`node.go:320`); conditions `Distinct` and `Scannable`;
- the hot ring is filled by counter and probed by hash (`hot.go:16`, `hot.go:24`),
  so a path that is in it is found only by chance; nothing depends on a hit;
- `AnyData` of a document does not drill, against `doc.go:31` (`picker.go:108`);
- two goroutines may both build the schema of one type (`dyn.go:22`), although
  its comment says reflection runs once; `SchemasComplete` holds all the same;
- a path that ends at a field of struct type reads nothing (`structfast.go:145`);
  `Readable` says so.

The passing runs state what remains true in spite of them, with the condition by
name: `bracketFree` (no container has its own kind of bracket in one of its
strings), `FitsInt` (an index fits an int), `FitsInt64` and `NumbersFit` (so do numbers), no
white space behind numbers, distinct keys, one list of keys for a type, types that
are not recursive, and `ConvertedAlike`.

Deadlock is checked in all runs but `node_walk`, `lookups`, `getters` and
`getters_any_as`, where a finished walk, a client that reached nothing and a call
that returned may stop.

## 4. Fairness

`WF_vars(Step(g))` or `WF_vars(Running(g))`: a goroutine inside a call is
scheduled until it returns; it is under no obligation to call. Only `Lock(g)` has
strong fairness, as `sync.Mutex` hands itself to a waiter that has starved for a
millisecond. `NodeWalk` is one sequential loop, and its function may stop it at
any call but need not. In `Getters` only the loop of the scanner has fairness, for
the same reason: `ScanEnds` says that it ends once it goes on.

## 5. What is proved

| Module | Theorems | For every |
|---|---|---|
| `PathPlanProofs` | `TypeCorrect`, `BuffersAreExclusive`, `PlansAreRight`, `Refinement` | number of goroutines, set of paths, ring size, hash, stride, probe count |
| `TypePlansProofs` | `TypeCorrect`, `EachTypeBuiltOnce`, `NothingLost`, `Refinement` | number of goroutines, set of types, `Elem` |
| `HotPathsProofs` | `TypeCorrect`, `FirstLapForgetsNothing` | number of goroutines, set of paths, ring size, hash, probe count |
| `PickerProofs` | `TypeCorrect`, `PicksOnlyWhatIsNamed`, `CacheChangesNothing` | number of goroutines, struct types and their fields, maps, lists of keys |
| `SchemaCacheProofs` | `TypeCorrect`, `WholeSchemas`, `ReadsAreRight` | number of goroutines, finite set of struct types, recursive ones too, values, paths |
| `NodeWalkProofs` | `TypeCorrect`, `SpansAreInOrder` | set of texts of any length, well-formed or not, width of the index |
| | `EachItemHandedOver`, `AllItemsHandedOver` | set of documents of any length and depth |
| `ReadProofs` | `OneScanAsGets`, `RestStays` | set of texts, lists of keys, length of the buffer |
| | `GetBytesLands`, `GetManyLands`, `ElementLands` | object or array in a text, key, list of keys, index |
| | `GetPathFastAsGetPath` | node of any text, also one cut off, and list of keys of any length |
| | `LookupsLand`, `IndexesLand` | set of documents of any length and depth, sequence of lookups |
| | `PathsAnswered`, `PlansAnswered` | set of documents, set of paths, width of an int |
| | `TopKeysFound` | set of documents of any length and depth, set of keys, limit of size |
| | `ParsedExactly`, `NodeIntAgrees` | text of any length, width of an int |

Assumptions are the named `ASSUME`s of the modules: sizes are positive numbers,
sentinels are no values, texts are sequences of characters, `CounterWrap` is a
multiple of the ring's size (`PathPlan`) or larger than it (`HotPaths`). Those that
say more are `OneLengthAssumption` (`Picker`), `ValueAssumption` (`ManyReads`),
`TextAssumption` (`NodeWalk`; `SpansAreInOrder` does without it), and those that
documents are JSON, `LayoutAssumption` (`NodeWalk`), `DocumentAssumption` (`Lookups`)
and `InputAssumption` (`TopKeyScan`, for whole documents), see section 2. `AskedAssumption` says that a path has a token, as every
Go string does, and that the empty key is no name.
`SchemaAssumption` says that the fields of a struct have different names, which Go
demands, and that a nested field is of a struct type.

The arguments. *PathPlan*: what goes into the ring must be the plan of its path,
so what was copied must be, so the cells of the buffer must be the tokens parsed
so far (`Parsed`), and they stay so because nobody else holds the buffer
(`BuffersExclusive`); `PlansBelongToTheirPaths` alone is not inductive. The lemma
`Frame` moves the facts of one goroutine past the steps of another.
*TypePlans*: while a goroutine builds, it holds the mutex, and the map it loaded
under it is still the published one (`LocalInv`), so the copy loses nothing; a
type that is not in the map was never built, or its builder is about to publish
(`CacheInv`). *HotPaths*: in the first lap the counter equals the number of adds,
tickets of goroutines before their store are different, and their slots are empty
(`ClaimInv`); a filled slot was claimed by an earlier ticket (`FilledInv`).
`Refinement` is step simulation under these invariants: every step is a step of
the abstract specification or leaves its variables alone.

*Picker*: the two properties speak of calls that are done, and a call may be done
with what another stored; so the invariant says of every map in the cache that it
is the scan of the type for a list some call passed (`AskedInv`), and of every call
where it stands and what it was called with (`CallInv`). A field the map has for a
key is then one the scan found under that key, and with one list for a type the
map is the one a fresh scan would make.

*SchemaCache*: a schema goes into the cache when its build ends, with what was
under it in the cache, and a reader may follow it to any depth. `IsSchema(s, t, n)`
says that `s` is what `t` expands to in `n` levels, and in any larger number of
them. A type that gets its schema adds one to the number of types that have one,
and at most one level to the depth, so `n` is that number (`CacheInv`). For each goroutine the
invariant describes its stack of builds (`GoroutineInv`): every frame's fields that
are done have schemas the cache has, and each frame builds a field of the frame
below it. `Grows` is why another goroutine's store disturbs none of it. A recursive
type never gets a schema, so no assumption on recursion is needed. `ReadsAreRight`
then walks a path down the value and the schema at once, by induction on its
length.

*NodeWalk*: the loop is never before the end of what it has handed over
(`Behind`), and whatever it hands over next starts where it stands or further on.
That every scan comes to an end, at or behind its start, is proved of each scan in
`Lemmas`: `StringEnd`, `BracketEnd`, `KeyEnd`, `FindValueEnd`, `After`, `Colon`.
`Inside` says that nothing leaves the document.

That the walk hands over each item of the document, and all of them, needs to know
where the loop stands: before item `k`, with nothing but its separator and key in
between (`StandsBefore`), or at the closing bracket. A turn that stands before an item
reads it (`ItemRead`) and goes on before the next; so the scans had to be shown to
find what is there: the closing quote (`StringEndFinds`), the bracket that balances
(`BracketEndFinds`), the end of a literal.

*ManyReads*: after the first `m` members (`Right`), an entry either holds the first of
them with its key, or nothing and none of them has it (`Answered`), and the keys
without a hit are counted by `remain`; so the scan may stop when `remain` is zero.
That the buffer starts with an earlier read's nodes does not matter, as their types
are cleared for these keys first. The loop over members ends as a value lies behind
its key (`MembersAreMembers`). The members of an object are the items of its text
(`MembersAreItems`), from which `GetBytesLands` and `GetManyLands` follow.

*Lookups*: `LookupInv` is inductive, its properties alone are not. Until the client
calls `ArrayIndex`, its node is exactly the one of its place (`Follows`): same start
and letter, and an end behind which there was only white space. `MemberFollows` and
`ElementFollows` take this through `Get` and through a walk, so it holds after any
sequence of them. `GetPathFastAsGetPath` needs no document: both walks are unfolded
step by step (`ThroughGets`, `ThroughScans`), the first member a scan meets is the one
`GetBytes` picks from all (`FirstMemberIsGet`), and behind the first step without a
type `GetPath` stands still while `GetPathFast` finds nothing. A node of `New` or `ArrayIndex` has no place in the document, only bytes that
begin with a value (`BeginsWith`), cut out of it behind an element (`Cut`).
`SkipFinds` shows that the strict scan of such bytes goes over exactly the value that
lies there, by induction on its length, as the items of a container are shorter than
it; then `IndexLands` follows the loop of `ArrayIndex`, and `IndexFollows` takes
`BeginsWith` to the next node. No bracket has to balance, since this scan knows
strings. A path is folded over its tokens or segs: `PathInSteps`, `PlanInSteps` and
`PlaceInSteps` turn the folds into steps, and `PathFollows` and `PlanFollows` are
inductions over them; a name in a plan ends it with "not found", as no node on the
way has a type.

*TopKeyScan*: the scan stands before a member of the object, none of those before it
has the key, or it stands behind all of them (`StandsIn`, in `ScanInv`). A turn before
a member hits, if the member has the key, or goes on before the next one or behind
the object (`TurnAtMember`); the rest is `TurnDecides`. What such a turn skips is the
value, with a loop of its own that counts brackets and knows strings. It goes
over a stretch without marks, over a string and over a whole value, and is then in
the state it was in before: `ValuesSkipped`, by induction on the length of the value.
`SkipToNextFinds` adds the comma or brace behind it.

*Numerals*: what `ParseIntFast` holds behind each digit is the number so far, or -1
if that does not fit (`GuardedHolds`); so it is enough that one turn refuses exactly
the digit that would make the number too large (`GuardIsExact`). `Int` has no guard
and holds the same as long as the number fits (`UnguardedHolds`). Of the width of an
int the two theorems only ask that it holds zero.

`Lemmas` has what makes these proofs possible. The provers are first-order and
cannot use the library's induction theorems, which take a predicate; but induction
can be stated for sets (`Induction`, from `Least`: a set of natural numbers has a
least element, by the library's `NatLessThanWellFounded`). A recursive function
is a `CHOOSE` in TLA+, so before anything can be said of one, a function that
meets its equation must be shown to exist: `WalkExists`, `BuildExists` and
`StepsExist` do so once and for all for a walk over positions, for a sequence that is
built on the way back from its end, and for a loop of a number of steps. `FoldLeft` is
such a function too, over sets of indexes, and `SkipValueUnfolds` does it for the scan
that calls itself for what is inside.

Only model-checked:

- liveness under fairness (`CallsReturn`, `CallsEnd`, `GetsReturn`, `WalkEnds`,
  `ScanEnds`, and so the fairness halves of the two refinements), which the prover
  does not reach;
- `NativeRight`, the properties of `Getters` but `TopKeyFound`, and those of
  `Decoder`. Their references, the Go values of trees, are `RECURSIVE` operators,
  with which the prover has no arithmetic, and to prove them is an induction over
  trees.

## 6. Not modelled, and what is left

Not modelled:

- what libraries do: gjson beyond "the value at a path" (its modifiers are
  switched off by `init`), what sonic and `encoding/json` write, the layouts of
  `time.Parse`;
- how `fast.ParseFloat` rounds, which multiplies floats with powers of ten
  (`fast.go:207`), and that it answers infinity beyond them;
- the key bytes that `EachObjectBytes` slices out of the document by positions
  gjson reports;
- `RawMany` and its like, which call what is modelled in a loop, and
  `Plan.String`, `putSegs`, which change nothing of what is modelled;
- a torn read of a slice header with lists of different lengths (`picker.go:11`).

What is left, the most useful first:

1. An abstract cache that `Picker` and `SchemaCache` refine where they are
   correct: one list of keys, types that are not recursive.
2. `GettersAgree` for every value: it only needs what `ToNative` makes of a number
   or a string, but lies in a module with `RECURSIVE` operators.
