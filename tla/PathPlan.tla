------------------------------ MODULE PathPlan ------------------------------
(***************************************************************************)
(* Package pathplan (internal/pathplan.go): Compile and CompileMany, called *)
(* by any number of goroutines over the package's shared state, which is    *)
(* the ring of hot plans and the pool of segment buffers.                   *)
(*                                                                          *)
(* Every atomic operation of the code on shared memory is a step of its     *)
(* own: each slot load of loadHot, the Get and Put of segPool, each append  *)
(* to the pooled buffer, the copy out of it, the AddUint64 of the ring's    *)
(* counter and the Store into the slot.                                     *)
(***************************************************************************)
EXTENDS PathSyntax

CONSTANTS
    Goroutines,
    Paths,        \* the paths that are compiled
    Requests,     \* the argument lists of CompileMany; Compile passes one path
    Buffers,      \* identities of the *[]seg headers the pool hands out
    NoBuffer,
    NoEntry,      \* the nil pointer of a slot never stored
    HotCap,       \* hotCap, 512 in the code, a power of two
    Probes,       \* slots loadHot looks at, 4 in the code
    Stride,       \* 0x9e3779b9, the distance of two probes
    Hash,         \* Hash[p]: fnv1a of the path
    CounterWrap   \* 2^64, where the uint64 hotNext wraps

ASSUME PathAssumption ==
    /\ Paths \subseteq Seq(Token) \ {<<>>}
    /\ Requests \subseteq Seq(Paths) \ {<<>>}
    /\ NoName \notin Names

ASSUME RingAssumption ==
    /\ HotCap \in Nat \ {0}
    /\ Probes \in Nat \ {0}
    /\ Stride \in Nat
    /\ Hash \in [Paths -> Nat]
    /\ CounterWrap \in Nat \ {0}
    /\ CounterWrap % HotCap = 0
    /\ IntWrap \in Nat \ {0}
    /\ IntWrap % 2 = 0

ASSUME SentinelAssumption ==
    /\ NoBuffer \notin Buffers
    /\ NoEntry \notin [key : Paths, plan : Seq([key : Names \cup {NoName}, idx : Int])]

VARIABLES
    hot,          \* hot[s]: the entry of slot s, or NoEntry
    hotNext,      \* the counter that claims slots
    pool,         \* the buffers segPool holds
    mem,          \* mem[b]: the cells of buffer b ever written
    pc,           \* pc[g]: where g stands in CompileMany and Compile
    request,      \* request[g]: the list g compiles
    answers,      \* answers[g]: out[:i] of CompileMany
    probe,        \* probe[g]: i of loadHot
    buf,          \* buf[g]: the buffer g took from the pool
    segsLen,      \* segsLen[g]: len(segs) of Compile
    plan,         \* plan[g]: the plan Compile is about to return
    ticket        \* ticket[g]: the counter value storeHot claimed

shared == <<hot, hotNext, pool, mem>>
vars == <<hot, hotNext, pool, mem, pc, request, answers, probe, buf, segsLen,
          plan, ticket>>

-----------------------------------------------------------------------------
(* The plan a path must get, whatever the cache and the pool hold.           *)
PlanOf == [p \in Paths |-> SegsOf(p)]

Entry == [key : Paths, plan : Seq(Seg)]

Slots == 0 .. HotCap - 1

(* (h + i*0x9e3779b9) & (hotCap-1)                                           *)
ProbeSlot(p, i) == (Hash[p] + i * Stride) % HotCap

(* i & (hotCap-1)                                                            *)
ClaimedSlot(t) == t % HotCap

(* e := hot[slot].Load(); e != nil && e.key == k                             *)
Serves(e, p) == e # NoEntry /\ e.key = p

(* The path g is compiling.                                                  *)
Path(g) == request[g][Len(answers[g]) + 1]

Held == {buf[g] : g \in Goroutines} \ {NoBuffer}

-----------------------------------------------------------------------------
(* The steps of one call.                                                    *)

Init ==
    /\ hot = [s \in Slots |-> NoEntry]
    /\ hotNext = 0
    /\ pool = {}
    /\ mem = [b \in Buffers |-> <<>>]
    /\ pc = [g \in Goroutines |-> "idle"]
    /\ request = [g \in Goroutines |-> <<>>]
    /\ answers = [g \in Goroutines |-> <<>>]
    /\ probe = [g \in Goroutines |-> 0]
    /\ buf = [g \in Goroutines |-> NoBuffer]
    /\ segsLen = [g \in Goroutines |-> 0]
    /\ plan = [g \in Goroutines |-> <<>>]
    /\ ticket = [g \in Goroutines |-> 0]

Goto(g, from, to) ==
    /\ pc[g] = from
    /\ pc' = [pc EXCEPT ![g] = to]

(* A goroutine calls CompileMany, or Compile with the list of one path.      *)
Call(g) ==
    /\ Goto(g, "idle", "next")
    /\ \E r \in Requests : request' = [request EXCEPT ![g] = r]
    /\ UNCHANGED <<shared, answers, probe, buf, segsLen, plan, ticket>>

(* Compile("") returns an empty plan and touches neither cache nor pool.     *)
CompileEmpty(g) ==
    /\ Goto(g, "next", "deliver")
    /\ Len(answers[g]) < Len(request[g])
    /\ Path(g) = EmptyPath
    /\ plan' = [plan EXCEPT ![g] = <<>>]
    /\ UNCHANGED <<shared, request, answers, probe, buf, segsLen, ticket>>

Compile(g) ==
    /\ Goto(g, "next", "load")
    /\ Len(answers[g]) < Len(request[g])
    /\ Path(g) # EmptyPath
    /\ probe' = [probe EXCEPT ![g] = 0]
    /\ UNCHANGED <<shared, request, answers, buf, segsLen, plan, ticket>>

(* A loadHot that trusts the slot and does not compare the key.              *)
LoadHitAnyKey(g) ==
    LET e == hot[ProbeSlot(Path(g), probe[g])] IN
    /\ Goto(g, "load", "deliver")
    /\ e # NoEntry
    /\ plan' = [plan EXCEPT ![g] = e.plan]
    /\ UNCHANGED <<shared, request, answers, probe, buf, segsLen, ticket>>

(* A probe of loadHot finds the path: Compile returns the cached plan.       *)
LoadHit(g) ==
    LET e == hot[ProbeSlot(Path(g), probe[g])] IN
    /\ Goto(g, "load", "deliver")
    /\ Serves(e, Path(g))
    /\ plan' = [plan EXCEPT ![g] = e.plan]
    /\ UNCHANGED <<shared, request, answers, probe, buf, segsLen, ticket>>

(* A loadHot whose loop forgot i++.                                          *)
LoadMissSameSlot(g) ==
    LET e == hot[ProbeSlot(Path(g), probe[g])] IN
    /\ Goto(g, "load", "load")
    /\ ~ Serves(e, Path(g))
    /\ UNCHANGED <<shared, request, answers, probe, buf, segsLen, plan, ticket>>

(* A loadHot whose loop condition is i <= 4.                                 *)
LoadMissOneMore(g) ==
    LET e == hot[ProbeSlot(Path(g), probe[g])] IN
    /\ pc[g] = "load"
    /\ ~ Serves(e, Path(g))
    /\ Goto(g, "load", IF probe[g] < Probes THEN "load" ELSE "get")
    /\ probe' = [probe EXCEPT ![g] = @ + 1]
    /\ UNCHANGED <<shared, request, answers, buf, segsLen, plan, ticket>>

(* The slot holds nothing or another path: the next slot, or a compilation.  *)
LoadMiss(g) ==
    LET e == hot[ProbeSlot(Path(g), probe[g])] IN
    /\ pc[g] = "load"
    /\ ~ Serves(e, Path(g))
    /\ Goto(g, "load", IF probe[g] + 1 < Probes THEN "load" ELSE "get")
    /\ probe' = [probe EXCEPT ![g] = @ + 1]
    /\ UNCHANGED <<shared, request, answers, buf, segsLen, plan, ticket>>

(* A segPool.Get that leaves the buffer in the pool.                         *)
PoolGetKeepingIt(g) ==
    /\ Goto(g, "get", "parse")
    /\ \E b \in pool \cup (Buffers \ Held) : buf' = [buf EXCEPT ![g] = b]
    /\ pool' = pool \cup {buf'[g]}
    /\ segsLen' = [segsLen EXCEPT ![g] = 0]
    /\ UNCHANGED <<hot, hotNext, mem, request, answers, probe, plan, ticket>>

(* segPool.Get: some buffer of the pool, or a new one, which is memory that  *)
(* no goroutine refers to; the buffer is cut to length 0.                    *)
PoolGet(g) ==
    /\ Goto(g, "get", "parse")
    /\ \E b \in pool \cup (Buffers \ Held) :
         /\ buf' = [buf EXCEPT ![g] = b]
         /\ pool' = pool \ {b}
    /\ segsLen' = [segsLen EXCEPT ![g] = 0]
    /\ UNCHANGED <<hot, hotNext, mem, request, answers, probe, plan, ticket>>

(* What append writes: cell n of the buffer, over what an earlier user left. *)
Written(cells, n, sg) ==
    IF n <= Len(cells) THEN [cells EXCEPT ![n] = sg] ELSE Append(cells, sg)

(* A Compile that gives the buffer back once it is parsed, before the copy.  *)
AppendSegThenPut(g) ==
    /\ pc[g] = "parse"
    /\ segsLen[g] < Len(Path(g))
    /\ segsLen' = [segsLen EXCEPT ![g] = @ + 1]
    /\ mem' = [mem EXCEPT ![buf[g]] =
                 Written(@, segsLen'[g], Segment(Path(g)[segsLen'[g]]))]
    /\ pool' = IF segsLen'[g] = Len(Path(g)) THEN pool \cup {buf[g]} ELSE pool
    /\ UNCHANGED <<hot, hotNext, pc, request, answers, probe, buf, plan, ticket>>

(* segs = append(segs, ...) for the next token of the path.                  *)
AppendSeg(g) ==
    /\ pc[g] = "parse"
    /\ segsLen[g] < Len(Path(g))
    /\ segsLen' = [segsLen EXCEPT ![g] = @ + 1]
    /\ mem' = [mem EXCEPT ![buf[g]] =
                 Written(@, segsLen'[g], Segment(Path(g)[segsLen'[g]]))]
    /\ UNCHANGED <<hot, hotNext, pool, pc, request, answers, probe, buf, plan,
                   ticket>>

(* plan := &Plan{make(...)}; copy(plan.Segs, segs)                           *)
CopyPlan(g) ==
    /\ Goto(g, "parse", "put")
    /\ segsLen[g] = Len(Path(g))
    /\ plan' = [plan EXCEPT ![g] = SubSeq(mem[buf[g]], 1, segsLen[g])]
    /\ UNCHANGED <<shared, request, answers, probe, buf, segsLen, ticket>>

(* *sb = segs[:0]; segPool.Put(sb)                                           *)
PoolPut(g) ==
    /\ Goto(g, "put", "claim")
    /\ pool' = pool \cup {buf[g]}
    /\ buf' = [buf EXCEPT ![g] = NoBuffer]
    /\ UNCHANGED <<hot, hotNext, mem, request, answers, probe, segsLen, plan,
                   ticket>>

(* storeHot: atomic.AddUint64(&hotNext, 1)                                   *)
ClaimSlot(g) ==
    /\ Goto(g, "claim", "store")
    /\ hotNext' = (hotNext + 1) % CounterWrap
    /\ ticket' = [ticket EXCEPT ![g] = hotNext']
    /\ UNCHANGED <<hot, pool, mem, request, answers, probe, buf, segsLen, plan>>

(* storeHot: hot[slot].Store(&hotEntry{key: k, plan: p})                     *)
StoreHot(g) ==
    /\ Goto(g, "store", "deliver")
    /\ hot' = [hot EXCEPT ![ClaimedSlot(ticket[g])] =
                 [key |-> Path(g), plan |-> plan[g]]]
    /\ UNCHANGED <<hotNext, pool, mem, request, answers, probe, buf, segsLen,
                   plan, ticket>>

(* Compile returns, its locals go out of scope, out[i] is its plan, and      *)
(* CompileMany goes to path i+1.                                             *)
Deliver(g) ==
    /\ Goto(g, "deliver", "next")
    /\ answers' = [answers EXCEPT ![g] = Append(@, plan[g])]
    /\ probe' = [probe EXCEPT ![g] = 0]
    /\ segsLen' = [segsLen EXCEPT ![g] = 0]
    /\ plan' = [plan EXCEPT ![g] = <<>>]
    /\ ticket' = [ticket EXCEPT ![g] = 0]
    /\ UNCHANGED <<shared, request, buf>>

(* CompileMany returns out to its caller.                                    *)
Return(g) ==
    /\ Goto(g, "next", "idle")
    /\ Len(answers[g]) = Len(request[g])
    /\ request' = [request EXCEPT ![g] = <<>>]
    /\ answers' = [answers EXCEPT ![g] = <<>>]
    /\ UNCHANGED <<shared, probe, buf, segsLen, plan, ticket>>

(* The garbage collector may empty a sync.Pool at any time.                  *)
PoolDrop ==
    /\ \E b \in pool : pool' = pool \ {b}
    /\ UNCHANGED <<hot, hotNext, mem, pc, request, answers, probe, buf,
                   segsLen, plan, ticket>>

(* What g itself does once it called; each step is enabled until it returns. *)
Running(g) ==
    \/ CompileEmpty(g) \/ Compile(g)
    \/ LoadHit(g) \/ LoadMiss(g)
    \/ PoolGet(g) \/ AppendSeg(g) \/ CopyPlan(g) \/ PoolPut(g)
    \/ ClaimSlot(g) \/ StoreHot(g)
    \/ Deliver(g) \/ Return(g)

Next ==
    \/ \E g \in Goroutines : Call(g) \/ Running(g)
    \/ PoolDrop

(* The scheduler runs every runnable goroutine eventually; nothing in        *)
(* Compile blocks.                                                           *)
Fairness == \A g \in Goroutines : WF_vars(Running(g))

Safety == Init /\ [][Next]_vars
Spec == Safety /\ Fairness

-----------------------------------------------------------------------------
(* Properties.                                                               *)

Label == {"idle", "next", "load", "get", "parse", "put", "claim", "store",
          "deliver"}

(* Every variable of the package and of the calls has its type.              *)
TypeOK ==
    /\ hot \in [Slots -> Entry \cup {NoEntry}]
    /\ hotNext \in 0 .. CounterWrap - 1
    /\ pool \in SUBSET Buffers
    /\ mem \in [Buffers -> Seq(Seg)]
    /\ pc \in [Goroutines -> Label]
    /\ request \in [Goroutines -> Requests \cup {<<>>}]
    /\ answers \in [Goroutines -> Seq(Seq(Seg))]
    /\ probe \in [Goroutines -> 0 .. Probes]
    /\ buf \in [Goroutines -> Buffers \cup {NoBuffer}]
    /\ segsLen \in [Goroutines -> Nat]
    /\ plan \in [Goroutines -> Seq(Seg)]
    /\ ticket \in [Goroutines -> 0 .. CounterWrap - 1]

(* A pooled buffer is in one place: no two goroutines of Compile append to   *)
(* the same one, and none is handed out again while it is being written.     *)
BuffersExclusive ==
    \A g \in Goroutines :
      buf[g] # NoBuffer =>
        /\ buf[g] \notin pool
        /\ \A h \in Goroutines \ {g} : buf[h] # buf[g]

(* Whatever the interleaving of calls, a plan in the ring is the plan of the *)
(* path it is filed under, and so is every plan CompileMany has put in out:  *)
(* neither a reused buffer nor a slot overwritten by another goroutine       *)
(* between the probe and the use makes Compile return another path's plan.   *)
PlansBelongToTheirPaths ==
    /\ \A s \in Slots : hot[s] # NoEntry => hot[s].plan = PlanOf[hot[s].key]
    /\ \A g \in Goroutines :
         \A i \in 1 .. Len(answers[g]) : answers[g][i] = PlanOf[request[g][i]]

(* Every call of Compile and CompileMany returns: no interleaving of ring    *)
(* and pool operations makes a goroutine probe, parse or store for ever.     *)
CallsReturn ==
    \A g \in Goroutines : pc[g] # "idle" ~> pc[g] = "idle"

(* The package implements the specification without cache and pool: each     *)
(* request is answered in order, by plans that depend on the paths alone.    *)
Abstract == INSTANCE PathCompiler

ImplementsPathCompiler == Abstract!Spec
=============================================================================
