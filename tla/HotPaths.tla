------------------------------ MODULE HotPaths ------------------------------
(***************************************************************************)
(* The ring of hot paths of package cache (cache/hot.go), and the function   *)
(* get of package gcjson, which every GetAny and GetData goes through and    *)
(* which looks the path up in the ring and puts it there.                   *)
(*                                                                          *)
(* Each atomic operation is a step: the Load of a slot by HitHot, the        *)
(* AddUint32 of PutHot and its Store.                                       *)
(***************************************************************************)
EXTENDS Integers

CONSTANTS
    Goroutines,
    Paths,
    SimplePaths,  \* those IsSimpleTopKey holds of
    NoPath,       \* the nil of a slot never stored
    HotSize,      \* HotSize, 64 in the code, a power of two
    Probes,       \* slots HitHot looks at, 4 in the code
    Hash,         \* Hash[p]: fastHash of the path
    CounterWrap   \* 2^32, where the uint32 hotPtr wraps

ASSUME PathsAssumption ==
    /\ SimplePaths \subseteq Paths
    /\ NoPath \notin Paths

ASSUME RingAssumption ==
    /\ HotSize \in Nat \ {0}
    /\ Probes \in Nat \ {0}
    /\ Hash \in [Paths -> Nat]
    /\ CounterWrap \in Nat
    /\ CounterWrap > HotSize

VARIABLES
    hotPaths,     \* hotPaths[s]: the path of slot s, or NoPath
    hotPtr,       \* the counter that claims slots
    adds,         \* how often it was added to, up to HotSize + 1
    pc,           \* pc[g]: where g stands in get
    path,         \* path[g]: the path of g's call
    probe,        \* probe[g]: i of HitHot
    ticket        \* ticket[g]: the counter value PutHot claimed

vars == <<hotPaths, hotPtr, adds, pc, path, probe, ticket>>

Slots == 0 .. HotSize - 1

(* (h+uint32(i)) & (HotSize-1)                                               *)
ProbeSlot(p, i) == (Hash[p] + i) % HotSize

(* i & (HotSize-1)                                                           *)
ClaimedSlot(t) == t % HotSize

Init ==
    /\ hotPaths = [s \in Slots |-> NoPath]
    /\ hotPtr = 0
    /\ adds = 0
    /\ pc = [g \in Goroutines |-> "idle"]
    /\ path = [g \in Goroutines |-> NoPath]
    /\ probe = [g \in Goroutines |-> 0]
    /\ ticket = [g \in Goroutines |-> 0]

Goto(g, from, to) == pc[g] = from /\ pc' = [pc EXCEPT ![g] = to]

(* get(b, path) begins.                                                      *)
Call(g, p) ==
    /\ Goto(g, "idle", IF p \in SimplePaths THEN "fast" ELSE "hit")
    /\ path' = [path EXCEPT ![g] = p]
    /\ UNCHANGED <<hotPaths, hotPtr, adds, probe, ticket>>

(* Whether GetTopKeyFast finds the key is up to the document.                *)
TopKeyFound(g) ==
    /\ Goto(g, "fast", "idle")
    /\ path' = [path EXCEPT ![g] = NoPath]
    /\ UNCHANGED <<hotPaths, hotPtr, adds, probe, ticket>>

TopKeyNotFound(g) ==
    /\ Goto(g, "fast", "hit")
    /\ UNCHANGED <<hotPaths, hotPtr, adds, path, probe, ticket>>

(* HitHot finds the path in the slot it looks at: get is done with the ring.  *)
HitHot(g) ==
    /\ Goto(g, "hit", "idle")
    /\ hotPaths[ProbeSlot(path[g], probe[g])] = path[g]
    /\ path' = [path EXCEPT ![g] = NoPath]
    /\ probe' = [probe EXCEPT ![g] = 0]
    /\ UNCHANGED <<hotPaths, hotPtr, adds, ticket>>

(* Probes that go round until the path is there.                             *)
MissHotForever(g) ==
    /\ pc[g] = "hit"
    /\ hotPaths[ProbeSlot(path[g], probe[g])] # path[g]
    /\ probe' = [probe EXCEPT ![g] = (probe[g] + 1) % Probes]
    /\ UNCHANGED <<hotPaths, hotPtr, adds, pc, path, ticket>>

(* HitHot goes on to the next slot, and after the last one to PutHot.        *)
MissHot(g) ==
    /\ pc[g] = "hit"
    /\ hotPaths[ProbeSlot(path[g], probe[g])] # path[g]
    /\ IF probe[g] + 1 < Probes
         THEN /\ probe' = [probe EXCEPT ![g] = probe[g] + 1]
              /\ UNCHANGED pc
         ELSE /\ probe' = [probe EXCEPT ![g] = 0]
              /\ pc' = [pc EXCEPT ![g] = "add"]
    /\ UNCHANGED <<hotPaths, hotPtr, adds, path, ticket>>

CountAdd == adds' = IF adds <= HotSize THEN adds + 1 ELSE adds

(* A counter that is not atomic: an increment may be lost.                   *)
ClaimSlotLossy(g) ==
    /\ Goto(g, "add", "store")
    /\ hotPtr' \in {hotPtr, (hotPtr + 1) % CounterWrap}
    /\ ticket' = [ticket EXCEPT ![g] = (hotPtr + 1) % CounterWrap]
    /\ CountAdd
    /\ UNCHANGED <<hotPaths, path, probe>>

(* A counter without a width.                                                *)
ClaimSlotUnbounded(g) ==
    /\ Goto(g, "add", "store")
    /\ hotPtr' = hotPtr + 1
    /\ ticket' = [ticket EXCEPT ![g] = hotPtr']
    /\ CountAdd
    /\ UNCHANGED <<hotPaths, path, probe>>

(* i := atomic.AddUint32(&hotPtr, 1)                                         *)
ClaimSlot(g) ==
    /\ Goto(g, "add", "store")
    /\ hotPtr' = (hotPtr + 1) % CounterWrap
    /\ ticket' = [ticket EXCEPT ![g] = hotPtr']
    /\ CountAdd
    /\ UNCHANGED <<hotPaths, path, probe>>

(* hotPaths[i&(HotSize-1)].Store(path)                                       *)
StorePath(g) ==
    /\ Goto(g, "store", "idle")
    /\ hotPaths' = [hotPaths EXCEPT ![ClaimedSlot(ticket[g])] = path[g]]
    /\ path' = [path EXCEPT ![g] = NoPath]
    /\ ticket' = [ticket EXCEPT ![g] = 0]
    /\ UNCHANGED <<hotPtr, adds, probe>>

Step(g) ==
    \/ TopKeyFound(g) \/ TopKeyNotFound(g)
    \/ HitHot(g) \/ MissHot(g)
    \/ ClaimSlot(g) \/ StorePath(g)

Next == \E g \in Goroutines : Step(g) \/ \E p \in Paths : Call(g, p)

(* A goroutine in get is scheduled until it returns.                         *)
Fairness == \A g \in Goroutines : WF_vars(Step(g))

Safety == Init /\ [][Next]_vars
Spec == Safety /\ Fairness

-----------------------------------------------------------------------------
(* Properties.                                                               *)

Running == {"fast", "hit", "add", "store"}

(* The ring holds paths, the counter stays in its width, and a goroutine has  *)
(* a path exactly while it is in get.                                        *)
TypeOK ==
    /\ hotPaths \in [Slots -> Paths \cup {NoPath}]
    /\ hotPtr \in 0 .. CounterWrap - 1
    /\ adds \in 0 .. HotSize + 1
    /\ pc \in [Goroutines -> Running \cup {"idle"}]
    /\ path \in [Goroutines -> Paths \cup {NoPath}]
    /\ \A g \in Goroutines : path[g] = NoPath <=> pc[g] = "idle"
    /\ probe \in [Goroutines -> 0 .. Probes - 1]
    /\ ticket \in [Goroutines -> 0 .. CounterWrap - 1]

(* The ring forgets no path before it is full: while the counter has not      *)
(* gone round, no Store of PutHot lands on a path that is there, however     *)
(* the goroutines between their AddUint32 and their Store are ordered.       *)
FirstLapKeepsAll ==
    [][adds' <= HotSize =>
         \A s \in Slots : hotPaths[s] # NoPath => hotPaths'[s] = hotPaths[s]]_vars

(* Every get comes to its answer, whatever the others do to the ring.        *)
GetsReturn == \A g \in Goroutines : pc[g] # "idle" ~> pc[g] = "idle"
=============================================================================
