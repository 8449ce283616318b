--------------------------- MODULE HotPathsProofs ---------------------------
(***************************************************************************)
(* Proofs about HotPaths: its type invariant, and that the ring of hot paths *)
(* forgets nothing before it is full.                                       *)
(*                                                                          *)
(* The second needs to know that in the first lap the tickets of different   *)
(* puts claim different slots, and that none of them is filled.             *)
(***************************************************************************)
EXTENDS HotPaths, TLAPS

Storing(g) == pc[g] = "store"

(* In the first lap, hotPtr counts the AddUint32s.                           *)
CounterInv == adds <= HotSize => hotPtr = adds

(* The tickets of goroutines before their Store are claimed and different,    *)
(* and their slots are empty.                                                *)
ClaimInv ==
    adds <= HotSize =>
        /\ \A g \in Goroutines : Storing(g) =>
             /\ ticket[g] \in 1 .. adds
             /\ hotPaths[ClaimedSlot(ticket[g])] = NoPath
        /\ \A g, h \in Goroutines :
             Storing(g) /\ Storing(h) /\ ticket[g] = ticket[h] => g = h

(* A slot is filled by a ticket that was claimed.                            *)
FilledInv ==
    adds <= HotSize =>
        \A s \in Slots : hotPaths[s] # NoPath =>
            \E t \in 1 .. adds : ClaimedSlot(t) = s

IInv == TypeOK /\ CounterInv /\ ClaimInv /\ FilledInv

-----------------------------------------------------------------------------

(* A ticket below the size of the ring is its own slot, and the last of a lap *)
(* is slot 0.                                                                *)
LEMMA SlotOfTicket ==
    ASSUME NEW t \in 1 .. HotSize
    PROVE  ClaimedSlot(t) = IF t = HotSize THEN 0 ELSE t
BY RingAssumption DEF ClaimedSlot

(* The tickets of a lap claim different slots.                               *)
LEMMA SlotsOfALap ==
    ASSUME NEW t \in 1 .. HotSize, NEW u \in 1 .. HotSize,
           ClaimedSlot(t) = ClaimedSlot(u)
    PROVE  t = u
BY SlotOfTicket, RingAssumption

(* A probe looks at a slot of the ring.                                      *)
LEMMA ProbeInRing == ASSUME NEW p \in Paths, NEW i \in Nat
                     PROVE  ProbeSlot(p, i) \in Slots
BY RingAssumption DEF ProbeSlot, Slots

(* A ticket claims a slot of the ring.                                       *)
LEMMA ClaimInRing == ASSUME NEW t \in Nat PROVE ClaimedSlot(t) \in Slots
BY RingAssumption DEF ClaimedSlot, Slots

(* The inductive invariant holds at first.                                   *)
LEMMA Initially == Init => IInv
BY PathsAssumption, RingAssumption
DEF Init, IInv, TypeOK, CounterInv, ClaimInv, FilledInv, Storing, Slots, Running

(* Types are kept by every step.                                             *)
LEMMA TypeKept == TypeOK /\ [Next]_vars => TypeOK'
<1> SUFFICES ASSUME TypeOK, [Next]_vars PROVE TypeOK'
  OBVIOUS
<1> USE PathsAssumption, RingAssumption DEF TypeOK, Running
<1>1. ASSUME NEW g \in Goroutines, NEW p \in Paths, Call(g, p) PROVE TypeOK'
  BY <1>1 DEF Call, Goto
<1>2. ASSUME NEW g \in Goroutines, TopKeyFound(g) PROVE TypeOK'
  BY <1>2 DEF TopKeyFound, Goto
<1>3. ASSUME NEW g \in Goroutines, TopKeyNotFound(g) PROVE TypeOK'
  BY <1>3 DEF TopKeyNotFound, Goto
<1>4. ASSUME NEW g \in Goroutines, HitHot(g) PROVE TypeOK'
  BY <1>4 DEF HitHot, Goto
<1>5. ASSUME NEW g \in Goroutines, MissHot(g) PROVE TypeOK'
  <2>1. CASE probe[g] + 1 < Probes
    BY <1>5, <2>1 DEF MissHot
  <2>2. CASE ~ (probe[g] + 1 < Probes)
    BY <1>5, <2>2 DEF MissHot
  <2> QED BY <2>1, <2>2
<1>6. ASSUME NEW g \in Goroutines, ClaimSlot(g) PROVE TypeOK'
  <2>1. hotPtr' \in 0 .. CounterWrap - 1
    BY <1>6 DEF ClaimSlot
  <2>2. adds' \in 0 .. HotSize + 1
    BY <1>6 DEF ClaimSlot, CountAdd
  <2> QED BY <1>6, <2>1, <2>2 DEF ClaimSlot, Goto
<1>7. ASSUME NEW g \in Goroutines, StorePath(g) PROVE TypeOK'
  <2>1. hotPaths' \in [Slots -> Paths \cup {NoPath}]
    BY <1>7, ClaimInRing DEF StorePath, Goto
  <2> QED BY <1>7, <2>1 DEF StorePath, Goto
<1>8. CASE UNCHANGED vars
  BY <1>8 DEF vars
<1> QED
  BY <1>1, <1>2, <1>3, <1>4, <1>5, <1>6, <1>7, <1>8 DEF Next, Step

(* Steps other than ClaimSlot and StorePath move no goroutine to or from its  *)
(* Store and leave the ring alone.                                           *)
RingUntouched ==
    /\ UNCHANGED <<hotPaths, hotPtr, adds, ticket>>
    /\ \A g \in Goroutines : Storing(g)' <=> Storing(g)

(* A step that leaves the ring, its counter and the tickets of those before  *)
(* their Store alone keeps IInv.                                             *)
LEMMA UntouchedKeeps ==
    ASSUME IInv, RingUntouched PROVE CounterInv' /\ ClaimInv' /\ FilledInv'
BY DEF IInv, RingUntouched, CounterInv, ClaimInv, FilledInv, Storing, Slots

(* AddUint32 keeps IInv: the new ticket is behind all others.                *)
LEMMA ClaimKeeps ==
    ASSUME IInv, NEW g \in Goroutines, ClaimSlot(g)
    PROVE  CounterInv' /\ ClaimInv' /\ FilledInv'
<1> USE DEF IInv
<1>1. SUFFICES ASSUME adds' <= HotSize PROVE CounterInv' /\ ClaimInv' /\ FilledInv'
  BY DEF CounterInv, ClaimInv, FilledInv
<1>2. adds \in Nat /\ adds' = adds + 1 /\ hotPtr = adds
  BY <1>1, RingAssumption DEF TypeOK, ClaimSlot, CountAdd, CounterInv
<1>3. hotPtr' = adds' /\ adds' \in 1 .. HotSize /\ adds <= HotSize
  BY <1>1, <1>2, RingAssumption DEF ClaimSlot
<1>4. /\ hotPaths' = hotPaths
      /\ ticket' = [ticket EXCEPT ![g] = adds']
      /\ ~ Storing(g) /\ Storing(g)'
      /\ \A h \in Goroutines \ {g} : Storing(h)' <=> Storing(h)
  BY <1>3 DEF ClaimSlot, Goto, TypeOK, Storing
<1>5. ticket'[g] = adds' /\ \A h \in Goroutines \ {g} : ticket'[h] = ticket[h]
  BY <1>4 DEF TypeOK
<1>6. hotPaths[ClaimedSlot(adds')] = NoPath
  <2>1. \A t \in 1 .. adds : ClaimedSlot(t) # ClaimedSlot(adds')
    BY <1>2, <1>3, SlotsOfALap, RingAssumption
  <2>2. ClaimedSlot(adds') \in Slots
    BY <1>3, ClaimInRing
  <2> QED BY <1>3, <2>1, <2>2 DEF FilledInv
<1>7. ClaimInv'
  <2>1. ASSUME NEW h \in Goroutines, Storing(h)'
        PROVE  ticket'[h] \in 1 .. adds' /\ hotPaths'[ClaimedSlot(ticket'[h])] = NoPath
    <3>1. CASE h = g
      BY <1>3, <1>4, <1>5, <1>6, <3>1
    <3>2. CASE h # g
      BY <1>2, <1>3, <1>4, <1>5, <2>1, <3>2 DEF ClaimInv
    <3> QED BY <3>1, <3>2
  <2>2. ASSUME NEW h \in Goroutines \ {g}, Storing(h)' PROVE ticket'[h] # ticket'[g]
    BY <1>2, <1>3, <1>4, <1>5, <2>2 DEF ClaimInv
  <2>3. ASSUME NEW h \in Goroutines, NEW k \in Goroutines,
               Storing(h)', Storing(k)', ticket'[h] = ticket'[k]
        PROVE  h = k
    BY <1>3, <1>4, <1>5, <2>2, <2>3 DEF ClaimInv
  <2> QED BY <2>1, <2>3 DEF ClaimInv, Storing
<1>8. FilledInv'
  BY <1>2, <1>3, <1>4 DEF FilledInv, Slots
<1> QED BY <1>3, <1>7, <1>8 DEF CounterInv

(* Store keeps IInv: its slot was empty, and now its own ticket fills it.    *)
LEMMA StoreKeeps ==
    ASSUME IInv, NEW g \in Goroutines, StorePath(g)
    PROVE  CounterInv' /\ ClaimInv' /\ FilledInv'
<1> DEFINE slot == ClaimedSlot(ticket[g])
<1> USE DEF IInv
<1>1. /\ adds' = adds /\ hotPtr' = hotPtr
      /\ hotPaths' = [hotPaths EXCEPT ![slot] = path[g]]
      /\ Storing(g) /\ ~ Storing(g)'
      /\ \A h \in Goroutines \ {g} : (Storing(h)' <=> Storing(h)) /\ ticket'[h] = ticket[h]
  BY DEF StorePath, Goto, TypeOK, Storing
<1>2. SUFFICES ASSUME adds <= HotSize PROVE CounterInv' /\ ClaimInv' /\ FilledInv'
  BY <1>1 DEF CounterInv, ClaimInv, FilledInv
<1>3. ticket[g] \in 1 .. adds /\ adds \in Nat
  BY <1>1, <1>2, RingAssumption DEF ClaimInv, TypeOK
<1>4. CounterInv'
  BY <1>1 DEF CounterInv
<1>5. ClaimInv'
  <2>1. ASSUME NEW h \in Goroutines, Storing(h)'
        PROVE  ticket'[h] \in 1 .. adds' /\ hotPaths'[ClaimedSlot(ticket'[h])] = NoPath
    <3>1. h # g /\ Storing(h) /\ ticket'[h] = ticket[h]
      BY <1>1, <2>1
    <3>2. ticket[h] \in 1 .. adds /\ hotPaths[ClaimedSlot(ticket[h])] = NoPath
      BY <1>2, <3>1 DEF ClaimInv
    <3>3. ticket[h] # ticket[g]
      BY <1>1, <1>2, <3>1 DEF ClaimInv
    <3>4. ClaimedSlot(ticket[h]) # slot
      BY <1>2, <1>3, <3>2, <3>3, SlotsOfALap, RingAssumption
    <3> QED BY <1>1, <3>1, <3>2, <3>4 DEF TypeOK
  <2>2. ASSUME NEW h \in Goroutines, NEW k \in Goroutines,
               Storing(h)', Storing(k)', ticket'[h] = ticket'[k]
        PROVE  h = k
    BY <1>1, <1>2, <2>2 DEF ClaimInv
  <2> QED BY <2>1, <2>2 DEF ClaimInv, Storing
<1>6. FilledInv'
  <2>1. ASSUME NEW s \in Slots, hotPaths'[s] # NoPath
        PROVE  \E t \in 1 .. adds : ClaimedSlot(t) = s
    <3>1. CASE s = slot
      BY <1>3, <3>1
    <3>2. CASE s # slot
      BY <1>1, <1>2, <2>1, <3>2 DEF FilledInv, TypeOK
    <3> QED BY <3>1, <3>2
  <2> QED BY <1>1, <2>1 DEF FilledInv, Slots
<1> QED BY <1>4, <1>5, <1>6

(* Every step keeps IInv.                                                    *)
LEMMA StepKeeps == IInv /\ [Next]_vars => IInv'
<1> SUFFICES ASSUME IInv, [Next]_vars PROVE IInv'
  OBVIOUS
<1> USE DEF Storing, RingUntouched
<1>1. TypeOK'
  BY TypeKept DEF IInv
<1>2. TypeOK
  BY DEF IInv
<1>3. ASSUME NEW g \in Goroutines, NEW p \in Paths, Call(g, p) PROVE RingUntouched
  BY <1>2, <1>3 DEF Call, Goto, TypeOK
<1>4. ASSUME NEW g \in Goroutines,
             TopKeyFound(g) \/ TopKeyNotFound(g) \/ HitHot(g)
      PROVE  RingUntouched
  BY <1>2, <1>4 DEF TopKeyFound, TopKeyNotFound, HitHot, Goto, TypeOK
<1>5. ASSUME NEW g \in Goroutines, MissHot(g) PROVE RingUntouched
  BY <1>2, <1>5 DEF MissHot, TypeOK
<1>6. CASE UNCHANGED vars
  BY <1>6, UntouchedKeeps, <1>1 DEF vars, IInv
<1> QED
  BY <1>1, <1>3, <1>4, <1>5, <1>6, UntouchedKeeps, ClaimKeeps, StoreKeeps
  DEF Next, Step, IInv

(* The inductive invariant holds in every state of the ring.                 *)
THEOREM Invariance == Safety => []IInv
BY Initially, StepKeeps, PTL DEF Safety

(* Whatever the goroutines do, the ring holds paths, its counter stays in its *)
(* width and a goroutine has a path exactly while it is in get.              *)
THEOREM TypeCorrect == Safety => []TypeOK
<1>1. IInv => TypeOK
  BY DEF IInv
<1> QED BY <1>1, Invariance, PTL

(* No step of the first lap forgets a path.                                  *)
LEMMA StepForgetsNothing ==
    ASSUME IInv, IInv', [Next]_vars, adds' <= HotSize,
           NEW s \in Slots, hotPaths[s] # NoPath
    PROVE  hotPaths'[s] = hotPaths[s]
<1>1. ASSUME NEW g \in Goroutines, StorePath(g) PROVE hotPaths'[s] = hotPaths[s]
  <2>1. Storing(g) /\ adds <= HotSize
    BY <1>1 DEF StorePath, Goto, Storing
  <2>2. hotPaths[ClaimedSlot(ticket[g])] = NoPath
    BY <2>1 DEF IInv, ClaimInv
  <2> QED BY <1>1, <2>2 DEF StorePath, IInv, TypeOK
<1>2. ASSUME NEW g \in Goroutines, NEW p \in Paths, Call(g, p)
      PROVE  hotPaths' = hotPaths
  BY <1>2 DEF Call
<1>3. ASSUME NEW g \in Goroutines,
             \/ TopKeyFound(g) \/ TopKeyNotFound(g)
             \/ HitHot(g) \/ MissHot(g) \/ ClaimSlot(g)
      PROVE  hotPaths' = hotPaths
  BY <1>3 DEF TopKeyFound, TopKeyNotFound, HitHot, MissHot, ClaimSlot
<1> QED BY <1>1, <1>2, <1>3 DEF Next, Step, vars

(* Until the counter has gone round the ring, no put of any goroutine lands   *)
(* on a path that is in the ring.                                            *)
THEOREM FirstLapForgetsNothing == Safety => FirstLapKeepsAll
<1>1. ASSUME IInv, IInv', [Next]_vars
      PROVE  [adds' <= HotSize =>
                \A s \in Slots : hotPaths[s] # NoPath => hotPaths'[s] = hotPaths[s]]_vars
  BY <1>1, StepForgetsNothing
<1> QED BY <1>1, Invariance, PTL DEF Safety, FirstLapKeepsAll
=============================================================================
