--------------------------- MODULE PathPlanProofs ---------------------------
(***************************************************************************)
(* For every number of goroutines, set of paths, hash, ring size and probe  *)
(* count: the types of PathPlan, the exclusive use of pooled buffers, the   *)
(* correctness of every cached and returned plan, and the refinement of     *)
(* PathCompiler.  All four rest on one inductive invariant, IInv.           *)
(***************************************************************************)
EXTENDS PathPlan, SequenceTheorems, TLAPS

-----------------------------------------------------------------------------
(* The inductive invariant.  PlansBelongToTheirPaths is not inductive by     *)
(* itself: what g is about to store or deliver must already be the plan of   *)
(* its path, hence what it copied must be the segments of its path, hence    *)
(* the cells of its buffer must be, and they stay so only because nobody     *)
(* else holds the buffer.                                                    *)

Compiling == {"load", "get", "parse", "put", "claim", "store"}

(* The first segsLen[g] cells of g's buffer are the tokens parsed so far.    *)
Parsed(g) ==
    /\ segsLen[g] <= Len(Path(g))
    /\ segsLen[g] <= Len(mem[buf[g]])
    /\ \A i \in 1 .. segsLen[g] : mem[buf[g]][i] = Segment(Path(g)[i])

(* Where the call of g stands in its list.                                   *)
BatchInv(g) ==
    /\ pc[g] = "idle" => request[g] = <<>> /\ answers[g] = <<>>
    /\ pc[g] # "idle" => /\ request[g] \in Requests
                         /\ Len(answers[g]) <= Len(request[g])
    /\ pc[g] \notin {"idle", "next"} => Len(answers[g]) < Len(request[g])
    /\ \A i \in 1 .. Len(answers[g]) : answers[g][i] = PlanOf[request[g][i]]

(* Where Compile stands in its path.                                         *)
CompileInv(g) ==
    /\ pc[g] \in Compiling => Path(g) # EmptyPath
    /\ pc[g] = "load" => probe[g] < Probes
    /\ buf[g] # NoBuffer <=> pc[g] \in {"parse", "put"}
    /\ pc[g] = "parse" => Parsed(g)
    /\ pc[g] \in {"put", "claim", "store", "deliver"} =>
         plan[g] = PlanOf[Path(g)]

RingInv == \A s \in Slots : hot[s] # NoEntry => hot[s].plan = PlanOf[hot[s].key]

IInv ==
    /\ TypeOK
    /\ BuffersExclusive
    /\ RingInv
    /\ \A g \in Goroutines : BatchInv(g) /\ CompileInv(g)

-----------------------------------------------------------------------------
(* Facts about the operators.                                                *)

(* A token compiles to a well-formed segment.                                *)
LEMMA SegmentType == ASSUME NEW tok \in Token PROVE Segment(tok) \in Seg
<1>1. ASSUME NEW n \in Nat PROVE AtoiDigits(n) \in Int
  BY RingAssumption DEF AtoiDigits, Wrapped
<1>2. tok.kind = "name" => tok.name \in Names
  BY DEF Token, EmptyToken
<1>3. tok.kind = "digits" => tok.value \in Nat
  BY DEF Token, EmptyToken
<1> QED BY <1>1, <1>2, <1>3 DEF Segment, Seg

(* The plan of a path is a sequence of segments, one per token.              *)
LEMMA PlanOfType ==
  ASSUME NEW p \in Paths
  PROVE  /\ p \in Seq(Token) /\ p # <<>>
         /\ PlanOf[p] \in Seq(Seg)
         /\ p # EmptyPath => PlanOf[p] = [i \in 1 .. Len(p) |-> Segment(p[i])]
<1>1. p \in Seq(Token) /\ p # <<>>
  BY PathAssumption
<1>2. DOMAIN p = 1 .. Len(p) /\ \A i \in 1 .. Len(p) : Segment(p[i]) \in Seg
  BY <1>1, SegmentType
<1>3. [i \in 1 .. Len(p) |-> Segment(p[i])] \in Seq(Seg)
  <2>1. Len(p) \in Nat
    BY <1>1
  <2>2. [i \in 1 .. Len(p) |-> Segment(p[i])] \in [1 .. Len(p) -> Seg]
    BY <1>2
  <2> QED BY <2>1, <2>2, SeqDef
<1>4. <<>> \in Seq(Seg)
  OBVIOUS
<1> QED BY <1>1, <1>2, <1>3, <1>4 DEF PlanOf, SegsOf

(* append writes one cell, just past those already in use, and no other.     *)
LEMMA WrittenCells ==
  ASSUME NEW cells \in Seq(Seg), NEW n \in Nat \ {0}, n <= Len(cells) + 1,
         NEW sg \in Seg
  PROVE  /\ Written(cells, n, sg) \in Seq(Seg)
         /\ n <= Len(Written(cells, n, sg))
         /\ Written(cells, n, sg)[n] = sg
         /\ \A i \in 1 .. n - 1 : Written(cells, n, sg)[i] = cells[i]
<1>1. CASE n <= Len(cells)
  BY <1>1, ExceptSeq DEF Written
<1>2. CASE n > Len(cells)
  <2>1. n = Len(cells) + 1
    BY <1>2
  <2> QED BY <1>2, <2>1, AppendProperties DEF Written
<1> QED BY <1>1, <1>2

(* While a call has paths left, Path(g) is one of the paths.                 *)
LEMMA PathType ==
  ASSUME IInv, NEW g \in Goroutines, pc[g] # "idle",
         Len(answers[g]) < Len(request[g])
  PROVE  /\ Path(g) \in Paths
         /\ request[g] \in Seq(Paths)
         /\ Len(answers[g]) + 1 \in 1 .. Len(request[g])
<1>1. request[g] \in Seq(Paths) /\ answers[g] \in Seq(Seq(Seg))
  BY PathAssumption DEF IInv, BatchInv, TypeOK
<1>2. Len(answers[g]) \in Nat /\ Len(request[g]) \in Nat
  BY <1>1
<1> QED BY <1>1, <1>2, ElementOfSeq DEF Path

-----------------------------------------------------------------------------
(* A step of one goroutine leaves the invariant of the others alone.         *)

(* Nothing that h's invariant speaks of changes in the step.                 *)
Unmoved(h) ==
    /\ pc'[h] = pc[h] /\ request'[h] = request[h] /\ answers'[h] = answers[h]
    /\ probe'[h] = probe[h] /\ buf'[h] = buf[h] /\ segsLen'[h] = segsLen[h]
    /\ plan'[h] = plan[h]
    /\ pc[h] = "parse" => mem'[buf[h]] = mem[buf[h]]

(* A step that leaves the variables of h alone keeps what is known of h.     *)
LEMMA Frame ==
  ASSUME IInv, NEW h \in Goroutines, Unmoved(h)
  PROVE  BatchInv(h)' /\ CompileInv(h)'
<1>1. BatchInv(h) /\ CompileInv(h)
  BY DEF IInv
<1>2. Path(h)' = Path(h)
  BY DEF Unmoved, Path
<1>3. BatchInv(h)'
  BY <1>1 DEF Unmoved, BatchInv
<1>4. pc[h] = "parse" => (Parsed(h) <=> Parsed(h)')
  BY <1>2 DEF Unmoved, Parsed
<1> QED BY <1>1, <1>2, <1>3, <1>4 DEF Unmoved, CompileInv, Compiling

(* The invariant holds initially.                                            *)
LEMMA InitIInv == Init => IInv
<1> SUFFICES ASSUME Init PROVE IInv
  OBVIOUS
<1>1. TypeOK
  BY RingAssumption DEF Init, TypeOK, Slots, Label
<1>2. BuffersExclusive /\ RingInv
  BY DEF Init, BuffersExclusive, RingInv
<1>3. ASSUME NEW g \in Goroutines PROVE BatchInv(g) /\ CompileInv(g)
  BY DEF Init, BatchInv, CompileInv, Compiling
<1> QED BY <1>1, <1>2, <1>3 DEF IInv

(* Call keeps IInv.                                                          *)
LEMMA CallStep ==
  ASSUME IInv, NEW g \in Goroutines, Call(g)
  PROVE  IInv'
<1>1. TypeOK'
  BY DEF IInv, TypeOK, Call, Goto, Label, shared
<1>2. BuffersExclusive' /\ RingInv'
  BY DEF IInv, BuffersExclusive, RingInv, Call, shared
<1>3. BatchInv(g)' /\ CompileInv(g)'
  <2>1. request'[g] \in Requests /\ answers'[g] = <<>> /\ pc'[g] = "next"
    BY DEF IInv, TypeOK, BatchInv, Call, Goto
  <2>2. Len(answers'[g]) <= Len(request'[g])
    BY <2>1, PathAssumption
  <2>3. BatchInv(g)'
    BY <2>1, <2>2 DEF BatchInv
  <2> QED BY <2>1, <2>3 DEF IInv, TypeOK, CompileInv, Compiling, Call, Goto, shared
<1>4. ASSUME NEW h \in Goroutines \ {g} PROVE BatchInv(h)' /\ CompileInv(h)'
  BY Frame DEF Unmoved, IInv, TypeOK, Call, Goto, shared
<1> QED BY <1>1, <1>2, <1>3, <1>4 DEF IInv

(* CompileEmpty keeps IInv.                                                  *)
LEMMA CompileEmptyStep ==
  ASSUME IInv, NEW g \in Goroutines, CompileEmpty(g)
  PROVE  IInv'
<1>1. TypeOK'
  BY DEF IInv, TypeOK, CompileEmpty, Goto, Label, shared
<1>2. BuffersExclusive' /\ RingInv'
  BY DEF IInv, BuffersExclusive, RingInv, CompileEmpty, shared
<1>3. BatchInv(g)' /\ CompileInv(g)'
  <2>1. Path(g) \in Paths /\ Path(g)' = Path(g) /\ Path(g) = EmptyPath
    BY PathType DEF Path, CompileEmpty, Goto
  <2>2. PlanOf[Path(g)] = <<>>
    BY <2>1 DEF PlanOf, SegsOf
  <2>3. BatchInv(g)'
    BY DEF IInv, TypeOK, BatchInv, CompileEmpty, Goto
  <2> QED
    BY <2>1, <2>2, <2>3
    DEF IInv, TypeOK, CompileInv, Compiling, CompileEmpty, Goto, shared
<1>4. ASSUME NEW h \in Goroutines \ {g} PROVE BatchInv(h)' /\ CompileInv(h)'
  BY Frame DEF Unmoved, IInv, TypeOK, CompileEmpty, Goto, shared
<1> QED BY <1>1, <1>2, <1>3, <1>4 DEF IInv

(* Compile keeps IInv.                                                       *)
LEMMA CompileStep ==
  ASSUME IInv, NEW g \in Goroutines, Compile(g)
  PROVE  IInv'
<1>1. TypeOK'
  BY RingAssumption DEF IInv, TypeOK, Compile, Goto, Label, shared
<1>2. BuffersExclusive' /\ RingInv'
  BY DEF IInv, BuffersExclusive, RingInv, Compile, shared
<1>3. BatchInv(g)' /\ CompileInv(g)'
  <2>1. Path(g)' = Path(g) /\ Path(g) # EmptyPath
    BY DEF Path, Compile
  <2>2. BatchInv(g)'
    BY DEF IInv, TypeOK, BatchInv, Compile, Goto
  <2>3. pc[g] = "next" /\ pc'[g] = "load" /\ probe'[g] = 0 /\ buf'[g] = buf[g]
    BY DEF IInv, TypeOK, Compile, Goto
  <2>4. 0 < Probes
    BY RingAssumption
  <2>5. buf[g] = NoBuffer
    BY <2>3 DEF IInv, CompileInv
  <2> QED BY <2>1, <2>2, <2>3, <2>4, <2>5 DEF CompileInv, Compiling
<1>4. ASSUME NEW h \in Goroutines \ {g} PROVE BatchInv(h)' /\ CompileInv(h)'
  BY Frame DEF Unmoved, IInv, TypeOK, Compile, Goto, shared
<1> QED BY <1>1, <1>2, <1>3, <1>4 DEF IInv

(* A cached plan is the plan of the path it is asked for: RingInv at work.   *)
LEMMA LoadHitStep ==
  ASSUME IInv, NEW g \in Goroutines, LoadHit(g)
  PROVE  IInv'
<1> DEFINE slot == ProbeSlot(Path(g), probe[g])
<1>1. pc[g] = "load" /\ Path(g) \in Paths /\ Path(g)' = Path(g)
  BY PathType DEF LoadHit, Goto, IInv, BatchInv, Path
<1>2. slot \in Slots
  BY <1>1, RingAssumption DEF ProbeSlot, Slots, IInv, TypeOK
<1>3. /\ hot[slot] \in Entry /\ hot[slot].key = Path(g)
      /\ hot[slot].plan = PlanOf[Path(g)] /\ hot[slot].plan \in Seq(Seg)
  BY <1>2 DEF LoadHit, Serves, IInv, TypeOK, RingInv, Entry
<1>4. TypeOK'
  BY <1>3 DEF IInv, TypeOK, LoadHit, Goto, Label, shared
<1>5. BuffersExclusive' /\ RingInv'
  BY DEF IInv, BuffersExclusive, RingInv, LoadHit, shared
<1>6. BatchInv(g)' /\ CompileInv(g)'
  <2>1. pc'[g] = "deliver" /\ plan'[g] = PlanOf[Path(g)] /\ buf'[g] = buf[g]
    BY <1>3 DEF IInv, TypeOK, LoadHit, Goto
  <2>2. BatchInv(g)'
    BY <1>1, <2>1 DEF IInv, BatchInv, LoadHit
  <2>3. buf[g] = NoBuffer
    BY <1>1 DEF IInv, CompileInv
  <2> QED BY <1>1, <2>1, <2>2, <2>3 DEF CompileInv, Compiling
<1>7. ASSUME NEW h \in Goroutines \ {g} PROVE BatchInv(h)' /\ CompileInv(h)'
  BY Frame DEF Unmoved, IInv, TypeOK, LoadHit, Goto, shared
<1> QED BY <1>4, <1>5, <1>6, <1>7 DEF IInv

(* LoadMiss keeps IInv.                                                      *)
LEMMA LoadMissStep ==
  ASSUME IInv, NEW g \in Goroutines, LoadMiss(g)
  PROVE  IInv'
<1>1. pc[g] = "load" /\ Path(g)' = Path(g)
  BY DEF LoadMiss, Path
<1>2. probe[g] \in 0 .. Probes /\ probe[g] < Probes /\ Probes \in Nat
  BY <1>1, RingAssumption DEF IInv, TypeOK, CompileInv
<1>3. /\ probe'[g] = probe[g] + 1
      /\ pc'[g] = IF probe[g] + 1 < Probes THEN "load" ELSE "get"
  BY DEF IInv, TypeOK, LoadMiss, Goto
<1>4. TypeOK'
  BY <1>2 DEF IInv, TypeOK, LoadMiss, Goto, Label, shared
<1>5. BuffersExclusive' /\ RingInv'
  BY DEF IInv, BuffersExclusive, RingInv, LoadMiss, shared
<1>6. BatchInv(g)' /\ CompileInv(g)'
  <2>1. BatchInv(g)'
    BY <1>1, <1>3 DEF IInv, BatchInv, LoadMiss
  <2>2. buf'[g] = NoBuffer /\ Path(g) # EmptyPath
    BY <1>1 DEF IInv, CompileInv, Compiling, LoadMiss
  <2> QED BY <1>1, <1>3, <2>1, <2>2 DEF CompileInv, Compiling
<1>7. ASSUME NEW h \in Goroutines \ {g} PROVE BatchInv(h)' /\ CompileInv(h)'
  BY Frame DEF Unmoved, IInv, TypeOK, LoadMiss, Goto, shared
<1> QED BY <1>4, <1>5, <1>6, <1>7 DEF IInv

(* The buffer g gets leaves the pool, and nobody else holds it.              *)
LEMMA PoolGetStep ==
  ASSUME IInv, NEW g \in Goroutines, PoolGet(g)
  PROVE  IInv'
<1>1. PICK b \in pool \cup (Buffers \ Held) :
        /\ buf' = [buf EXCEPT ![g] = b]
        /\ pool' = pool \ {b}
  BY DEF PoolGet
<1>2. b \in Buffers /\ b # NoBuffer
  BY <1>1, SentinelAssumption DEF IInv, TypeOK
<1>3. \A h \in Goroutines : buf[h] # b
  BY <1>1, <1>2 DEF IInv, BuffersExclusive, Held
<1>4. pc[g] = "get" /\ Path(g)' = Path(g)
  BY DEF PoolGet, Goto, Path
<1>5. TypeOK'
  BY <1>1, <1>2 DEF IInv, TypeOK, PoolGet, Goto, Label
<1>6. BuffersExclusive'
  BY <1>1, <1>3 DEF IInv, TypeOK, BuffersExclusive
<1>7. RingInv'
  BY DEF IInv, RingInv, PoolGet
<1>8. BatchInv(g)' /\ CompileInv(g)'
  <2>1. pc'[g] = "parse" /\ buf'[g] = b /\ segsLen'[g] = 0
    BY <1>1 DEF IInv, TypeOK, PoolGet, Goto
  <2>2. BatchInv(g)'
    BY <1>4, <2>1 DEF IInv, BatchInv, PoolGet
  <2>3. Path(g) # EmptyPath /\ Path(g) \in Seq(Token)
    BY <1>4, PathType, PlanOfType DEF IInv, BatchInv, CompileInv, Compiling
  <2>4. Parsed(g)'
    BY <1>2, <1>4, <1>5, <2>1, <2>3 DEF Parsed, TypeOK
  <2> QED BY <1>2, <1>4, <2>1, <2>2, <2>3, <2>4 DEF CompileInv, Compiling
<1>9. ASSUME NEW h \in Goroutines \ {g} PROVE BatchInv(h)' /\ CompileInv(h)'
  BY <1>1, Frame DEF Unmoved, IInv, TypeOK, PoolGet, Goto
<1> QED BY <1>5, <1>6, <1>7, <1>8, <1>9 DEF IInv

(* The next token goes to the next cell of g's own buffer; the cells of the  *)
(* other goroutines' buffers are out of its reach.                           *)
LEMMA AppendSegStep ==
  ASSUME IInv, NEW g \in Goroutines, AppendSeg(g)
  PROVE  IInv'
<1> DEFINE n == segsLen[g] + 1
           b == buf[g]
           sg == Segment(Path(g)[n])
<1>1. pc[g] = "parse" /\ pc' = pc /\ Path(g)' = Path(g)
  BY DEF AppendSeg, Path
<1>2. Path(g) \in Seq(Token)
  BY <1>1, PathType, PlanOfType DEF IInv, BatchInv
<1>3. n \in Nat \ {0} /\ n <= Len(Path(g)) /\ segsLen' = [segsLen EXCEPT ![g] = n]
  BY <1>2 DEF AppendSeg, IInv, TypeOK
<1>4. sg \in Seg
  BY <1>2, <1>3, SegmentType
<1>5. b # NoBuffer /\ b \in Buffers /\ Parsed(g)
  BY <1>1 DEF IInv, TypeOK, CompileInv
<1>6. mem[b] \in Seq(Seg) /\ n <= Len(mem[b]) + 1
  BY <1>5 DEF IInv, TypeOK, Parsed
<1>7. /\ Written(mem[b], n, sg) \in Seq(Seg)
      /\ n <= Len(Written(mem[b], n, sg))
      /\ Written(mem[b], n, sg)[n] = sg
      /\ \A i \in 1 .. n - 1 : Written(mem[b], n, sg)[i] = mem[b][i]
  BY <1>3, <1>4, <1>6, WrittenCells
<1>8. mem' = [mem EXCEPT ![b] = Written(mem[b], n, sg)]
  <2>1. segsLen'[g] = n
    BY <1>3 DEF IInv, TypeOK
  <2> QED BY <2>1 DEF AppendSeg
<1>9. TypeOK'
  BY <1>3, <1>5, <1>7, <1>8 DEF IInv, TypeOK, AppendSeg
<1>10. BuffersExclusive' /\ RingInv'
  BY DEF IInv, BuffersExclusive, RingInv, AppendSeg
<1>11. BatchInv(g)' /\ CompileInv(g)'
  <2>1. BatchInv(g)'
    BY <1>1 DEF IInv, BatchInv, AppendSeg
  <2>2. segsLen'[g] = n /\ buf' = buf /\ mem'[b] = Written(mem[b], n, sg)
    BY <1>3, <1>5, <1>8 DEF IInv, TypeOK, AppendSeg
  <2>3. \A i \in 1 .. n : Written(mem[b], n, sg)[i] = Segment(Path(g)[i])
    <3>1. \A i \in 1 .. n - 1 : mem[b][i] = Segment(Path(g)[i])
      BY <1>5, <1>3 DEF Parsed, IInv, TypeOK
    <3>2. \A i \in 1 .. n : i = n \/ i \in 1 .. n - 1
      BY <1>3
    <3> QED BY <1>7, <3>1, <3>2
  <2>4. Parsed(g)'
    BY <1>1, <1>3, <1>7, <2>2, <2>3 DEF Parsed
  <2>5. Path(g) # EmptyPath
    BY <1>1 DEF IInv, CompileInv, Compiling
  <2> QED BY <1>1, <1>5, <2>1, <2>2, <2>4, <2>5 DEF CompileInv, Compiling
<1>12. ASSUME NEW h \in Goroutines \ {g} PROVE BatchInv(h)' /\ CompileInv(h)'
  <2>1. ASSUME pc[h] = "parse" PROVE buf[h] # b /\ buf[h] \in Buffers
    BY <1>5, <2>1 DEF IInv, TypeOK, CompileInv, BuffersExclusive
  <2>2. pc[h] = "parse" => mem'[buf[h]] = mem[buf[h]]
    BY <2>1, <1>8 DEF IInv, TypeOK
  <2> QED BY <2>2, Frame DEF Unmoved, IInv, TypeOK, AppendSeg
<1> QED BY <1>9, <1>10, <1>11, <1>12 DEF IInv

(* What g copies out of its buffer is the plan of its path.                  *)
LEMMA CopyPlanStep ==
  ASSUME IInv, NEW g \in Goroutines, CopyPlan(g)
  PROVE  IInv'
<1> DEFINE cells == mem[buf[g]]
           n == segsLen[g]
           copied == SubSeq(cells, 1, n)
<1>1. pc[g] = "parse" /\ Path(g)' = Path(g) /\ n = Len(Path(g))
  BY DEF CopyPlan, Goto, Path
<1>2. Path(g) \in Paths /\ Path(g) # EmptyPath
  BY <1>1, PathType DEF IInv, BatchInv, CompileInv, Compiling
<1>3. Path(g) \in Seq(Token) /\ n \in Nat
  BY <1>1, <1>2, PlanOfType DEF IInv, TypeOK
<1>4. buf[g] \in Buffers /\ buf[g] # NoBuffer /\ Parsed(g)
  BY <1>1 DEF IInv, TypeOK, CompileInv
<1>5. cells \in Seq(Seg) /\ n <= Len(cells)
  BY <1>4 DEF IInv, TypeOK, Parsed
<1>6. \A i \in 1 .. n : cells[i] \in Seg /\ cells[i] = Segment(Path(g)[i])
  BY <1>3, <1>4, <1>5 DEF Parsed
<1>7. /\ copied \in Seq(Seg) /\ Len(copied) = n
      /\ \A i \in 1 .. n : copied[i] = cells[i]
  BY <1>3, <1>6, SubSeqProperties
<1>8. copied = PlanOf[Path(g)]
  <2>1. PlanOf[Path(g)] = [i \in 1 .. n |-> Segment(Path(g)[i])]
    BY <1>1, <1>2, PlanOfType
  <2> QED BY <1>6, <1>7, <2>1
<1>9. TypeOK'
  BY <1>7 DEF IInv, TypeOK, CopyPlan, Goto, Label, shared
<1>10. BuffersExclusive' /\ RingInv'
  BY DEF IInv, BuffersExclusive, RingInv, CopyPlan, shared
<1>11. BatchInv(g)' /\ CompileInv(g)'
  <2>1. pc'[g] = "put" /\ plan'[g] = copied /\ buf' = buf
    BY DEF IInv, TypeOK, CopyPlan, Goto
  <2>2. BatchInv(g)'
    BY <1>1, <2>1 DEF IInv, BatchInv, CopyPlan
  <2> QED BY <1>1, <1>2, <1>4, <1>8, <2>1, <2>2 DEF CompileInv, Compiling
<1>12. ASSUME NEW h \in Goroutines \ {g} PROVE BatchInv(h)' /\ CompileInv(h)'
  BY Frame DEF Unmoved, IInv, TypeOK, CopyPlan, Goto, shared
<1> QED BY <1>9, <1>10, <1>11, <1>12 DEF IInv

(* PoolPut keeps IInv.                                                       *)
LEMMA PoolPutStep ==
  ASSUME IInv, NEW g \in Goroutines, PoolPut(g)
  PROVE  IInv'
<1>1. pc[g] = "put" /\ Path(g)' = Path(g)
  BY DEF PoolPut, Goto, Path
<1>2. buf[g] \in Buffers /\ buf[g] # NoBuffer
  BY <1>1 DEF IInv, TypeOK, CompileInv
<1>3. TypeOK'
  BY <1>2 DEF IInv, TypeOK, PoolPut, Goto, Label
<1>4. BuffersExclusive'
  BY <1>2 DEF IInv, TypeOK, BuffersExclusive, PoolPut
<1>5. RingInv'
  BY DEF IInv, RingInv, PoolPut
<1>6. BatchInv(g)' /\ CompileInv(g)'
  <2>1. pc'[g] = "claim" /\ buf'[g] = NoBuffer /\ plan' = plan
    BY DEF IInv, TypeOK, PoolPut, Goto
  <2>2. BatchInv(g)'
    BY <1>1, <2>1 DEF IInv, BatchInv, PoolPut
  <2>3. Path(g) # EmptyPath /\ plan[g] = PlanOf[Path(g)]
    BY <1>1 DEF IInv, CompileInv, Compiling
  <2> QED BY <1>1, <2>1, <2>2, <2>3 DEF CompileInv, Compiling
<1>7. ASSUME NEW h \in Goroutines \ {g} PROVE BatchInv(h)' /\ CompileInv(h)'
  BY Frame DEF Unmoved, IInv, TypeOK, PoolPut, Goto
<1> QED BY <1>3, <1>4, <1>5, <1>6, <1>7 DEF IInv

(* ClaimSlot keeps IInv.                                                     *)
LEMMA ClaimSlotStep ==
  ASSUME IInv, NEW g \in Goroutines, ClaimSlot(g)
  PROVE  IInv'
<1>1. pc[g] = "claim" /\ Path(g)' = Path(g)
  BY DEF ClaimSlot, Goto, Path
<1>2. (hotNext + 1) % CounterWrap \in 0 .. CounterWrap - 1
  BY RingAssumption DEF IInv, TypeOK
<1>3. TypeOK'
  BY <1>2 DEF IInv, TypeOK, ClaimSlot, Goto, Label
<1>4. BuffersExclusive' /\ RingInv'
  BY DEF IInv, BuffersExclusive, RingInv, ClaimSlot
<1>5. BatchInv(g)' /\ CompileInv(g)'
  <2>1. pc'[g] = "store" /\ buf'[g] = NoBuffer /\ plan' = plan
    BY <1>1 DEF IInv, TypeOK, CompileInv, ClaimSlot, Goto
  <2>2. BatchInv(g)'
    BY <1>1, <2>1 DEF IInv, BatchInv, ClaimSlot
  <2>3. Path(g) # EmptyPath /\ plan[g] = PlanOf[Path(g)]
    BY <1>1 DEF IInv, CompileInv, Compiling
  <2> QED BY <1>1, <2>1, <2>2, <2>3 DEF CompileInv, Compiling
<1>6. ASSUME NEW h \in Goroutines \ {g} PROVE BatchInv(h)' /\ CompileInv(h)'
  BY Frame DEF Unmoved, IInv, TypeOK, ClaimSlot, Goto
<1> QED BY <1>3, <1>4, <1>5, <1>6 DEF IInv

(* However late the store is, the entry pairs a path with its own plan.      *)
LEMMA StoreHotStep ==
  ASSUME IInv, NEW g \in Goroutines, StoreHot(g)
  PROVE  IInv'
<1> DEFINE entry == [key |-> Path(g), plan |-> plan[g]]
           slot == ClaimedSlot(ticket[g])
<1>1. /\ pc[g] = "store" /\ Path(g)' = Path(g)
      /\ hot' = [hot EXCEPT ![slot] = entry]
  BY DEF StoreHot, Goto, Path
<1>2. Path(g) \in Paths /\ plan[g] = PlanOf[Path(g)] /\ entry \in Entry
  BY <1>1, PathType DEF IInv, TypeOK, BatchInv, CompileInv, Entry
<1>3. slot \in Slots
  BY RingAssumption DEF IInv, TypeOK, ClaimedSlot, Slots
<1>4. TypeOK'
  BY <1>1, <1>2, <1>3 DEF IInv, TypeOK, StoreHot, Goto, Label
<1>5. BuffersExclusive'
  BY DEF IInv, BuffersExclusive, StoreHot
<1>6. RingInv'
  BY <1>1, <1>2, <1>3 DEF IInv, TypeOK, RingInv
<1>7. BatchInv(g)' /\ CompileInv(g)'
  <2>1. pc'[g] = "deliver" /\ buf'[g] = NoBuffer /\ plan' = plan
    BY <1>1 DEF IInv, TypeOK, CompileInv, StoreHot, Goto
  <2>2. BatchInv(g)'
    BY <1>1, <2>1 DEF IInv, BatchInv, StoreHot
  <2> QED BY <1>1, <1>2, <2>1, <2>2 DEF CompileInv, Compiling
<1>8. ASSUME NEW h \in Goroutines \ {g} PROVE BatchInv(h)' /\ CompileInv(h)'
  BY Frame DEF Unmoved, IInv, TypeOK, StoreHot, Goto
<1> QED BY <1>4, <1>5, <1>6, <1>7, <1>8 DEF IInv

(* Deliver keeps IInv.                                                       *)
LEMMA DeliverStep ==
  ASSUME IInv, NEW g \in Goroutines, Deliver(g)
  PROVE  IInv'
<1> DEFINE n == Len(answers[g])
           done == Append(answers[g], plan[g])
<1>1. pc[g] = "deliver" /\ request' = request /\ buf' = buf
  BY DEF Deliver, Goto
<1>2. /\ request[g] \in Seq(Paths) /\ n + 1 <= Len(request[g])
      /\ request[g] \in Requests
      /\ answers[g] \in Seq(Seq(Seg)) /\ n \in Nat /\ plan[g] \in Seq(Seg)
  BY <1>1, PathType DEF IInv, TypeOK, BatchInv
<1>3. done \in Seq(Seq(Seg)) /\ Len(done) = n + 1
  BY <1>2
<1>4. \A i \in 1 .. n + 1 : done[i] = PlanOf[request[g][i]]
  <2>1. \A i \in 1 .. n : done[i] = answers[g][i] /\ answers[g][i] = PlanOf[request[g][i]]
    BY <1>2 DEF IInv, BatchInv
  <2>2. done[n + 1] = plan[g] /\ plan[g] = PlanOf[request[g][n + 1]]
    BY <1>1, <1>2 DEF IInv, CompileInv, Path
  <2>3. \A i \in 1 .. n + 1 : i = n + 1 \/ i \in 1 .. n
    BY <1>2
  <2> QED BY <2>1, <2>2, <2>3
<1>5. TypeOK'
  BY <1>3, RingAssumption DEF IInv, TypeOK, Deliver, Goto, Label, shared
<1>6. BuffersExclusive' /\ RingInv'
  BY DEF IInv, BuffersExclusive, RingInv, Deliver, shared
<1>7. BatchInv(g)' /\ CompileInv(g)'
  <2>1. pc'[g] = "next" /\ answers'[g] = done /\ buf[g] = NoBuffer
    BY <1>1 DEF IInv, TypeOK, CompileInv, Deliver, Goto
  <2>2. BatchInv(g)'
    BY <1>1, <1>2, <1>3, <1>4, <2>1 DEF BatchInv
  <2> QED BY <1>1, <2>1, <2>2 DEF CompileInv, Compiling
<1>8. ASSUME NEW h \in Goroutines \ {g} PROVE BatchInv(h)' /\ CompileInv(h)'
  BY Frame DEF Unmoved, IInv, TypeOK, Deliver, Goto, shared
<1> QED BY <1>5, <1>6, <1>7, <1>8 DEF IInv

(* Return keeps IInv.                                                        *)
LEMMA ReturnStep ==
  ASSUME IInv, NEW g \in Goroutines, Return(g)
  PROVE  IInv'
<1>1. TypeOK'
  BY DEF IInv, TypeOK, Return, Goto, Label, shared
<1>2. BuffersExclusive' /\ RingInv'
  BY DEF IInv, BuffersExclusive, RingInv, Return, shared
<1>3. BatchInv(g)' /\ CompileInv(g)'
  <2>1. pc'[g] = "idle" /\ request'[g] = <<>> /\ answers'[g] = <<>>
    BY DEF IInv, TypeOK, Return, Goto
  <2>2. buf'[g] = NoBuffer
    BY DEF IInv, CompileInv, Return, Goto
  <2> QED BY <2>1, <2>2 DEF BatchInv, CompileInv, Compiling
<1>4. ASSUME NEW h \in Goroutines \ {g} PROVE BatchInv(h)' /\ CompileInv(h)'
  BY Frame DEF Unmoved, IInv, TypeOK, Return, Goto, shared
<1> QED BY <1>1, <1>2, <1>3, <1>4 DEF IInv

(* The garbage collector keeps IInv.                                         *)
LEMMA PoolDropStep == IInv /\ PoolDrop => IInv'
<1> SUFFICES ASSUME IInv, PoolDrop PROVE IInv'
  OBVIOUS
<1>1. TypeOK' /\ BuffersExclusive' /\ RingInv'
  BY DEF IInv, TypeOK, BuffersExclusive, RingInv, PoolDrop
<1>2. ASSUME NEW h \in Goroutines PROVE BatchInv(h)' /\ CompileInv(h)'
  BY Frame DEF Unmoved, PoolDrop
<1> QED BY <1>1, <1>2 DEF IInv

(* A stuttering step keeps IInv.                                             *)
LEMMA StutterStep == IInv /\ UNCHANGED vars => IInv'
<1> SUFFICES ASSUME IInv, UNCHANGED vars PROVE IInv'
  OBVIOUS
<1>1. TypeOK' /\ BuffersExclusive' /\ RingInv'
  BY DEF IInv, TypeOK, BuffersExclusive, RingInv, vars
<1>2. ASSUME NEW h \in Goroutines PROVE BatchInv(h)' /\ CompileInv(h)'
  BY Frame DEF Unmoved, vars
<1> QED BY <1>1, <1>2 DEF IInv

-----------------------------------------------------------------------------
(* The theorems.                                                             *)

(* IInv is inductive: it holds in every reachable state.                     *)
THEOREM Invariance == Spec => []IInv
<1>1. ASSUME IInv, [Next]_vars PROVE IInv'
  <2>1. CASE UNCHANGED vars
    BY <1>1, <2>1, StutterStep
  <2>2. CASE PoolDrop
    BY <1>1, <2>2, PoolDropStep
  <2>3. ASSUME NEW g \in Goroutines, Call(g) \/ Running(g) PROVE IInv'
    BY <1>1, <2>3, CallStep, CompileEmptyStep, CompileStep, LoadHitStep,
       LoadMissStep, PoolGetStep, AppendSegStep, CopyPlanStep, PoolPutStep,
       ClaimSlotStep, StoreHotStep, DeliverStep, ReturnStep DEF Running
  <2> QED BY <1>1, <2>1, <2>2, <2>3 DEF Next
<1> QED BY <1>1, InitIInv, PTL DEF Spec, Safety

(* Every variable has its type, for every instance of the constants.         *)
THEOREM TypeCorrect == Spec => []TypeOK
<1>1. IInv => TypeOK
  BY DEF IInv
<1> QED BY <1>1, Invariance, PTL

(* No pooled buffer is ever used by two goroutines, nor used and pooled.     *)
THEOREM BuffersAreExclusive == Spec => []BuffersExclusive
<1>1. IInv => BuffersExclusive
  BY DEF IInv
<1> QED BY <1>1, Invariance, PTL

(* Every cached plan and every answer is the plan of its own path.           *)
THEOREM PlansAreRight == Spec => []PlansBelongToTheirPaths
<1>1. IInv => PlansBelongToTheirPaths
  BY DEF IInv, RingInv, BatchInv, PlansBelongToTheirPaths
<1> QED BY <1>1, Invariance, PTL

(* Compile and CompileMany, with their ring, their pool and any interleaving *)
(* of their callers, do only what the specification without cache allows.    *)
THEOREM Refinement == Spec => Abstract!Safety
<1>1. Init => Abstract!Init
  BY DEF Init, Abstract!Init
<1>2. ASSUME IInv, [Next]_vars PROVE [Abstract!Next]_(Abstract!vars)
  <2>1. ASSUME NEW g \in Goroutines, Call(g) PROVE Abstract!Ask(g)
    BY <1>2, <2>1 DEF IInv, BatchInv, Call, Goto, Abstract!Ask
  <2>2. ASSUME NEW g \in Goroutines, Deliver(g) PROVE Abstract!Answer(g)
    <3>1. Len(answers[g]) < Len(request[g]) /\ plan[g] = PlanOf[Path(g)]
      BY <1>2, <2>2 DEF IInv, BatchInv, CompileInv, Deliver, Goto
    <3> QED BY <1>2, <2>2, <3>1 DEF Deliver, Path, Abstract!Answer, shared
  <2>3. ASSUME NEW g \in Goroutines, Return(g) PROVE Abstract!Finish(g)
    <3>1. request[g] # <<>>
      BY <1>2, <2>3, PathAssumption DEF IInv, BatchInv, Return, Goto
    <3> QED BY <2>3, <3>1 DEF Return, Abstract!Finish
  <2>4. ASSUME NEW g \in Goroutines, Running(g), ~ Deliver(g), ~ Return(g)
        PROVE  UNCHANGED Abstract!vars
    BY <2>4 DEF Running, Abstract!vars, CompileEmpty, Compile, LoadHit,
       LoadMiss, PoolGet, AppendSeg, CopyPlan, PoolPut, ClaimSlot, StoreHot
  <2>5. CASE PoolDrop \/ UNCHANGED vars
    BY <2>5 DEF PoolDrop, vars, Abstract!vars
  <2> QED BY <1>2, <2>1, <2>2, <2>3, <2>4, <2>5 DEF Next, Abstract!Next
<1> QED BY <1>1, <1>2, Invariance, PTL DEF Spec, Safety, Abstract!Safety
=============================================================================
