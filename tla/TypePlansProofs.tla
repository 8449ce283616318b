--------------------------- MODULE TypePlansProofs ---------------------------
(***************************************************************************)
(* For every number of goroutines and every set of types: the types of the  *)
(* registry, one build per type, no plan lost by copy-on-write, and the     *)
(* refinement of PlanLookup, from the inductive invariant IInv.             *)
(***************************************************************************)
EXTENDS TypePlans, TLAPS

(* Where a goroutine stands between Lock and Unlock.                         *)
Inside == {"reload", "build", "publish", "unlock"}

(* The mutex is held by the one goroutine inside.                            *)
LockInv == \A g \in Goroutines : pc[g] \in Inside <=> holder = g

(* The map holds the one plan of each type built, except for the type whose  *)
(* builder has not published yet.                                            *)
CacheInv ==
    \A t \in Types :
      /\ cache[t] # NoPlan => cache[t] = [of |-> t, build |-> 1] /\ builds[t] = 1
      /\ cache[t] = NoPlan =>
           \/ builds[t] = 0
           \/ builds[t] = 1 /\ \E g \in Goroutines : pc[g] = "publish" /\ arg[g] = t

(* What g knows of its type.                                                 *)
LocalInv(g) ==
    /\ pc[g] # "idle" => arg[g] \in Elems
    /\ pc[g] = "idle" => arg[g] = NoType
    /\ pc[g] \in {"idle", "load", "lock", "reload", "build"} => result[g] = NoPlan
    /\ pc[g] \in {"build", "publish"} => m[g] = cache /\ cache[arg[g]] = NoPlan
    /\ pc[g] = "publish" => arg[g] \in Structs /\ builds[arg[g]] = 1
    /\ pc[g] \in {"publish", "unlock", "return"} => result[g] = Outcome[arg[g]]

IInv ==
    /\ TypeOK
    /\ LockInv
    /\ CacheInv
    /\ \A g \in Goroutines : LocalInv(g)

-----------------------------------------------------------------------------
(* The outcome of a call is a plan or the panic, never NoPlan.               *)
LEMMA OutcomeType ==
  ASSUME NEW t \in Types
  PROVE  /\ Outcome[t] \in Plan \cup {Panic} /\ Outcome[t] # NoPlan
         /\ t \in Structs => Outcome[t] = [of |-> t, build |-> 1]
         /\ t \notin Structs => Outcome[t] = Panic
BY TypesAssumption DEF Outcome, Plan

(* Stripping a pointer stays among the types.                                *)
LEMMA ElemsType == Elems \subseteq Types
BY TypesAssumption DEF Elems

(* A step of another goroutine that leaves h's variables alone, and the map  *)
(* too while h builds on it, keeps LocalInv(h).                              *)
Unmoved(h) ==
    /\ pc'[h] = pc[h] /\ arg'[h] = arg[h] /\ m'[h] = m[h] /\ result'[h] = result[h]
    /\ pc[h] \in {"build", "publish"} => cache' = cache
    /\ pc[h] = "publish" => builds' = builds

(* A step that leaves the variables of h alone keeps what is known of h.     *)
LEMMA Frame ==
  ASSUME IInv, NEW h \in Goroutines, Unmoved(h)
  PROVE  LocalInv(h)'
<1>1. LocalInv(h)
  BY DEF IInv
<1> QED BY <1>1 DEF Unmoved, LocalInv

(* CacheInv speaks of cache, builds and who is about to publish.             *)
LEMMA CacheFrame ==
  ASSUME IInv, cache' = cache, builds' = builds,
         \A h \in Goroutines : pc[h] = "publish" => pc'[h] = "publish" /\ arg'[h] = arg[h]
  PROVE  CacheInv'
<1> SUFFICES ASSUME NEW t \in Types, cache[t] = NoPlan, builds[t] # 0
             PROVE  builds[t] = 1 /\ \E g \in Goroutines : pc'[g] = "publish" /\ arg'[g] = t
  BY DEF IInv, CacheInv
<1>1. builds[t] = 1 /\ \E g \in Goroutines : pc[g] = "publish" /\ arg[g] = t
  BY DEF IInv, CacheInv
<1> QED BY <1>1

(* A call that finds its type in the map returns the plan of that type.      *)
LEMMA HitIsOutcome ==
  ASSUME IInv, NEW t \in Types, cache[t] # NoPlan
  PROVE  cache[t] = Outcome[t] /\ cache[t] \in Plan
<1>1. cache[t] \in Plan /\ cache[t] = [of |-> t, build |-> 1]
  BY DEF IInv, TypeOK, Map, CacheInv
<1>2. t \in Structs
  BY <1>1 DEF Plan
<1> QED BY <1>1, <1>2, OutcomeType

(* The inductive invariant holds at first.                                   *)
LEMMA InitIInv == Init => IInv
<1> SUFFICES ASSUME Init PROVE IInv
  OBVIOUS
<1>1. TypeOK
  BY DEF Init, TypeOK, Map, EmptyMap, Label
<1>2. LockInv /\ CacheInv
  BY TypesAssumption DEF Init, LockInv, CacheInv, Inside, EmptyMap
<1>3. ASSUME NEW g \in Goroutines PROVE LocalInv(g)
  BY DEF Init, LocalInv
<1> QED BY <1>1, <1>2, <1>3 DEF IInv

(* Call keeps IInv.                                                          *)
LEMMA CallStep ==
  ASSUME IInv, NEW g \in Goroutines, Call(g)
  PROVE  IInv'
<1>1. PICK t \in Types : arg' = [arg EXCEPT ![g] = Elem[t]]
  BY DEF Call
<1>2. Elem[t] \in Elems /\ Elem[t] \in Types
  BY TypesAssumption DEF Elems
<1>3. TypeOK'
  BY <1>1, <1>2 DEF IInv, TypeOK, Call, Goto, Label
<1>4. LockInv'
  BY DEF IInv, TypeOK, LockInv, Inside, Call, Goto
<1>5. CacheInv'
  BY <1>1, CacheFrame DEF IInv, TypeOK, Call, Goto
<1>6. LocalInv(g)'
  BY <1>1, <1>2 DEF IInv, TypeOK, LocalInv, Call, Goto
<1>7. ASSUME NEW h \in Goroutines \ {g} PROVE LocalInv(h)'
  BY <1>1, Frame DEF Unmoved, IInv, TypeOK, Call, Goto
<1> QED BY <1>3, <1>4, <1>5, <1>6, <1>7 DEF IInv

(* LoadHit keeps IInv.                                                       *)
LEMMA LoadHitStep ==
  ASSUME IInv, NEW g \in Goroutines, LoadHit(g)
  PROVE  IInv'
<1>1. pc[g] = "load" /\ cache[arg[g]] # NoPlan /\ arg[g] \in Types /\ arg[g] \in Elems
  BY ElemsType DEF LoadHit, Goto, IInv, LocalInv
<1>2. cache[arg[g]] = Outcome[arg[g]] /\ cache[arg[g]] \in Plan
  BY <1>1, HitIsOutcome
<1>3. TypeOK'
  BY <1>2 DEF IInv, TypeOK, LoadHit, Goto, Label
<1>4. LockInv'
  BY <1>1 DEF IInv, TypeOK, LockInv, Inside, LoadHit, Goto
<1>5. CacheInv'
  BY <1>1, CacheFrame DEF IInv, TypeOK, LoadHit, Goto
<1>6. LocalInv(g)'
  BY <1>1, <1>2 DEF IInv, TypeOK, LocalInv, LoadHit, Goto
<1>7. ASSUME NEW h \in Goroutines \ {g} PROVE LocalInv(h)'
  BY Frame DEF Unmoved, IInv, TypeOK, LoadHit, Goto
<1> QED BY <1>3, <1>4, <1>5, <1>6, <1>7 DEF IInv

(* LoadMiss keeps IInv.                                                      *)
LEMMA LoadMissStep ==
  ASSUME IInv, NEW g \in Goroutines, LoadMiss(g)
  PROVE  IInv'
<1>1. TypeOK'
  BY DEF IInv, TypeOK, LoadMiss, Goto, Label
<1>2. LockInv'
  BY DEF IInv, TypeOK, LockInv, Inside, LoadMiss, Goto
<1>3. CacheInv'
  BY CacheFrame DEF IInv, TypeOK, LoadMiss, Goto
<1>4. LocalInv(g)'
  BY DEF IInv, TypeOK, LocalInv, LoadMiss, Goto
<1>5. ASSUME NEW h \in Goroutines \ {g} PROVE LocalInv(h)'
  BY Frame DEF Unmoved, IInv, TypeOK, LoadMiss, Goto
<1> QED BY <1>1, <1>2, <1>3, <1>4, <1>5 DEF IInv

(* Lock keeps IInv.                                                          *)
LEMMA LockStep ==
  ASSUME IInv, NEW g \in Goroutines, Lock(g)
  PROVE  IInv'
<1>1. TypeOK'
  BY DEF IInv, TypeOK, Lock, Goto, Label
<1>2. LockInv'
  <2>1. \A h \in Goroutines : pc[h] \notin Inside
    BY TypesAssumption DEF IInv, LockInv, Lock
  <2> QED BY <2>1 DEF IInv, TypeOK, LockInv, Inside, Lock, Goto
<1>3. CacheInv'
  BY CacheFrame DEF IInv, TypeOK, Lock, Goto
<1>4. LocalInv(g)'
  BY DEF IInv, TypeOK, LocalInv, Lock, Goto
<1>5. ASSUME NEW h \in Goroutines \ {g} PROVE LocalInv(h)'
  BY Frame DEF Unmoved, IInv, TypeOK, Lock, Goto
<1> QED BY <1>1, <1>2, <1>3, <1>4, <1>5 DEF IInv

(* ReloadHit keeps IInv.                                                     *)
LEMMA ReloadHitStep ==
  ASSUME IInv, NEW g \in Goroutines, ReloadHit(g)
  PROVE  IInv'
<1>1. pc[g] = "reload" /\ cache[arg[g]] # NoPlan /\ arg[g] \in Types /\ arg[g] \in Elems
  BY ElemsType DEF ReloadHit, Goto, IInv, LocalInv
<1>2. cache[arg[g]] = Outcome[arg[g]] /\ cache[arg[g]] \in Plan
  BY <1>1, HitIsOutcome
<1>3. TypeOK'
  BY <1>2 DEF IInv, TypeOK, ReloadHit, Goto, Label
<1>4. LockInv'
  BY <1>1 DEF IInv, TypeOK, LockInv, Inside, ReloadHit, Goto
<1>5. CacheInv'
  BY <1>1, CacheFrame DEF IInv, TypeOK, ReloadHit, Goto
<1>6. LocalInv(g)'
  BY <1>1, <1>2 DEF IInv, TypeOK, LocalInv, ReloadHit, Goto
<1>7. ASSUME NEW h \in Goroutines \ {g} PROVE LocalInv(h)'
  BY Frame DEF Unmoved, IInv, TypeOK, ReloadHit, Goto
<1> QED BY <1>3, <1>4, <1>5, <1>6, <1>7 DEF IInv

(* ReloadMiss keeps IInv.                                                    *)
LEMMA ReloadMissStep ==
  ASSUME IInv, NEW g \in Goroutines, ReloadMiss(g)
  PROVE  IInv'
<1>1. TypeOK'
  BY DEF IInv, TypeOK, ReloadMiss, Goto, Label
<1>2. LockInv'
  BY DEF IInv, TypeOK, LockInv, Inside, ReloadMiss, Goto
<1>3. CacheInv'
  BY CacheFrame DEF IInv, TypeOK, ReloadMiss, Goto
<1>4. LocalInv(g)'
  BY DEF IInv, TypeOK, LocalInv, ReloadMiss, Goto
<1>5. ASSUME NEW h \in Goroutines \ {g} PROVE LocalInv(h)'
  BY Frame DEF Unmoved, IInv, TypeOK, ReloadMiss, Goto
<1> QED BY <1>1, <1>2, <1>3, <1>4, <1>5 DEF IInv

(* The type was never built: its builder would be inside with g.             *)
LEMMA BuildStep ==
  ASSUME IInv, NEW g \in Goroutines, Build(g)
  PROVE  IInv'
<1> DEFINE t == arg[g]
<1>1. /\ pc[g] = "build" /\ t \in Structs /\ t \in Types /\ t \in Elems
      /\ cache[t] = NoPlan /\ m[g] = cache
  BY ElemsType DEF Build, Goto, IInv, LocalInv
<1>2. \A h \in Goroutines : pc[h] # "publish"
  BY <1>1 DEF IInv, LockInv, Inside
<1>10. builds[t] = 0
  BY <1>1, <1>2 DEF IInv, CacheInv
<1>3. /\ builds' = [builds EXCEPT ![t] = 1]
      /\ result' = [result EXCEPT ![g] = [of |-> t, build |-> 1]]
  <2>1. builds' = [builds EXCEPT ![t] = 1]
    BY <1>10 DEF Build
  <2>2. builds'[t] = 1
    BY <1>1, <2>1 DEF IInv, TypeOK
  <2> QED BY <2>1, <2>2 DEF Build
<1>4. [of |-> t, build |-> 1] = Outcome[t] /\ [of |-> t, build |-> 1] \in Plan
  BY <1>1, OutcomeType DEF Plan
<1>5. TypeOK'
  <2>1. builds' \in [Types -> Nat]
    BY <1>3 DEF IInv, TypeOK
  <2>2. result' \in [Goroutines -> Plan \cup {NoPlan, Panic}]
    BY <1>3, <1>4 DEF IInv, TypeOK
  <2> QED BY <2>1, <2>2 DEF IInv, TypeOK, Build, Goto, Label
<1>6. LockInv'
  BY <1>1 DEF IInv, TypeOK, LockInv, Inside, Build, Goto
<1>7. CacheInv'
  <2>1. /\ cache' = cache /\ arg' = arg /\ pc'[g] = "publish"
        /\ \A h \in Goroutines : pc[h] = "publish" => pc'[h] = "publish"
    BY <1>1 DEF IInv, TypeOK, Build, Goto
  <2>2. builds'[t] = 1 /\ \A u \in Types \ {t} : builds'[u] = builds[u]
    BY <1>1, <1>3 DEF IInv, TypeOK
  <2>3. ASSUME NEW u \in Types \ {t}
        PROVE  /\ cache'[u] # NoPlan => cache'[u] = [of |-> u, build |-> 1] /\ builds'[u] = 1
               /\ cache'[u] = NoPlan =>
                    \/ builds'[u] = 0
                    \/ builds'[u] = 1 /\ \E h \in Goroutines : pc'[h] = "publish" /\ arg'[h] = u
    BY <2>1, <2>2 DEF IInv, CacheInv
  <2> QED BY <1>1, <2>1, <2>2, <2>3 DEF CacheInv
<1>8. LocalInv(g)'
  BY <1>1, <1>3, <1>4 DEF IInv, TypeOK, LocalInv, Build, Goto
<1>9. ASSUME NEW h \in Goroutines \ {g} PROVE LocalInv(h)'
  BY <1>2, Frame DEF Unmoved, IInv, TypeOK, Build, Goto
<1> QED BY <1>5, <1>6, <1>7, <1>8, <1>9 DEF IInv

(* BuildPanics keeps IInv.                                                   *)
LEMMA BuildPanicsStep ==
  ASSUME IInv, NEW g \in Goroutines, BuildPanics(g)
  PROVE  IInv'
<1>1. pc[g] = "build" /\ arg[g] \in Types /\ arg[g] \in Elems /\ Outcome[arg[g]] = Panic
  BY ElemsType, OutcomeType DEF BuildPanics, Goto, IInv, LocalInv
<1>2. TypeOK'
  BY DEF IInv, TypeOK, BuildPanics, Goto, Label
<1>3. LockInv'
  BY <1>1 DEF IInv, TypeOK, LockInv, Inside, BuildPanics, Goto
<1>4. CacheInv'
  BY <1>1, CacheFrame DEF IInv, TypeOK, BuildPanics, Goto
<1>5. LocalInv(g)'
  BY <1>1 DEF IInv, TypeOK, LocalInv, BuildPanics, Goto
<1>6. ASSUME NEW h \in Goroutines \ {g} PROVE LocalInv(h)'
  BY Frame DEF Unmoved, IInv, TypeOK, BuildPanics, Goto
<1> QED BY <1>2, <1>3, <1>4, <1>5, <1>6 DEF IInv

(* The map g copied is still the published one, so only its type is added.   *)
LEMMA PublishStep ==
  ASSUME IInv, NEW g \in Goroutines, Publish(g)
  PROVE  IInv' /\ \A t \in Types : cache[t] # NoPlan => cache'[t] = cache[t]
<1> DEFINE t == arg[g]
<1>1. /\ pc[g] = "publish" /\ t \in Structs /\ t \in Types /\ t \in Elems
      /\ cache[t] = NoPlan /\ m[g] = cache /\ result[g] = [of |-> t, build |-> 1]
  BY ElemsType, OutcomeType DEF Publish, Goto, IInv, LocalInv
<1>2. cache' = [cache EXCEPT ![t] = result[g]] /\ result[g] \in Plan
  BY <1>1 DEF Publish, Plan
<1>3. /\ cache'[t] = [of |-> t, build |-> 1]
      /\ \A u \in Types \ {t} : cache'[u] = cache[u]
  BY <1>1, <1>2 DEF IInv, TypeOK, Map
<1>4. TypeOK'
  BY <1>1, <1>2 DEF IInv, TypeOK, Map, Publish, Goto, Label
<1>5. LockInv'
  BY <1>1 DEF IInv, TypeOK, LockInv, Inside, Publish, Goto
<1>6. \A h \in Goroutines \ {g} : pc[h] \notin {"build", "publish"}
  BY <1>1 DEF IInv, LockInv, Inside
<1>7. CacheInv'
  <2>1. builds' = builds /\ builds[t] = 1
    BY <1>1 DEF IInv, LocalInv, Publish
  <2>2. ASSUME NEW u \in Types \ {t}, cache[u] = NoPlan PROVE builds[u] = 0
    BY <1>1, <1>6, <2>2 DEF IInv, CacheInv
  <2>3. ASSUME NEW u \in Types \ {t}, cache[u] # NoPlan
        PROVE  cache[u] = [of |-> u, build |-> 1] /\ builds[u] = 1
    BY <2>3 DEF IInv, CacheInv
  <2>4. cache'[t] # NoPlan
    BY <1>1, <1>2, <1>3, TypesAssumption
  <2> QED BY <1>3, <2>1, <2>2, <2>3, <2>4 DEF CacheInv
<1>8. LocalInv(g)'
  BY <1>1, OutcomeType DEF IInv, TypeOK, LocalInv, Publish, Goto
<1>9. ASSUME NEW h \in Goroutines \ {g} PROVE LocalInv(h)'
  BY <1>6, Frame DEF Unmoved, IInv, TypeOK, Publish, Goto
<1>10. \A u \in Types : cache[u] # NoPlan => cache'[u] = cache[u]
  BY <1>1, <1>3
<1> QED BY <1>4, <1>5, <1>7, <1>8, <1>9, <1>10 DEF IInv

(* Unlock keeps IInv.                                                        *)
LEMMA UnlockStep ==
  ASSUME IInv, NEW g \in Goroutines, Unlock(g)
  PROVE  IInv'
<1>1. pc[g] = "unlock" /\ holder = g
  BY DEF Unlock, Goto, IInv, LockInv, Inside
<1>2. TypeOK'
  BY DEF IInv, TypeOK, Unlock, Goto, Label
<1>3. LockInv'
  BY <1>1, TypesAssumption DEF IInv, TypeOK, LockInv, Inside, Unlock, Goto
<1>4. CacheInv'
  BY <1>1, CacheFrame DEF IInv, TypeOK, Unlock, Goto
<1>5. LocalInv(g)'
  BY <1>1 DEF IInv, TypeOK, LocalInv, Unlock, Goto
<1>6. ASSUME NEW h \in Goroutines \ {g} PROVE LocalInv(h)'
  BY Frame DEF Unmoved, IInv, TypeOK, Unlock, Goto
<1> QED BY <1>2, <1>3, <1>4, <1>5, <1>6 DEF IInv

(* Return keeps IInv.                                                        *)
LEMMA ReturnStep ==
  ASSUME IInv, NEW g \in Goroutines, Return(g)
  PROVE  IInv'
<1>1. TypeOK'
  BY DEF IInv, TypeOK, Return, Goto, Label, Map, EmptyMap
<1>2. LockInv'
  BY DEF IInv, TypeOK, LockInv, Inside, Return, Goto
<1>3. CacheInv'
  BY CacheFrame DEF IInv, TypeOK, Return, Goto
<1>4. LocalInv(g)'
  BY DEF IInv, TypeOK, LocalInv, Return, Goto
<1>5. ASSUME NEW h \in Goroutines \ {g} PROVE LocalInv(h)'
  BY Frame DEF Unmoved, IInv, TypeOK, Return, Goto
<1> QED BY <1>1, <1>2, <1>3, <1>4, <1>5 DEF IInv

(* A stuttering step keeps IInv.                                             *)
LEMMA StutterStep == IInv /\ UNCHANGED vars => IInv'
<1> SUFFICES ASSUME IInv, UNCHANGED vars PROVE IInv'
  OBVIOUS
<1>1. TypeOK' /\ LockInv' /\ CacheInv'
  BY DEF IInv, TypeOK, LockInv, CacheInv, vars
<1>2. ASSUME NEW h \in Goroutines PROVE LocalInv(h)'
  BY Frame DEF Unmoved, vars
<1> QED BY <1>1, <1>2 DEF IInv

-----------------------------------------------------------------------------
(* The theorems.                                                             *)

(* IInv is inductive.                                                        *)
LEMMA NextStep == ASSUME IInv, [Next]_vars PROVE IInv'
<1>1. CASE UNCHANGED vars
  BY <1>1, StutterStep
<1>2. ASSUME NEW g \in Goroutines, Call(g) \/ Lock(g) \/ Running(g) PROVE IInv'
  BY <1>2, CallStep, LoadHitStep, LoadMissStep, LockStep, ReloadHitStep,
     ReloadMissStep, BuildStep, BuildPanicsStep, PublishStep, UnlockStep,
     ReturnStep DEF Running
<1> QED BY <1>1, <1>2 DEF Next

(* IInv is inductive: it holds in every reachable state.                     *)
THEOREM Invariance == Spec => []IInv
BY InitIInv, NextStep, PTL DEF Spec, Safety

(* Every variable has its type, for every instance of the constants.         *)
THEOREM TypeCorrect == Spec => []TypeOK
<1>1. IInv => TypeOK
  BY DEF IInv
<1> QED BY <1>1, Invariance, PTL

(* buildTypePlan returns at most one time per type, however many callers.    *)
THEOREM EachTypeBuiltOnce == Spec => []BuiltOnce
<1>1. IInv => BuiltOnce
  <2>1. ASSUME IInv, NEW t \in Types PROVE builds[t] \in {0, 1}
    BY <2>1 DEF IInv, CacheInv
  <2> QED BY <2>1 DEF BuiltOnce
<1> QED BY <1>1, Invariance, PTL

(* No published plan is ever lost or replaced.                               *)
THEOREM NothingLost == Spec => RegistryGrows
<1>1. ASSUME IInv, [Next]_vars
      PROVE  [\A t \in Types : cache[t] # NoPlan => cache'[t] = cache[t]]_vars
  <2>1. CASE UNCHANGED vars
    BY <2>1 DEF vars
  <2>2. ASSUME NEW g \in Goroutines, Publish(g)
        PROVE  \A t \in Types : cache[t] # NoPlan => cache'[t] = cache[t]
    BY <1>1, <2>2, PublishStep
  <2>3. ASSUME NEW g \in Goroutines, Call(g) \/ Lock(g) \/ Running(g), ~ Publish(g)
        PROVE  cache' = cache
    BY <2>3 DEF Running, Call, Lock, LoadHit, LoadMiss, ReloadHit, ReloadMiss,
       Build, BuildPanics, Unlock, Return
  <2> QED BY <1>1, <2>1, <2>2, <2>3 DEF Next
<1> QED BY <1>1, Invariance, PTL DEF Spec, Safety, RegistryGrows

(* The registry with its mutex and its copy-on-write map does only what the  *)
(* lookup without them allows.                                               *)
THEOREM Refinement == Spec => Abstract!Safety
<1>1. Init => Abstract!Init
  BY DEF Init, Abstract!Init, Returned
<1>2. ASSUME IInv, [Next]_vars PROVE [Abstract!Next]_(Abstract!vars)
  <2>1. ASSUME NEW g \in Goroutines, Call(g) PROVE Abstract!Ask(g)
    <3>1. PICK t \in Types : arg' = [arg EXCEPT ![g] = Elem[t]]
      BY <2>1 DEF Call
    <3>2. Elem[t] \in Elems
      BY DEF Elems
    <3>3. arg[g] = NoType
      BY <1>2, <2>1 DEF IInv, LocalInv, Call, Goto
    <3>4. Returned' = Returned
      BY <1>2, <2>1 DEF IInv, TypeOK, Call, Goto, Returned
    <3> QED BY <3>1, <3>2, <3>3, <3>4 DEF Abstract!Ask
  <2>2. ASSUME NEW g \in Goroutines, LoadHit(g) \/ Unlock(g) PROVE Abstract!Answer(g)
    <3>1. /\ pc[g] # "idle" /\ pc[g] # "return" /\ pc' = [pc EXCEPT ![g] = "return"]
          /\ arg' = arg /\ \A h \in Goroutines \ {g} : result'[h] = result[h]
      BY <1>2, <2>2 DEF IInv, TypeOK, LoadHit, Unlock, Goto
    <3>2. result'[g] = Outcome[arg[g]]
      BY <1>2, <2>2, LoadHitStep, UnlockStep, <3>1 DEF IInv, TypeOK, LocalInv
    <3>3. arg[g] # NoType
      BY <1>2, <3>1, ElemsType, TypesAssumption DEF IInv, LocalInv
    <3>4. Returned' = [Returned EXCEPT ![g] = Outcome[arg[g]]]
      BY <1>2, <3>1, <3>2 DEF IInv, TypeOK, Returned
    <3>5. Returned[g] = NoPlan
      BY <3>1 DEF Returned
    <3> QED BY <3>1, <3>3, <3>4, <3>5 DEF Abstract!Answer
  <2>3. ASSUME NEW g \in Goroutines, Return(g) PROVE Abstract!Finish(g)
    <3>1. pc[g] = "return" /\ arg[g] \in Types /\ result[g] = Outcome[arg[g]]
      BY <1>2, <2>3, ElemsType DEF IInv, LocalInv, Return, Goto
    <3>2. Returned[g] # NoPlan
      BY <3>1, OutcomeType DEF Returned
    <3>3. Returned' = [Returned EXCEPT ![g] = NoPlan]
      BY <1>2, <2>3 DEF IInv, TypeOK, Return, Goto, Returned
    <3> QED BY <2>3, <3>2, <3>3 DEF Abstract!Finish, Return
  <2>4. ASSUME NEW g \in Goroutines, Lock(g) \/ Running(g),
               ~ LoadHit(g), ~ Unlock(g), ~ Return(g)
        PROVE  UNCHANGED Abstract!vars
    <3>1. /\ arg' = arg /\ pc[g] # "return" /\ pc'[g] # "return"
          /\ \A h \in Goroutines \ {g} : pc'[h] = pc[h] /\ result'[h] = result[h]
      BY <1>2, <2>4 DEF IInv, TypeOK, Running, Lock, LoadMiss, ReloadHit,
         ReloadMiss, Build, BuildPanics, Publish, Goto
    <3>2. Returned' = Returned
      BY <3>1 DEF Returned
    <3> QED BY <3>1, <3>2 DEF Abstract!vars
  <2>5. CASE UNCHANGED vars
    BY <2>5 DEF vars, Abstract!vars, Returned
  <2> QED BY <1>2, <2>1, <2>2, <2>3, <2>4, <2>5 DEF Next, Running, Abstract!Next
<1> QED BY <1>1, <1>2, Invariance, PTL DEF Spec, Safety, Abstract!Safety
=============================================================================
