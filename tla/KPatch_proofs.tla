--------------------------- MODULE KPatch_proofs ---------------------------
(***************************************************************************)
(* Proofs about KPatch: while the engine is started once, the text of the  *)
(* kernel follows the states of the patches, and every trampoline in use   *)
(* runs the original function. Whatever the functions, the patches, the    *)
(* modules and the caps.                                                   *)
(*                                                                         *)
(* The invariant is Core, about the engine, and CallTypeOK and DropFailed, *)
(* about the module call. Core is shown of the four operations first:      *)
(* every action is one of them or leaves the engine alone. For the module  *)
(* calls, CallInv adds what each step of a call knows about the table and  *)
(* the text that the call found.                                           *)
(***************************************************************************)
EXTENDS KPatch, TLAPS

(* With one start: an engine that is down has an empty table, and one not  *)
(* yet started has no registered patch.                                    *)
StartedOnce ==
    /\ ~inited => table = <<>>
    /\ inits = 0 => ~inited /\ \A p \in Patch : state[p] = "UNREGISTERED"

Core == EngineTypeOK /\ TextFollowsState /\ CallsReachOriginal /\ TableExact /\ StartedOnce

(* The patch a load is about to drop is the one whose enable failed.       *)
DropFailed == At("drop") => inited /\ state[Cur] = "ERROR"

IInv == Core /\ CallTypeOK /\ DropFailed

USE DEF PatchState, Code

----------------------------------------------------------------------------
(* A patch that is enabled is on the table, and no two on it share a       *)
(* function.                                                               *)
LEMMA ListedEnabled ==
    ASSUME Core, NEW p \in Patch, state[p] = "ENABLED"
    PROVE  inited /\ p \in Listed
  BY DEF Core, EngineTypeOK, TableExact

(* No two patches on the table share a function.                           *)
LEMMA ListedDistinct ==
    ASSUME TableExact, NEW p \in Listed, NEW q \in Listed, OrigFunc[p] = OrigFunc[q]
    PROVE  p = q
  BY DEF TableExact, Listed

(* A function no listed patch replaces has its own bytes.                  *)
LEMMA UnlistedIsOwn ==
    ASSUME Core, NEW f \in Fn, \A p \in Patch : state[p] = "ENABLED" => OrigFunc[p] # f
    PROVE  text[f] = Own
  BY DEF Core, EngineTypeOK, TextFollowsState

----------------------------------------------------------------------------
(* register keeps the engine's invariant.                                  *)
LEMMA RegisterCore ==
    ASSUME ParamAssumption, Core, NEW p \in Patch, CanRegister(p), DoRegister(p)
    PROVE  Core'
  <1>1. p \notin Listed /\ state[p] = "UNREGISTERED"
    BY DEF Core, TableExact, CanRegister
  <1>2. EngineTypeOK'
    BY DEF Core, EngineTypeOK, CanRegister, DoRegister, engine, pool
  <1>3. TextFollowsState' /\ CallsReachOriginal'
    BY <1>1 DEF Core, EngineTypeOK, TextFollowsState, CallsReachOriginal, DoRegister, engine, pool
  <1>4. /\ Listed' = Listed \cup {p}
        /\ \A i \in DOMAIN table' : \/ i = Len(table) + 1 /\ table'[i] = p
                                    \/ i \in DOMAIN table /\ table'[i] = table[i]
    <2>1. /\ DOMAIN table = 1..Len(table) /\ Len(table) \in Nat
          /\ DOMAIN table' = 1..(Len(table) + 1)
          /\ table'[Len(table) + 1] = p
          /\ \A i \in 1..Len(table) : table'[i] = table[i]
      BY DEF Core, EngineTypeOK, DoRegister
    <2>2. Listed' \subseteq Listed \cup {p}
      BY <2>1 DEF Listed
    <2>3. p \in Listed' /\ \A i \in 1..Len(table) : table[i] \in Listed'
      <3>1. \A i \in DOMAIN table' : table'[i] \in Listed'
        BY DEF Listed
      <3> QED BY <2>1, <3>1
    <2>4. Listed \subseteq Listed'
      BY <2>1, <2>3 DEF Listed
    <2> QED BY <2>1, <2>2, <2>3, <2>4
  <1>5. TableExact'
    <2>1. ASSUME NEW i \in DOMAIN table', NEW j \in DOMAIN table',
                 OrigFunc[table'[i]] = OrigFunc[table'[j]]
          PROVE  i = j
      <3>1. \A k \in DOMAIN table : OrigFunc[table[k]] # OrigFunc[p]
        BY DEF CanRegister, Listed
      <3> QED BY <1>4, <2>1, <3>1 DEF Core, TableExact
    <2>2. inited' => Listed' = {q \in Patch : state'[q] # "UNREGISTERED"}
      BY <1>4 DEF Core, EngineTypeOK, TableExact, DoRegister, engine
    <2>3. inited'
      BY DEF CanRegister, DoRegister, engine
    <2> QED BY <2>1, <2>2, <2>3 DEF TableExact
  <1>6. StartedOnce'
    BY DEF Core, StartedOnce, CanRegister, DoRegister, engine
  <1> QED BY <1>2, <1>3, <1>5, <1>6 DEF Core

(* Taking an entry out of the table takes that patch off it and no other.  *)
LEMMA SwapOutListed ==
    ASSUME table \in Seq(Patch), TableExact, NEW i \in DOMAIN table, table' = SwapOut(i)
    PROVE  /\ table' \in Seq(Patch)
           /\ Len(table') = Len(table) - 1
           /\ Listed' = Listed \ {table[i]}
           /\ \A j, k \in DOMAIN table' :
                  OrigFunc[table'[j]] = OrigFunc[table'[k]] => j = k
  <1> DEFINE n == Len(table)
  <1>1. n \in Nat /\ i \in 1..n /\ DOMAIN table = 1..n /\ \A j \in 1..n : table[j] \in Patch
    OBVIOUS
  <1>2. /\ DOMAIN table' = 1..(n - 1)
        /\ \A j \in 1..(n - 1) : table'[j] = IF j = i THEN table[n] ELSE table[j]
    BY <1>1 DEF SwapOut
  <1>3. table' \in Seq(Patch) /\ Len(table') = n - 1
    <2>1. table' = [j \in 1..(n - 1) |-> IF j = i THEN table[n] ELSE table[j]]
      BY DEF SwapOut
    <2>2. n - 1 \in Nat /\ \A j \in 1..(n - 1) : (IF j = i THEN table[n] ELSE table[j]) \in Patch
      BY <1>1
    <2> QED BY <2>1, <2>2
  <1>4. \A j, k \in 1..n : OrigFunc[table[j]] = OrigFunc[table[k]] => j = k
    BY <1>1 DEF TableExact
  <1>5. \A j, k \in DOMAIN table' : OrigFunc[table'[j]] = OrigFunc[table'[k]] => j = k
    BY <1>1, <1>2, <1>4
  <1>6. Listed' \subseteq Listed \ {table[i]}
    BY <1>1, <1>2, <1>4 DEF Listed
  <1>7. \A k \in 1..n : k # n => k \in 1..(n - 1)
    <2> HIDE DEF n
    <2>1. n \in Nat
      BY <1>1
    <2> QED BY <2>1
  <1>8. ASSUME NEW q \in Listed, q # table[i]
        PROVE  q \in Listed'
    <2>1. PICK j \in 1..n : table[j] = q /\ j # i
      BY <1>1, <1>8 DEF Listed
    <2>2. \A k \in DOMAIN table' : table'[k] \in Listed'
      BY DEF Listed
    <2>3. CASE j = n
      <3>1. i \in 1..(n - 1) /\ table'[i] = q
        BY <1>1, <1>2, <2>1, <2>3
      <3> QED BY <1>2, <2>2, <3>1
    <2>4. CASE j # n
      <3>1. j \in 1..(n - 1)
        BY <1>7, <2>4
      <3>2. table'[j] = table[j] /\ table'[j] \in Listed'
        BY <1>2, <2>1, <2>2, <3>1
      <3> QED BY <2>1, <3>2
    <2> QED BY <2>3, <2>4
  <1> QED BY <1>3, <1>5, <1>6, <1>8

(* unregister of a patch that is not enabled keeps the invariant.          *)
LEMMA UnregisterCore ==
    ASSUME ParamAssumption, Core, NEW p \in Patch, state[p] # "ENABLED", DoUnregister(p)
    PROVE  Core'
  <1>1. PICK i \in DOMAIN table : table[i] = p /\ table' = SwapOut(i)
    BY DEF DoUnregister
  <1>2. /\ table' \in Seq(Patch)
        /\ Len(table') = Len(table) - 1
        /\ Listed' = Listed \ {p}
        /\ \A j, k \in DOMAIN table' : OrigFunc[table'[j]] = OrigFunc[table'[k]] => j = k
    BY <1>1, SwapOutListed DEF Core, EngineTypeOK
  <1>3. inited /\ inits # 0
    <2>1. table # <<>> /\ p \in Listed
      BY <1>1 DEF Core, EngineTypeOK, Listed
    <2> QED BY <2>1 DEF Core, StartedOnce
  <1>4. EngineTypeOK'
    BY <1>2, SMTT(30) DEF Core, EngineTypeOK, DoUnregister, engine, pool, ParamAssumption
  <1>5. TextFollowsState' /\ CallsReachOriginal'
    BY SMTT(30) DEF Core, EngineTypeOK, TextFollowsState, CallsReachOriginal, DoUnregister, engine, pool
  <1>6. TableExact'
    BY <1>2, <1>3 DEF Core, EngineTypeOK, TableExact, DoUnregister, engine
  <1>7. StartedOnce'
    BY <1>3 DEF StartedOnce, DoUnregister, engine
  <1> QED BY <1>4, <1>5, <1>6, <1>7 DEF Core

(* enable, whether there is room for the trampoline or not.                *)
LEMMA EnableCore ==
    ASSUME ParamAssumption, Core, NEW p \in Patch, DoEnable(p) \/ FailEnable(p)
    PROVE  Core'
  <1>1. inited /\ p \in Listed /\ state[p] # "ENABLED" /\ OrigFunc[p] \in Fn
    BY DEF Core, TableExact, DoEnable, FailEnable, CanEnable, ParamAssumption
  <1>2. text[OrigFunc[p]] = Own
    <2>1. \A q \in Patch : state[q] = "ENABLED" => OrigFunc[q] # OrigFunc[p]
      BY <1>1, ListedEnabled, ListedDistinct DEF Core
    <2> QED BY <1>1, <2>1, UnlistedIsOwn
  <1>3. Listed' = Listed
    BY DEF DoEnable, FailEnable, Listed
  <1>4. EngineTypeOK'
    <2>1. CASE DoEnable(p)
      <3>1. [of |-> p, runs |-> text[OrigFunc[p]]] \in Block
        BY <1>2 DEF Block
      <3>2. allocs' \in Seq(Block) /\ Len(allocs') <= MaxAllocs
        BY <2>1, <3>1 DEF Core, EngineTypeOK, DoEnable, HasRoom, ParamAssumption
      <3>3. top' \in 0..PoolUnits
        BY <2>1 DEF Core, EngineTypeOK, DoEnable, HasRoom, ParamAssumption
      <3>4. tramp' \in [Patch -> Nat]
        BY <2>1 DEF Core, EngineTypeOK, DoEnable
      <3> QED BY <1>2, <2>1, <3>2, <3>3, <3>4 DEF Core, EngineTypeOK, DoEnable, engine
    <2>2. CASE FailEnable(p)
      BY <1>2, <2>2 DEF Core, EngineTypeOK, FailEnable, engine, pool
    <2> QED BY <2>1, <2>2
  <1>5. TextFollowsState'
    <2>1. CASE DoEnable(p)
      <3>1. \A q \in Patch : state[q] = "ENABLED" => OrigFunc[q] # OrigFunc[p]
        BY <1>1, ListedEnabled, ListedDistinct DEF Core
      <3> QED BY <1>1, <1>2, <2>1, <3>1, ParamAssumption
              DEF Core, EngineTypeOK, TextFollowsState, DoEnable, ParamAssumption
    <2>2. CASE FailEnable(p)
      BY <1>1, <1>2, <2>2 DEF Core, EngineTypeOK, TextFollowsState, FailEnable
    <2> QED BY <2>1, <2>2
  <1>6. CallsReachOriginal'
    <2>1. CASE DoEnable(p)
      <3>1. ASSUME NEW q \in Patch, state'[q] = "ENABLED", q # p
            PROVE  tramp'[q] \in DOMAIN allocs' /\ allocs'[tramp'[q]] = [of |-> q, runs |-> Own]
        <4>1. state[q] = "ENABLED" /\ tramp'[q] = tramp[q]
          BY <2>1, <3>1 DEF Core, EngineTypeOK, DoEnable
        <4>2. tramp[q] \in DOMAIN allocs /\ allocs[tramp[q]] = [of |-> q, runs |-> Own]
          BY <4>1 DEF Core, CallsReachOriginal
        <4>3. \A k \in DOMAIN allocs : k \in DOMAIN allocs' /\ allocs'[k] = allocs[k]
          BY <2>1 DEF Core, EngineTypeOK, DoEnable
        <4> QED BY <4>1, <4>2, <4>3
      <3>2. tramp'[p] \in DOMAIN allocs' /\ allocs'[tramp'[p]] = [of |-> p, runs |-> Own]
        BY <1>2, <2>1 DEF Core, EngineTypeOK, DoEnable
      <3> QED BY <3>1, <3>2 DEF CallsReachOriginal
    <2>2. CASE FailEnable(p)
      BY <2>2 DEF Core, EngineTypeOK, CallsReachOriginal, FailEnable, pool
    <2> QED BY <2>1, <2>2
  <1>7. TableExact' /\ StartedOnce'
    <2>1. /\ table' = table /\ inited' = inited /\ inits' = inits
          /\ \A q \in Patch : q # p => state'[q] = state[q]
          /\ state'[p] \in {"ENABLED", "ERROR"}
      BY DEF Core, EngineTypeOK, DoEnable, FailEnable, engine
    <2>2. StartedOnce'
      BY <1>1, <2>1 DEF Core, StartedOnce
    <2>3. TableExact'
      BY <1>1, <1>3, <2>1 DEF Core, EngineTypeOK, TableExact
    <2> QED BY <2>2, <2>3
  <1> QED BY <1>4, <1>5, <1>6, <1>7 DEF Core

(* disable of enabled patches: the part of Core that is not the table's.   *)
LEMMA DisableText ==
    ASSUME ParamAssumption, Core, NEW S \in SUBSET Patch,
           \A p \in S : state[p] = "ENABLED", DoDisable(S)
    PROVE  /\ state' \in [Patch -> PatchState] /\ tramp' \in [Patch -> Nat]
           /\ text' \in [Fn -> Code]
           /\ allocs' \in Seq(Block) /\ Len(allocs') <= MaxAllocs
           /\ TextFollowsState' /\ CallsReachOriginal'
  <1>1. state' \in [Patch -> PatchState] /\ tramp' \in [Patch -> Nat]
    BY DEF Core, EngineTypeOK, DoDisable
  <1>2. \A f \in Fn : text'[f] = IF \E p \in S : OrigFunc[p] = f THEN Own ELSE text[f]
    BY DEF Core, TextFollowsState, DoDisable, Restored
  <1>3. text' \in [Fn -> Code]
    <2>1. DOMAIN text' = Fn /\ text' = [f \in Fn |-> text'[f]]
      BY DEF DoDisable, Restored
    <2> QED BY <1>2, <2>1 DEF Core, EngineTypeOK
  <1>4. /\ DOMAIN allocs' = DOMAIN allocs
        /\ \A i \in DOMAIN allocs : allocs'[i] = IF \E p \in S : tramp[p] = i THEN Zeroed ELSE allocs[i]
    BY DEF DoDisable, Freed
  <1>5. allocs' \in Seq(Block) /\ Len(allocs') <= MaxAllocs
    <2>1. DOMAIN allocs = 1..Len(allocs) /\ Len(allocs) \in Nat
      BY DEF Core, EngineTypeOK
    <2>2. \A i \in 1..Len(allocs) : (IF \E p \in S : tramp[p] = i THEN Zeroed ELSE allocs[i]) \in Block
      BY <2>1 DEF Core, EngineTypeOK, Block
    <2>3. allocs' = [i \in 1..Len(allocs) |-> IF \E p \in S : tramp[p] = i THEN Zeroed ELSE allocs[i]]
      BY <2>1 DEF DoDisable, Freed
    <2> QED BY <2>1, <2>2, <2>3 DEF Core, EngineTypeOK
  <1>6. \A p \in Patch : state'[p] = "ENABLED" <=> state[p] = "ENABLED" /\ p \notin S
    BY DEF Core, EngineTypeOK, DoDisable
  <1>7. TextFollowsState'
    <2>1. ASSUME NEW f \in Fn, NEW p \in Patch
          PROVE  text'[f] = p <=> state'[p] = "ENABLED" /\ OrigFunc[p] = f
      <3>1. ASSUME NEW q \in S, OrigFunc[q] = f, state[p] = "ENABLED", OrigFunc[p] = f
            PROVE  p \in S
        <4>1. p = q
          BY <3>1, ListedEnabled, ListedDistinct DEF Core
        <4> QED BY <4>1
      <3> QED BY <1>2, <1>6, <3>1 DEF Core, TextFollowsState, ParamAssumption
    <2>2. \A p \in Patch : state'[p] = "ENABLED" => saved'[p] = Own
      BY <1>6 DEF Core, TextFollowsState, DoDisable
    <2> QED BY <2>1, <2>2 DEF TextFollowsState
  <1>8. CallsReachOriginal'
    <2> SUFFICES ASSUME NEW q \in Patch, state'[q] = "ENABLED"
                 PROVE  tramp'[q] \in DOMAIN allocs' /\ allocs'[tramp'[q]] = [of |-> q, runs |-> Own]
      BY DEF CallsReachOriginal
    <2>1. state[q] = "ENABLED" /\ q \notin S /\ tramp'[q] = tramp[q]
      BY <1>6 DEF DoDisable
    <2>2. \A p \in S : tramp[p] # tramp[q]
      <3>1. ASSUME NEW p \in S, tramp[p] = tramp[q]
            PROVE  FALSE
        <4>1. [of |-> p, runs |-> Own] = [of |-> q, runs |-> Own]
          BY <2>1, <3>1 DEF Core, CallsReachOriginal
        <4>2. [of |-> p, runs |-> Own].of = [of |-> q, runs |-> Own].of
          BY <4>1
        <4> QED BY <2>1, <4>2
      <3> QED BY <3>1
    <2> QED BY <1>4, <2>1, <2>2 DEF Core, CallsReachOriginal
  <1> QED BY <1>1, <1>3, <1>5, <1>7, <1>8

(* Disabling, one patch or all of them at once, keeps Core.                *)
LEMMA DisableCore ==
    ASSUME ParamAssumption, Core, NEW p \in Patch, CanDisable(p), DoDisable({p}),
           UNCHANGED <<engine, table>>
    PROVE  Core'
  <1>1. EngineTypeOK' /\ TextFollowsState' /\ CallsReachOriginal'
    <2>1. \A q \in {p} : state[q] = "ENABLED"
      BY DEF CanDisable
    <2>2. /\ state' \in [Patch -> PatchState] /\ tramp' \in [Patch -> Nat]
          /\ text' \in [Fn -> Code]
          /\ allocs' \in Seq(Block) /\ Len(allocs') <= MaxAllocs
          /\ TextFollowsState' /\ CallsReachOriginal'
      BY <2>1, DisableText
    <2> QED BY <2>2 DEF Core, EngineTypeOK, DoDisable, engine
  <1>2. TableExact' /\ StartedOnce'
    BY DEF Core, EngineTypeOK, TableExact, StartedOnce, Listed, CanDisable, DoDisable, engine
  <1> QED BY <1>1, <1>2 DEF Core

(* A step that leaves the engine alone keeps Core.                         *)
LEMMA QuietCore ==
    ASSUME Core, Quiet
    PROVE  Core'
  BY DEF Core, Quiet, engine, marks, pool, EngineTypeOK, TextFollowsState, CallsReachOriginal,
         TableExact, Listed, StartedOnce

----------------------------------------------------------------------------
(* The one start of the engine, and its end.                               *)
LEMMA EngineInitCore ==
    ASSUME ParamAssumption, MaxInits = 1, Core, EngineInit
    PROVE  Core'
  <1>1. inits = 0 /\ inits' = 1 /\ inited' /\ table' = <<>> /\ allocs' = <<>> /\ top' = 0
    BY DEF Core, EngineTypeOK, EngineInit
  <1>2. \A p \in Patch : state'[p] = "UNREGISTERED"
    BY <1>1 DEF Core, StartedOnce, EngineInit, marks
  <1>3. EngineTypeOK'
    BY <1>1, <1>2 DEF Core, EngineTypeOK, EngineInit, marks, ParamAssumption
  <1>4. TextFollowsState' /\ CallsReachOriginal'
    BY <1>2 DEF Core, EngineTypeOK, StartedOnce, TextFollowsState, CallsReachOriginal, EngineInit, marks
  <1>5. TableExact' /\ StartedOnce'
    BY <1>1, <1>2 DEF TableExact, Listed, StartedOnce
  <1> QED BY <1>3, <1>4, <1>5 DEF Core

(* The shutdown of the engine keeps Core.                                  *)
LEMMA EngineDeinitCore ==
    ASSUME ParamAssumption, Core, EngineDeinit
    PROVE  Core'
  <1> DEFINE S == {p \in Listed : state[p] = "ENABLED"}
  <1>1. S \in SUBSET Patch /\ \A p \in S : state[p] = "ENABLED"
    BY DEF Core, EngineTypeOK, Listed
  <1>2. DoDisable(S) /\ inited /\ inited' = FALSE /\ table' = <<>> /\ inits' = inits
    BY DEF EngineDeinit
  <1>3. /\ state' \in [Patch -> PatchState] /\ tramp' \in [Patch -> Nat]
        /\ text' \in [Fn -> Code]
        /\ allocs' \in Seq(Block) /\ Len(allocs') <= MaxAllocs
        /\ TextFollowsState' /\ CallsReachOriginal'
    BY <1>1, <1>2, DisableText
  <1>4. EngineTypeOK'
    <2>1. table' \in Seq(Patch) /\ Len(table') = 0 /\ MaxPatches >= 0
      BY <1>2 DEF ParamAssumption
    <2>2. saved' = saved /\ top' = top /\ inited' \in BOOLEAN /\ inits' = inits
      BY <1>2 DEF DoDisable
    <2> QED BY <1>3, <2>1, <2>2 DEF Core, EngineTypeOK
  <1>5. \A p \in Patch : state'[p] # "ENABLED"
    <2>1. \A p \in Patch : state[p] = "ENABLED" => p \in S
      BY ListedEnabled
    <2> QED BY <1>2, <2>1 DEF DoDisable
  <1>6. TableExact' /\ StartedOnce'
    BY <1>2, <1>5 DEF Core, TableExact, StartedOnce
  <1> QED BY <1>3, <1>4, <1>6 DEF Core

(* The patch a module call is at is one of the module's.                   *)
LEMMA CurIsPatch ==
    ASSUME ParamAssumption, CallTypeOK, call.step # "idle"
    PROVE  /\ Cur \in Patch
           /\ call.mod \in Module /\ call.at \in 1..call.n
           /\ call.n \in 1..Len(Patches[call.mod]) /\ Len(Patches[call.mod]) \in Nat
  <1>1. /\ call.mod \in Module /\ call.at \in 1..call.n
        /\ call.n \in 1..Len(Patches[call.mod])
    BY DEF CallTypeOK, Idle
  <1>2. Patches[call.mod] \in Seq(Patch)
    BY <1>1 DEF ParamAssumption
  <1>3. Len(Patches[call.mod]) \in Nat
    BY <1>2
  <1>4. call.at \in 1..Len(Patches[call.mod])
    BY <1>1, <1>3
  <1> QED BY <1>1, <1>2, <1>3, <1>4 DEF Cur

(* Every step keeps the engine's invariant.                                *)
LEMMA NextCore ==
    ASSUME ParamAssumption, MaxInits = 1, IInv, [Next]_vars
    PROVE  Core'
  <1> USE DEF IInv
  <1>1. CASE EngineInit
    BY <1>1, EngineInitCore
  <1>2. CASE EngineDeinit
    BY <1>2, EngineDeinitCore
  <1>3. ASSUME NEW p \in Patch, Register(p)
        PROVE  Core'
    BY <1>3, RegisterCore DEF Register
  <1>4. ASSUME NEW p \in Patch, Unregister(p)
        PROVE  Core'
    BY <1>4, UnregisterCore DEF Unregister, CanUnregister
  <1>5. ASSUME NEW p \in Patch, Enable(p)
        PROVE  Core'
    BY <1>5, EnableCore DEF Enable
  <1>6. ASSUME NEW p \in Patch, Disable(p)
        PROVE  Core'
    BY <1>6, DisableCore DEF Disable
  <1>7. ASSUME NEW m \in Module, ModuleLoad(m) \/ ModuleUnload(m)
        PROVE  Core'
    BY <1>7, QuietCore DEF ModuleLoad, ModuleUnload, Enter
  <1>8. CASE LoadRegister
    BY <1>8, RegisterCore, CurIsPatch DEF LoadRegister, At
  <1>9. CASE RegisterFails
    BY <1>9, QuietCore DEF RegisterFails
  <1>10. CASE LoadEnable
    BY <1>10, EnableCore, CurIsPatch DEF LoadEnable, At
  <1>11. CASE EnableFails
    BY <1>11, EnableCore, CurIsPatch DEF EnableFails, At
  <1>12. CASE LoadDrop
    <2>1. Cur \in Patch /\ state[Cur] # "ENABLED" /\ DoUnregister(Cur)
      BY <1>12, CurIsPatch DEF LoadDrop, At, DropFailed
    <2> QED BY <2>1, UnregisterCore
  <1>13. CASE UndoDisable
    BY <1>13, DisableCore, QuietCore, CurIsPatch DEF UndoDisable, At
  <1>14. CASE UndoUnregister
    BY <1>14, UnregisterCore, QuietCore, CurIsPatch DEF UndoUnregister, At, CanUnregister
  <1>15. CASE UNCHANGED vars
    <2>1. Quiet
      BY <1>15 DEF vars, Quiet, engine, marks, pool
    <2> QED BY <2>1, QuietCore
  <1> QED BY <1>1, <1>2, <1>3, <1>4, <1>5, <1>6, <1>7, <1>8, <1>9, <1>10, <1>11, <1>12,
             <1>13, <1>14, <1>15 DEF Next

----------------------------------------------------------------------------
(* The counters of a call, through Undo and Return.                        *)
LEMMA ReturnCall ==
    ASSUME ParamAssumption, CallTypeOK, Return, loaded' \subseteq Module
    PROVE  CallTypeOK' /\ ~At("drop")'
  BY DEF CallTypeOK, Return, Idle, Nothing, Step, At

(* A call that goes on stays well formed.                                  *)
LEMMA GotoCall ==
    ASSUME ParamAssumption, CallTypeOK, call.step # "idle", loaded' = loaded, before' = before,
           NEW s \in Step \ {"idle"}, NEW k \in 1..call.n, Goto(s, k)
    PROVE  CallTypeOK' /\ call'.step = s /\ Cur' = Patches[call.mod][k]
  <1>1. /\ call' = [call EXCEPT !.step = s, !.at = k]
        /\ call.n \in Nat
    BY CurIsPatch DEF Goto
  <1>2. /\ call'.step = s /\ call'.at = k /\ call'.n = call.n /\ call'.mod = call.mod
        /\ call' \in [step : Step, mod : Module \cup {NoModule}, at : Nat, n : Nat]
    <2>1. k \in Nat /\ s \in Step
      BY <1>1
    <2>2. call \in [step : Step, mod : Module \cup {NoModule}, at : Nat, n : Nat]
      BY DEF CallTypeOK
    <2> QED BY <1>1, <2>1, <2>2
  <1> QED BY <1>2, CurIsPatch DEF CallTypeOK, Cur

(* So does a call that turns to its rollback.                              *)
LEMMA UndoCall ==
    ASSUME ParamAssumption, CallTypeOK, call.step # "idle", loaded' = loaded,
           Undo(call.at - 1)
    PROVE  CallTypeOK' /\ ~At("drop")'
  <1>1. CASE call.at - 1 = 0
    <2>1. Return /\ loaded' \subseteq Module
      BY <1>1 DEF Undo, CallTypeOK
    <2> QED BY <2>1, ReturnCall
  <1>2. CASE call.at - 1 # 0
    <2>1. /\ call' = [call EXCEPT !.step = "disable", !.at = 1, !.n = call.at - 1]
          /\ before' = before
      BY <1>2 DEF Undo
    <2>2. call.at - 1 \in 1..Len(Patches[call.mod]) /\ call.mod \in Module
      BY <1>2, CurIsPatch
    <2>3. /\ call'.step = "disable" /\ call'.at = 1 /\ call'.n = call.at - 1 /\ call'.mod = call.mod
          /\ call' \in [step : Step, mod : Module \cup {NoModule}, at : Nat, n : Nat]
      <3>1. call.at - 1 \in Nat /\ 1 \in Nat /\ "disable" \in Step
        BY CurIsPatch DEF Step
      <3>2. call \in [step : Step, mod : Module \cup {NoModule}, at : Nat, n : Nat]
        BY DEF CallTypeOK
      <3> QED BY <2>1, <3>1, <3>2
    <2>4. 1 \in 1..call'.n /\ call'.n \in 1..Len(Patches[call'.mod])
      BY <2>2, <2>3, CurIsPatch
    <2> QED BY <2>1, <2>2, <2>3, <2>4 DEF CallTypeOK, At
  <1> QED BY <1>1, <1>2

(* And one that begins.                                                    *)
LEMMA EnterCall ==
    ASSUME ParamAssumption, Core, CallTypeOK, NEW m \in Module, NEW s \in {"register", "disable"},
           Enter(m, s)
    PROVE  CallTypeOK' /\ ~At("drop")'
  <1>1. /\ call' = [step |-> s, mod |-> m, at |-> 1, n |-> Len(Patches[m])]
        /\ before' = View /\ loaded' = loaded
    BY DEF Enter
  <1>2. Len(Patches[m]) \in Nat \ {0}
    BY DEF ParamAssumption
  <1>3. View \in [listed : SUBSET Patch, text : [Fn -> Code]]
    BY DEF Core, EngineTypeOK, View, Listed
  <1>4. call' \in [step : Step, mod : Module \cup {NoModule}, at : Nat, n : Nat]
    BY <1>1, <1>2 DEF Step
  <1> QED BY <1>1, <1>2, <1>3, <1>4 DEF CallTypeOK, At

(* Every step keeps the counters of the call right, and a load drops the   *)
(* patch whose enable failed.                                              *)
LEMMA NextCall ==
    ASSUME ParamAssumption, IInv, [Next]_vars
    PROVE  CallTypeOK' /\ DropFailed'
  <1> USE DEF IInv
  <1>1. ASSUME Direct
        PROVE  CallTypeOK' /\ DropFailed'
    BY <1>1 DEF Direct, module, CallTypeOK, DropFailed, At, Idle
  <1>2. ASSUME NEW m \in Module, ModuleLoad(m) \/ ModuleUnload(m)
        PROVE  CallTypeOK' /\ DropFailed'
    BY <1>2, EnterCall DEF ModuleLoad, ModuleUnload, DropFailed
  <1>3. CASE LoadRegister
    <2>1. call.step # "idle" /\ call.at \in 1..call.n
      BY <1>3, CurIsPatch DEF LoadRegister, At
    <2> QED BY <1>3, <2>1, GotoCall DEF LoadRegister, DropFailed, At, Step
  <1>4. CASE RegisterFails
    BY <1>4, UndoCall DEF RegisterFails, DropFailed, At
  <1>5. CASE LoadEnable
    <2>1. call.step # "idle" /\ call.mod \in Module
      BY <1>5, CurIsPatch DEF LoadEnable, At
    <2>2. CASE call.at = call.n
      BY <1>5, <2>1, <2>2, ReturnCall DEF LoadEnable, DropFailed, CallTypeOK
    <2>3. CASE call.at # call.n
      <3>1. call.at + 1 \in 1..call.n
        BY <2>1, <2>3, CurIsPatch
      <3> QED BY <1>5, <2>1, <2>3, <3>1, GotoCall DEF LoadEnable, DropFailed, At, Step
    <2> QED BY <2>2, <2>3
  <1>6. CASE EnableFails
    <2>1. call.step # "idle" /\ Cur \in Patch /\ call.at \in 1..call.n
      BY <1>6, CurIsPatch DEF EnableFails, At
    <2>2. CallTypeOK' /\ Cur' = Cur
      BY <1>6, <2>1, GotoCall DEF EnableFails, Step, Cur
    <2>3. inited' /\ state'[Cur] = "ERROR"
      BY <1>6, <2>1 DEF EnableFails, FailEnable, CanEnable, engine, Core, EngineTypeOK
    <2> QED BY <2>2, <2>3 DEF DropFailed
  <1>7. CASE LoadDrop
    BY <1>7, UndoCall DEF LoadDrop, DropFailed, At
  <1>8. CASE UndoDisable
    <2>1. call.step # "idle" /\ call.at \in 1..call.n
      BY <1>8, CurIsPatch DEF UndoDisable, At
    <2> QED BY <1>8, <2>1, GotoCall DEF UndoDisable, DropFailed, At, Step
  <1>9. CASE UndoUnregister
    <2>1. call.step # "idle"
      BY <1>9 DEF UndoUnregister, At
    <2>2. CASE call.at = call.n
      BY <1>9, <2>2, ReturnCall DEF UndoUnregister, DropFailed, CallTypeOK
    <2>3. CASE call.at # call.n
      <3>1. call.at + 1 \in 1..call.n
        BY <2>1, <2>3, CurIsPatch
      <3> QED BY <1>9, <2>1, <2>3, <3>1, GotoCall DEF UndoUnregister, DropFailed, At, Step
    <2> QED BY <2>2, <2>3
  <1>10. CASE UNCHANGED vars
    BY <1>10 DEF vars, CallTypeOK, DropFailed, At, Cur
  <1>11. ASSUME \/ EngineInit \/ EngineDeinit
                \/ \E p \in Patch : Register(p) \/ Unregister(p) \/ Enable(p) \/ Disable(p)
         PROVE  Direct
    BY <1>11 DEF EngineInit, EngineDeinit, Register, Unregister, Enable, Disable
  <1> QED BY <1>1, <1>2, <1>3, <1>4, <1>5, <1>6, <1>7, <1>8, <1>9, <1>10, <1>11 DEF Next

----------------------------------------------------------------------------
(* The invariant holds at the start.                                       *)
LEMMA InitIInv ==
    ASSUME ParamAssumption, Init
    PROVE  IInv
  <1>1. EngineTypeOK
    <2>1. table \in Seq(Patch) /\ Len(table) = 0 /\ allocs \in Seq(Block) /\ Len(allocs) = 0
      BY DEF Init
    <2>2. MaxPatches >= 0 /\ MaxAllocs >= 0 /\ 0 \in 0..PoolUnits /\ 0 \in 0..MaxInits
      BY DEF ParamAssumption
    <2>3. /\ state \in [Patch -> PatchState] /\ saved \in [Patch -> Code]
          /\ tramp \in [Patch -> Nat] /\ text \in [Fn -> Code]
      BY DEF Init
    <2> QED BY <2>1, <2>2, <2>3 DEF Init, EngineTypeOK
  <1>2. TextFollowsState /\ CallsReachOriginal
    BY DEF Init, TextFollowsState, CallsReachOriginal, ParamAssumption
  <1>3. TableExact /\ StartedOnce
    BY DEF Init, TableExact, StartedOnce
  <1>4. CallTypeOK /\ DropFailed
    BY DEF Init, CallTypeOK, DropFailed, At, Idle, Step, Nothing
  <1> QED BY <1>1, <1>2, <1>3, <1>4 DEF IInv, Core

(* The invariant, of an engine that is started once.                       *)
THEOREM KPatchInvariant == ASSUME MaxInits = 1 PROVE Spec => []IInv
  <1>1. Init => IInv
    BY InitIInv, ParamAssumption
  <1>2. IInv /\ [Next]_vars => IInv'
    BY NextCore, NextCall, ParamAssumption DEF IInv
  <1> QED BY <1>1, <1>2, PTL DEF Spec

(* Every variable of the engine and of its module calls keeps its type.    *)
THEOREM KPatchTyped == ASSUME MaxInits = 1 PROVE Spec => []TypeOK
  <1>1. IInv => TypeOK
    BY DEF IInv, Core, TypeOK
  <1> QED BY <1>1, KPatchInvariant, PTL

(* However direct calls, module loads, failed loads and unloads mix, the   *)
(* text holds the jumps of the enabled patches and nothing else            *)
(* (kp_patch.c:178-307).                                                   *)
THEOREM TextIsPatchedExactly == ASSUME MaxInits = 1 PROVE Spec => []TextFollowsState
  <1>1. IInv => TextFollowsState
    BY DEF IInv, Core
  <1> QED BY <1>1, KPatchInvariant, PTL

(* The trampoline of an enabled patch is live, its own, and runs the       *)
(* original function (kp_mem.c:40-101).                                    *)
THEOREM TrampolinesLive == ASSUME MaxInits = 1 PROVE Spec => []CallsReachOriginal
  <1>1. IInv => CallsReachOriginal
    BY DEF IInv, Core
  <1> QED BY <1>1, KPatchInvariant, PTL

(* The table lists the patches that are not unregistered, once each, and   *)
(* at most one of a function (kp_patch.c:132-172).                         *)
THEOREM TableIsExact == ASSUME MaxInits = 1 PROVE Spec => []TableExact
  <1>1. IInv => TableExact
    BY DEF IInv, Core
  <1> QED BY <1>1, KPatchInvariant, PTL

----------------------------------------------------------------------------
(* Module calls are all or nothing. Seen from b, the table and the text    *)
(* when the call was made, the table lists the patches of S besides, and   *)
(* those of T have changed the text.                                       *)
Holding(b, S, T) ==
    /\ Listed = b.listed \cup S
    /\ S \cap b.listed = {}
    /\ T \subseteq S
    /\ \A p \in T : state[p] = "ENABLED" /\ b.text[OrigFunc[p]] = Own
    /\ \A f \in Fn : (\A p \in T : OrigFunc[p] # f) => text[f] = b.text[f]

(* Registering a patch lists it, and the text stays.                       *)
LEMMA HoldsRegister ==
    ASSUME ParamAssumption, Core, NEW b, NEW S, NEW T, Holding(b, S, T),
           NEW p \in Patch, CanRegister(p), DoRegister(p)
    PROVE  Holding(b, S \cup {p}, T)' /\ p \notin S
  <1>1. p \notin Listed
    BY DEF CanRegister
  <1>2. Listed' = Listed \cup {p}
    <2>1. /\ DOMAIN table = 1..Len(table) /\ Len(table) \in Nat
          /\ DOMAIN table' = 1..(Len(table) + 1)
          /\ table'[Len(table) + 1] = p
          /\ \A i \in 1..Len(table) : table'[i] = table[i]
      BY DEF Core, EngineTypeOK, DoRegister
    <2>2. Listed' \subseteq Listed \cup {p}
      BY <2>1 DEF Listed
    <2>3. \A i \in DOMAIN table' : table'[i] \in Listed'
      BY DEF Listed
    <2>4. p \in Listed' /\ \A i \in 1..Len(table) : table[i] \in Listed'
      BY <2>1, <2>3
    <2>5. Listed \subseteq Listed'
      BY <2>1, <2>4 DEF Listed
    <2> QED BY <2>2, <2>4, <2>5
  <1>3. \A q \in T : state'[q] = state[q]
    BY <1>1 DEF Holding, DoRegister, Core, EngineTypeOK
  <1>4. text' = text
    BY DEF DoRegister
  <1> QED BY <1>1, <1>2, <1>3, <1>4 DEF Holding

(* Enabling a listed patch changes the text at its own function, which     *)
(* nobody else has changed.                                                *)
LEMMA HoldsEnable ==
    ASSUME ParamAssumption, Core, NEW b, NEW S, NEW T, Holding(b, S, T),
           NEW p \in Patch, p \in S, p \notin T, DoEnable(p)
    PROVE  Holding(b, S, T \cup {p})' /\ state'[p] = "ENABLED"
  <1>1. p \in Listed /\ T \subseteq Listed /\ state[p] # "ENABLED" /\ OrigFunc[p] \in Fn
    BY DEF Holding, DoEnable, CanEnable, ParamAssumption
  <1>2. \A q \in T : OrigFunc[q] # OrigFunc[p]
    BY <1>1, ListedDistinct DEF Core
  <1>3. text[OrigFunc[p]] = Own
    <2>1. \A q \in Patch : state[q] = "ENABLED" => OrigFunc[q] # OrigFunc[p]
      BY <1>1, ListedEnabled, ListedDistinct DEF Core
    <2> QED BY <1>1, <2>1, UnlistedIsOwn
  <1>4. b.text[OrigFunc[p]] = Own
    BY <1>1, <1>2, <1>3 DEF Holding
  <1>5. /\ Listed' = Listed
        /\ \A q \in Patch : state'[q] = IF q = p THEN "ENABLED" ELSE state[q]
        /\ \A f \in Fn : f # OrigFunc[p] => text'[f] = text[f]
    BY DEF DoEnable, Listed, Core, EngineTypeOK
  <1>6. Listed \subseteq Patch
    BY DEF Core, EngineTypeOK, Listed
  <1> QED BY <1>1, <1>4, <1>5, <1>6 DEF Holding

(* An enable that fails changes no text.                                   *)
LEMMA HoldsFail ==
    ASSUME ParamAssumption, Core, NEW b, NEW S, NEW T, Holding(b, S, T),
           NEW p \in Patch, p \notin T, FailEnable(p)
    PROVE  Holding(b, S, T)'
  <1>1. /\ Listed' = Listed /\ text' = text
        /\ \A q \in Patch : q # p => state'[q] = state[q]
    BY DEF FailEnable, Listed, Core, EngineTypeOK
  <1>2. Listed \subseteq Patch
    BY DEF Core, EngineTypeOK, Listed
  <1> QED BY <1>1, <1>2 DEF Holding

(* Unregistering takes one patch off the table, wherever the others move.  *)
LEMMA ListedUnregister ==
    ASSUME ParamAssumption, Core, NEW p \in Patch, DoUnregister(p)
    PROVE  /\ p \in Listed /\ Listed' = Listed \ {p} /\ text' = text
           /\ \A q \in Patch : q # p => state'[q] = state[q]
  <1>1. PICK i \in DOMAIN table : table[i] = p /\ table' = SwapOut(i)
    BY DEF DoUnregister
  <1>2. Listed' = Listed \ {p}
    BY <1>1, SwapOutListed DEF Core, EngineTypeOK
  <1>3. p \in Listed
    BY <1>1 DEF Listed
  <1> QED BY <1>2, <1>3 DEF DoUnregister, Core, EngineTypeOK

(* A patch that is not enabled leaves the table, and the text stays.       *)
LEMMA HoldsUnregister ==
    ASSUME ParamAssumption, Core, NEW b, NEW S, NEW T, Holding(b, S, T),
           NEW p \in Patch, p \in S, p \notin T, DoUnregister(p)
    PROVE  Holding(b, S \ {p}, T)'
  <1>1. Listed \subseteq Patch
    BY DEF Core, EngineTypeOK, Listed
  <1>2. /\ Listed' = Listed \ {p} /\ text' = text
        /\ \A q \in Patch : q # p => state'[q] = state[q]
    BY ListedUnregister
  <1>3. T \subseteq Patch /\ \A q \in T : state'[q] = state[q]
    BY <1>1, <1>2 DEF Holding
  <1> QED BY <1>1, <1>2, <1>3 DEF Holding

(* Disabling a patch puts back the text its function had at the call.      *)
LEMMA HoldsDisable ==
    ASSUME ParamAssumption, Core, NEW b, NEW S, NEW T, Holding(b, S, T),
           NEW p \in Patch, p \in T, DoDisable({p}), UNCHANGED table
    PROVE  Holding(b, S, T \ {p})' /\ state'[p] # "ENABLED"
  <1>1. /\ Listed' = Listed
        /\ \A q \in Patch : state'[q] = IF q = p THEN "DISABLED" ELSE state[q]
    BY DEF DoDisable, Listed
  <1>2. Listed \subseteq Patch /\ T \subseteq Listed
    BY DEF Core, EngineTypeOK, Listed, Holding
  <1>3. state[p] = "ENABLED" /\ saved[p] = Own /\ b.text[OrigFunc[p]] = Own
    BY DEF Holding, Core, TextFollowsState
  <1>4. \A f \in Fn : text'[f] = IF OrigFunc[p] = f THEN Own ELSE text[f]
    BY <1>3 DEF DoDisable, Restored
  <1>5. ASSUME NEW f \in Fn, \A q \in T \ {p} : OrigFunc[q] # f
        PROVE  text'[f] = b.text[f]
    BY <1>3, <1>4, <1>5 DEF Holding
  <1> QED BY <1>1, <1>2, <1>5 DEF Holding

(* A step that leaves the engine alone.                                    *)
LEMMA HoldsQuiet ==
    ASSUME NEW b, NEW S, NEW T, Holding(b, S, T), UNCHANGED <<table, state, text>>
    PROVE  Holding(b, S, T)'
  BY DEF Holding, Listed

(* Nothing left on the table: all is as it was.                            *)
LEMMA HoldsNothing ==
    ASSUME Core', NEW b \in [listed : SUBSET Patch, text : [Fn -> Code]],
           Holding(b, {}, {})'
    PROVE  View' = b
  <1>1. Listed' = b.listed /\ \A f \in Fn : text'[f] = b.text[f]
    BY DEF Holding
  <1>2. text' = b.text
    BY <1>1 DEF Core, EngineTypeOK
  <1> QED BY <1>1, <1>2 DEF View

----------------------------------------------------------------------------
(* The i-th to the j-th patch of a module.                                 *)
Some(m, i, j) == {Patches[m][x] : x \in i..j}

Apart(m, k) == \A x, y \in 1..k : Patches[m][x] = Patches[m][y] => x = y

(* One more patch at the end.                                              *)
LEMMA SomeMore ==
    ASSUME NEW m, NEW k \in Nat \ {0}
    PROVE  Some(m, 1, k) = Some(m, 1, k - 1) \cup {Patches[m][k]}
  <1>1. 1..k = 1..(k - 1) \cup {k}
    OBVIOUS
  <1> QED BY <1>1 DEF Some

(* The first patch of the rest of a module is no other of the rest.        *)
LEMMA SomeLess ==
    ASSUME NEW m, NEW n \in Nat, NEW i \in 1..n, Apart(m, n)
    PROVE  /\ Patches[m][i] \in Some(m, i, n)
           /\ Patches[m][i] \notin Some(m, i + 1, n)
           /\ Some(m, i + 1, n) = Some(m, i, n) \ {Patches[m][i]}
  <1>1. i..n = (i + 1)..n \cup {i} /\ i \notin (i + 1)..n /\ (i + 1)..n \subseteq 1..n
    OBVIOUS
  <1> QED BY <1>1 DEF Some, Apart

(* No patch before the first and none after the last.                      *)
LEMMA SomeNone ==
    ASSUME NEW m
    PROVE  Some(m, 1, 0) = {} /\ \A n \in Nat : Some(m, n + 1, n) = {}
  <1>1. 1..0 = {} /\ \A n \in Nat : (n + 1)..n = {}
    OBVIOUS
  <1> QED BY <1>1 DEF Some

(* Where a load is, where its rollback is, and where an unload is.         *)
Loading ==
    LET k == IF At("register") THEN call.at - 1 ELSE call.at
    IN  /\ call.n = Len(Patches[call.mod])
        /\ Apart(call.mod, k)
        /\ Holding(before, Some(call.mod, 1, k), Some(call.mod, 1, call.at - 1))

RollingBack ==
    LET k == IF At("disable") THEN call.at ELSE call.at + 1
    IN  /\ Apart(call.mod, call.n)
        /\ Holding(before, Some(call.mod, call.at, call.n), Some(call.mod, k, call.n))
        /\ At("unregister") => state[Cur] # "ENABLED"

Unloading ==
    /\ call.step \in {"disable", "unregister"}
    /\ call.n = Len(Patches[call.mod])
    /\ Listed = before.listed \ Some(call.mod, 1, call.at - 1)
    /\ At("unregister") => state[Cur] # "ENABLED"

CallInv ==
    call # Idle =>
        IF call.mod \in loaded THEN Unloading
        ELSE IF call.step \in {"disable", "unregister"} THEN RollingBack
        ELSE Loading

(* What the steps of a call know of it.                                    *)
LEMMA CallFacts ==
    ASSUME ParamAssumption, IInv, CallInv, call.step # "idle"
    PROVE  /\ call # Idle /\ Cur \in Patch /\ Cur = Patches[call.mod][call.at]
           /\ call.mod \in Module /\ call.at \in 1..call.n
           /\ call.n \in Nat /\ call.n <= Len(Patches[call.mod])
           /\ before \in [listed : SUBSET Patch, text : [Fn -> Code]]
  BY CurIsPatch DEF IInv, CallTypeOK, Idle, Cur

(* The fields of the call after a step that goes on.                       *)
LEMMA GotoIs ==
    ASSUME ParamAssumption, CallTypeOK, call.step # "idle", NEW s, NEW k, Goto(s, k)
    PROVE  /\ call'.step = s /\ call'.at = k /\ call'.n = call.n /\ call'.mod = call.mod
  BY DEF Goto, CallTypeOK, Idle

(* The rollback of the first k patches begins, or there is nothing to roll *)
(* back.                                                                   *)
LEMMA UndoHolds ==
    ASSUME ParamAssumption, IInv, CallInv, Core', call.step # "idle",
           loaded' = loaded, call.mod \notin loaded,
           Undo(call.at - 1), Apart(call.mod, call.at - 1), NEW b, b = before,
           NEW S, S = Some(call.mod, 1, call.at - 1), Holding(b, S, S)'
    PROVE  CallInv' /\ (call' = Idle => View' = b)
  <1>1. CASE call.at - 1 = 0
    <2>1. call' = Idle
      BY <1>1 DEF Undo, Return
    <2>2. CallInv'
      BY <2>1 DEF CallInv
    <2>3. b \in [listed : SUBSET Patch, text : [Fn -> Code]]
      BY CallFacts
    <2>4. S = {}
      BY <1>1, SomeNone
    <2>5. Holding(b, {}, {})'
      BY <2>4
    <2> QED BY <2>2, <2>3, <2>5, HoldsNothing
  <1>2. CASE call.at - 1 # 0
    <2>1. /\ call' = [call EXCEPT !.step = "disable", !.at = 1, !.n = call.at - 1]
          /\ before' = before
      BY <1>2 DEF Undo
    <2>2. /\ call'.step = "disable" /\ call'.at = 1 /\ call'.n = call.at - 1
          /\ call'.mod = call.mod
      BY <2>1 DEF IInv, CallTypeOK, Idle
    <2>3. call' # Idle
      BY <2>2 DEF Idle
    <2>4. RollingBack'
      <3>1. Some(call'.mod, call'.at, call'.n) = S
        BY <2>2
      <3> QED BY <2>1, <2>2, <3>1 DEF RollingBack, At
    <2> QED BY <2>2, <2>3, <2>4 DEF CallInv
  <1> QED BY <1>1, <1>2

AtomicStep ==
    call # Idle /\ call' = Idle =>
         LET own == {Patches[call.mod][i] : i \in DOMAIN Patches[call.mod]}
         IN  CASE call.mod \in loaded  -> Listed' = before.listed \ own
               [] call.mod \in loaded' -> /\ Listed' = before.listed \cup own
                                          /\ \A p \in own : state'[p] = "ENABLED"
               [] OTHER                -> View' = before

(* All the patches of a module.                                            *)
LEMMA OwnIs ==
    ASSUME ParamAssumption, NEW m \in Module
    PROVE  {Patches[m][i] : i \in DOMAIN Patches[m]} = Some(m, 1, Len(Patches[m]))
  <1>1. Patches[m] \in Seq(Patch)
    BY DEF ParamAssumption
  <1>2. DOMAIN Patches[m] = 1..Len(Patches[m])
    BY <1>1
  <1> QED BY <1>2 DEF Some

(* How a call ends, in three ways.                                         *)
LEMMA AtomicUnload ==
    ASSUME ParamAssumption, NEW m \in Module, m = call.mod, m \in loaded, m \notin loaded',
           Listed' = before.listed \ Some(m, 1, Len(Patches[m]))
    PROVE  AtomicStep
  <1> DEFINE own == {Patches[call.mod][i] : i \in DOMAIN Patches[call.mod]}
  <1>1. own = Some(m, 1, Len(Patches[m]))
    BY OwnIs
  <1>2. call.mod \in loaded /\ call.mod \notin loaded'
    OBVIOUS
  <1> HIDE DEF own
  <1>3. Listed' = before.listed \ own
    BY <1>1
  <1> QED BY <1>2, <1>3 DEF AtomicStep, own

(* A load that returns with the module loaded has enabled all its patches. *)
LEMMA AtomicLoad ==
    ASSUME ParamAssumption, NEW m \in Module, m = call.mod, m \notin loaded, m \in loaded',
           Listed' = before.listed \cup Some(m, 1, Len(Patches[m])),
           \A p \in Some(m, 1, Len(Patches[m])) : state'[p] = "ENABLED"
    PROVE  AtomicStep
  <1> DEFINE own == {Patches[call.mod][i] : i \in DOMAIN Patches[call.mod]}
  <1>1. own = Some(m, 1, Len(Patches[m]))
    BY OwnIs
  <1>2. call.mod \notin loaded /\ call.mod \in loaded'
    OBVIOUS
  <1> HIDE DEF own
  <1>3. Listed' = before.listed \cup own /\ \A p \in own : state'[p] = "ENABLED"
    BY <1>1
  <1> QED BY <1>2, <1>3 DEF AtomicStep, own

(* A load that fails shows what the call found.                            *)
LEMMA AtomicFailure ==
    ASSUME call.mod \notin loaded, call.mod \notin loaded', View' = before
    PROVE  AtomicStep
  BY DEF AtomicStep

(* A call that goes on has nothing to show yet.                            *)
LEMMA GoesOn ==
    ASSUME ParamAssumption, IInv, call.step # "idle",
           NEW s \in Step \ {"idle"}, NEW k, Goto(s, k)
    PROVE  call' # Idle /\ AtomicStep
  BY GotoIs DEF IInv, Idle, AtomicStep

(* module_load and module_unload begin.                                    *)
LEMMA EnterAtomic ==
    ASSUME ParamAssumption, IInv, NEW m \in Module,
           ModuleLoad(m) \/ ModuleUnload(m)
    PROVE  CallInv' /\ AtomicStep
  <1>1. /\ call = Idle /\ loaded' = loaded /\ before' = View /\ Quiet
        /\ call'.mod = m /\ call'.at = 1 /\ call'.n = Len(Patches[m])
        /\ IF m \in loaded THEN call'.step = "disable" ELSE call'.step = "register"
    BY DEF ModuleLoad, ModuleUnload, Enter
  <1>2. AtomicStep
    BY <1>1 DEF AtomicStep
  <1>3. Some(m, 1, 0) = {} /\ 1 - 1 = 0
    BY SomeNone
  <1>4. Listed' = Listed /\ state' = state /\ text' = text /\ table' = table
    BY <1>1 DEF Quiet, marks, Listed
  <1>5. before' = [listed |-> Listed, text |-> text]
    BY <1>1 DEF View
  <1>6. ASSUME m \in loaded PROVE Unloading'
    <2>1. Some(call'.mod, 1, call'.at - 1) = {}
      BY <1>1, <1>3
    <2> QED BY <1>1, <1>4, <1>5, <1>6, <2>1 DEF Unloading, At
  <1>7. ASSUME m \notin loaded PROVE Loading'
    <2>1. Some(call'.mod, 1, call'.at - 1) = {}
      BY <1>1, <1>3
    <2>2. Apart(m, 0)
      BY DEF Apart
    <2>3. Holding(before, {}, {})'
      BY <1>4, <1>5 DEF Holding
    <2>4. call'.step = "register" /\ call'.at - 1 = 0
      BY <1>1, <1>7
    <2> QED BY <1>1, <1>7, <2>1, <2>2, <2>3, <2>4 DEF Loading, At
  <1> QED BY <1>1, <1>2, <1>6, <1>7 DEF CallInv

(* What is known while a load goes on.                                     *)
LEMMA LoadingFacts ==
    ASSUME ParamAssumption, IInv, CallInv, call.step \in {"register", "enable", "drop"}
    PROVE  call.mod \notin loaded /\ Loading /\ call.step # "idle"
  BY CallFacts DEF CallInv, Unloading

(* module_load registers a patch, kp_patch.c:328.                          *)
LEMMA RegisterAtomic ==
    ASSUME ParamAssumption, IInv, CallInv, LoadRegister
    PROVE  CallInv' /\ AtomicStep
  <1>1. /\ call.step = "register" /\ CanRegister(Cur) /\ DoRegister(Cur)
        /\ Goto("enable", call.at) /\ loaded' = loaded /\ before' = before
    BY DEF LoadRegister, At
  <1>2. PICK b, m, k, p : b = before /\ m = call.mod /\ k = call.at /\ p = Cur
    OBVIOUS
  <1>3. /\ p \in Patch /\ p = Patches[m][k] /\ k \in Nat \ {0}
        /\ m \notin loaded /\ Loading
    BY <1>1, <1>2, CallFacts, LoadingFacts
  <1>4. /\ call.n = Len(Patches[m]) /\ Apart(m, k - 1)
        /\ Holding(b, Some(m, 1, k - 1), Some(m, 1, k - 1))
    BY <1>1, <1>2, <1>3 DEF Loading, At
  <1>5. Holding(b, Some(m, 1, k - 1) \cup {p}, Some(m, 1, k - 1))' /\ p \notin Some(m, 1, k - 1)
    BY <1>1, <1>2, <1>3, <1>4, HoldsRegister DEF IInv
  <1>6. Some(m, 1, k) = Some(m, 1, k - 1) \cup {p}
    BY <1>3, SomeMore
  <1>7. Apart(m, k)
    BY <1>3, <1>4, <1>5 DEF Apart, Some
  <1>8. /\ call'.step = "enable" /\ call'.at = k /\ call'.n = call.n /\ call'.mod = m
    BY <1>1, <1>2, GotoIs DEF IInv
  <1>9. Loading'
    BY <1>1, <1>2, <1>4, <1>5, <1>6, <1>7, <1>8 DEF Loading, At
  <1>10. call' # Idle /\ AtomicStep
    BY <1>1, GoesOn DEF Step
  <1> QED BY <1>1, <1>3, <1>8, <1>9, <1>10 DEF CallInv

(* A patch is refused: the earlier ones are rolled back.                   *)
LEMMA RegisterFailsAtomic ==
    ASSUME ParamAssumption, IInv, CallInv, Core', RegisterFails
    PROVE  CallInv' /\ AtomicStep
  <1>1. /\ call.step = "register" /\ Undo(call.at - 1) /\ loaded' = loaded
        /\ UNCHANGED <<table, state, text>>
    BY DEF RegisterFails, At, Quiet, marks
  <1>2. PICK b, S : b = before /\ S = Some(call.mod, 1, call.at - 1)
    OBVIOUS
  <1>3. call.mod \notin loaded /\ Loading
    BY <1>1, LoadingFacts
  <1>4. Apart(call.mod, call.at - 1) /\ Holding(b, S, S)
    BY <1>1, <1>2, <1>3 DEF Loading, At
  <1>5. Holding(b, S, S)'
    BY <1>1, <1>4, HoldsQuiet
  <1>6. CallInv' /\ (call' = Idle => View' = b)
    BY <1>1, <1>2, <1>3, <1>4, <1>5, UndoHolds
  <1> QED BY <1>1, <1>2, <1>3, <1>6, AtomicFailure DEF AtomicStep

(* A patch is enabled: the load returns after the last one.                *)
LEMMA EnableAtomic ==
    ASSUME ParamAssumption, IInv, CallInv, LoadEnable
    PROVE  CallInv' /\ AtomicStep
  <1>1. call.step = "enable" /\ DoEnable(Cur)
    BY DEF LoadEnable, At
  <1>2. PICK b, m, k, p : b = before /\ m = call.mod /\ k = call.at /\ p = Cur
    OBVIOUS
  <1>3. /\ p \in Patch /\ p = Patches[m][k] /\ k \in Nat \ {0} /\ m \in Module
        /\ m \notin loaded /\ Loading
    BY <1>1, <1>2, CallFacts, LoadingFacts
  <1>4. /\ call.n = Len(Patches[m]) /\ Apart(m, k)
        /\ Holding(b, Some(m, 1, k), Some(m, 1, k - 1))
    BY <1>1, <1>2, <1>3 DEF Loading, At
  <1>5. Some(m, 1, k) = Some(m, 1, k - 1) \cup {p} /\ p \notin Some(m, 1, k - 1)
    <2>1. \A x \in 1..(k - 1) : x \in 1..k /\ x # k
      BY <1>3
    <2>2. k \in 1..k
      BY <1>3
    <2> QED BY <1>3, <1>4, <2>1, <2>2, SomeMore DEF Apart, Some
  <1>6. Holding(b, Some(m, 1, k), Some(m, 1, k - 1) \cup {p})'
    <2>1. PICK S, T : S = Some(m, 1, k) /\ T = Some(m, 1, k - 1)
      OBVIOUS
    <2>2. Core /\ Holding(b, S, T) /\ p \in S /\ p \notin T /\ DoEnable(p)
      BY <1>1, <1>2, <1>4, <1>5, <2>1 DEF IInv
    <2>3. Holding(b, S, T \cup {p})'
      BY <1>3, <2>2, HoldsEnable
    <2> QED BY <2>1, <2>3
  <1>7. Holding(b, Some(m, 1, k), Some(m, 1, k))'
    BY <1>5, <1>6
  <1>8. CASE call.at = call.n
    <2>1. call' = Idle /\ loaded' = loaded \cup {m}
      BY <1>2, <1>8 DEF LoadEnable, Return
    <2>2. k = Len(Patches[m])
      BY <1>2, <1>4, <1>8
    <2>3. /\ Listed' = before.listed \cup Some(m, 1, Len(Patches[m]))
          /\ \A q \in Some(m, 1, Len(Patches[m])) : state'[q] = "ENABLED"
      BY <1>2, <1>7, <2>2 DEF Holding
    <2>4. m \in loaded'
      BY <2>1
    <2>5. AtomicStep
      BY <1>2, <1>3, <2>3, <2>4, AtomicLoad
    <2> QED BY <2>1, <2>5 DEF CallInv
  <1>9. CASE call.at # call.n
    <2>1. Goto("register", k + 1) /\ loaded' = loaded /\ before' = before
      BY <1>2, <1>9 DEF LoadEnable
    <2>2. /\ call'.step = "register" /\ call'.at = k + 1 /\ call'.n = call.n
          /\ call'.mod = m
      BY <1>1, <1>2, <2>1, GotoIs DEF IInv
    <2>3. (k + 1) - 1 = k
      BY <1>3
    <2>4. Loading'
      BY <1>2, <1>4, <1>7, <2>1, <2>2, <2>3 DEF Loading, At
    <2>5. call' # Idle /\ AtomicStep
      BY <1>1, <2>1, GoesOn DEF Step
    <2> QED BY <1>3, <2>1, <2>2, <2>4, <2>5 DEF CallInv
  <1> QED BY <1>8, <1>9

(* The target refuses the trampoline: the patch stays on the table, in     *)
(* error.                                                                  *)
LEMMA EnableFailsAtomic ==
    ASSUME ParamAssumption, IInv, CallInv, EnableFails
    PROVE  CallInv' /\ AtomicStep
  <1>1. /\ call.step = "enable" /\ FailEnable(Cur) /\ Goto("drop", call.at)
        /\ loaded' = loaded /\ before' = before
    BY DEF EnableFails, At
  <1>2. PICK b, m, k, p : b = before /\ m = call.mod /\ k = call.at /\ p = Cur
    OBVIOUS
  <1>3. /\ p \in Patch /\ p = Patches[m][k] /\ k \in Nat \ {0}
        /\ m \notin loaded /\ Loading
    BY <1>1, <1>2, CallFacts, LoadingFacts
  <1>4. /\ call.n = Len(Patches[m]) /\ Apart(m, k)
        /\ Holding(b, Some(m, 1, k), Some(m, 1, k - 1))
    BY <1>1, <1>2, <1>3 DEF Loading, At
  <1>5. p \notin Some(m, 1, k - 1)
    <2>1. \A x \in 1..(k - 1) : x \in 1..k /\ x # k
      BY <1>3
    <2>2. k \in 1..k
      BY <1>3
    <2> QED BY <1>3, <1>4, <2>1, <2>2 DEF Apart, Some
  <1>6. Holding(b, Some(m, 1, k), Some(m, 1, k - 1))'
    BY <1>1, <1>2, <1>3, <1>4, <1>5, HoldsFail DEF IInv
  <1>7. call'.step = "drop" /\ call'.at = k /\ call'.n = call.n /\ call'.mod = m
    BY <1>1, <1>2, GotoIs DEF IInv
  <1>8. Loading'
    BY <1>1, <1>2, <1>4, <1>6, <1>7 DEF Loading, At
  <1>9. call' # Idle /\ AtomicStep
    BY <1>1, GoesOn DEF Step
  <1> QED BY <1>1, <1>3, <1>7, <1>8, <1>9 DEF CallInv

(* The patch whose enable failed is taken off, the earlier ones are rolled *)
(* back.                                                                   *)
LEMMA DropAtomic ==
    ASSUME ParamAssumption, IInv, CallInv, Core', LoadDrop
    PROVE  CallInv' /\ AtomicStep
  <1>1. call.step = "drop" /\ DoUnregister(Cur) /\ Undo(call.at - 1) /\ loaded' = loaded
    BY DEF LoadDrop, At
  <1>2. PICK b, m, k, p : b = before /\ m = call.mod /\ k = call.at /\ p = Cur
    OBVIOUS
  <1>3. /\ p \in Patch /\ p = Patches[m][k] /\ k \in Nat \ {0}
        /\ m \notin loaded /\ Loading
    BY <1>1, <1>2, CallFacts, LoadingFacts
  <1>4. /\ call.n = Len(Patches[m]) /\ Apart(m, k)
        /\ Holding(b, Some(m, 1, k), Some(m, 1, k - 1))
    BY <1>1, <1>2, <1>3 DEF Loading, At
  <1>5. Some(m, 1, k) = Some(m, 1, k - 1) \cup {p} /\ p \notin Some(m, 1, k - 1)
    <2>1. \A x \in 1..(k - 1) : x \in 1..k /\ x # k
      BY <1>3
    <2>2. k \in 1..k
      BY <1>3
    <2> QED BY <1>3, <1>4, <2>1, <2>2, SomeMore DEF Apart, Some
  <1>6. Holding(b, Some(m, 1, k) \ {p}, Some(m, 1, k - 1))'
    BY <1>1, <1>2, <1>3, <1>4, <1>5, HoldsUnregister DEF IInv
  <1>7. Some(m, 1, k) \ {p} = Some(m, 1, k - 1)
    BY <1>5
  <1>8. PICK S : S = Some(m, 1, k - 1)
    OBVIOUS
  <1>9. Holding(b, S, S)'
    BY <1>6, <1>7, <1>8
  <1>10. Apart(m, k - 1)
    <2>1. \A x \in 1..(k - 1) : x \in 1..k
      BY <1>3
    <2> QED BY <1>4, <2>1 DEF Apart
  <1>11. CallInv' /\ (call' = Idle => View' = b)
    BY <1>1, <1>2, <1>3, <1>8, <1>9, <1>10, UndoHolds
  <1> QED BY <1>1, <1>2, <1>3, <1>11, AtomicFailure DEF AtomicStep

(* What is known while the undo loop goes on.                              *)
LEMMA UndoFacts ==
    ASSUME ParamAssumption, IInv, CallInv, call.step \in {"disable", "unregister"}
    PROVE  /\ call.mod \in loaded => Unloading
           /\ call.mod \notin loaded => RollingBack
           /\ call.step # "idle"
  BY CallFacts DEF CallInv

(* The undo loop, of a rollback and of module_unload, disables a patch.    *)
LEMMA UndoDisableAtomic ==
    ASSUME ParamAssumption, IInv, CallInv, UndoDisable
    PROVE  CallInv' /\ AtomicStep
  <1>1. /\ call.step = "disable" /\ Goto("unregister", call.at)
        /\ loaded' = loaded /\ before' = before
    BY DEF UndoDisable, At
  <1>2. PICK b, m, k, n, p : b = before /\ m = call.mod /\ k = call.at /\ n = call.n /\ p = Cur
    OBVIOUS
  <1>3. /\ p \in Patch /\ p = Patches[m][k] /\ k \in 1..n /\ n \in Nat
        /\ m \in loaded => Unloading
        /\ m \notin loaded => RollingBack
    BY <1>1, <1>2, CallFacts, UndoFacts
  <1>4. call'.step = "unregister" /\ call'.at = k /\ call'.n = n /\ call'.mod = m
    BY <1>1, <1>2, GotoIs DEF IInv
  <1>5. Cur' = p
    BY <1>3, <1>4 DEF Cur
  <1>6. \/ CanDisable(p) /\ DoDisable({p}) /\ UNCHANGED table
        \/ ~CanDisable(p) /\ UNCHANGED <<table, state, text>>
    BY <1>2 DEF UndoDisable, Quiet, marks
  <1>7. state'[p] # "ENABLED"
    <2>1. CASE CanDisable(p) /\ DoDisable({p})
      BY <1>3, <2>1 DEF DoDisable
    <2>2. CASE ~CanDisable(p) /\ UNCHANGED <<table, state, text>>
      BY <1>3, <2>2, ListedEnabled DEF CanDisable, IInv
    <2> QED BY <1>6, <2>1, <2>2
  <1>8. ASSUME m \in loaded PROVE Unloading'
    <2>1. /\ n = Len(Patches[m]) /\ Listed = b.listed \ Some(m, 1, k - 1)
      BY <1>2, <1>3, <1>8 DEF Unloading
    <2>2. Listed' = Listed
      BY <1>6 DEF Listed
    <2> QED BY <1>1, <1>2, <1>4, <1>5, <1>7, <2>1, <2>2 DEF Unloading, At
  <1>9. ASSUME m \notin loaded PROVE RollingBack'
    <2>1. Apart(m, n) /\ Holding(b, Some(m, k, n), Some(m, k, n))
      BY <1>1, <1>2, <1>3, <1>9 DEF RollingBack, At
    <2>2. p \in Some(m, k, n) /\ Some(m, k + 1, n) = Some(m, k, n) \ {p}
      BY <1>3, <2>1, SomeLess
    <2>3. CanDisable(p)
      BY <1>3, <2>1, <2>2, ListedEnabled DEF Holding, CanDisable, IInv
    <2>4. Holding(b, Some(m, k, n), Some(m, k, n) \ {p})'
      BY <1>3, <1>6, <2>1, <2>2, <2>3, HoldsDisable DEF IInv
    <2>5. Holding(b, Some(m, k, n), Some(m, k + 1, n))'
      BY <2>2, <2>4
    <2> QED BY <1>1, <1>2, <1>4, <1>5, <1>7, <2>1, <2>5 DEF RollingBack, At
  <1>10. call' # Idle /\ AtomicStep
    BY <1>1, GoesOn DEF Step
  <1> QED BY <1>1, <1>2, <1>4, <1>8, <1>9, <1>10 DEF CallInv

(* And unregisters it: the call returns after the last one.                *)
LEMMA UndoUnregisterAtomic ==
    ASSUME ParamAssumption, IInv, CallInv, Core', UndoUnregister
    PROVE  CallInv' /\ AtomicStep
  <1>1. call.step = "unregister"
    BY DEF UndoUnregister, At
  <1>2. PICK b, m, k, n, p : b = before /\ m = call.mod /\ k = call.at /\ n = call.n /\ p = Cur
    OBVIOUS
  <1>3. /\ p \in Patch /\ p = Patches[m][k] /\ k \in 1..n /\ n \in Nat /\ m \in Module
        /\ m \in loaded => Unloading
        /\ m \notin loaded => RollingBack
        /\ b \in [listed : SUBSET Patch, text : [Fn -> Code]]
        /\ call # Idle
    BY <1>1, <1>2, CallFacts, UndoFacts
  <1>4. \/ CanUnregister(p) /\ DoUnregister(p)
        \/ ~CanUnregister(p) /\ UNCHANGED <<table, state, text>>
    BY <1>2 DEF UndoUnregister, Quiet, marks
  <1>5. ASSUME m \in loaded
        PROVE  n = Len(Patches[m]) /\ Listed' = b.listed \ Some(m, 1, k)
    <2>1. /\ n = Len(Patches[m]) /\ Listed = b.listed \ Some(m, 1, k - 1)
          /\ state[p] # "ENABLED"
      BY <1>1, <1>2, <1>3, <1>5 DEF Unloading, At
    <2>2. Listed' = Listed \ {p}
      <3>1. CASE CanUnregister(p) /\ DoUnregister(p)
        BY <1>3, <3>1, ListedUnregister DEF IInv
      <3>2. CASE ~CanUnregister(p) /\ UNCHANGED <<table, state, text>>
        BY <2>1, <3>2 DEF CanUnregister, Listed
      <3> QED BY <1>4, <3>1, <3>2
    <2>3. Some(m, 1, k) = Some(m, 1, k - 1) \cup {p}
      BY <1>3, SomeMore
    <2> QED BY <2>1, <2>2, <2>3
  <1>6. ASSUME m \notin loaded
        PROVE  Apart(m, n) /\ Holding(b, Some(m, k + 1, n), Some(m, k + 1, n))'
    <2>1. Apart(m, n) /\ Holding(b, Some(m, k, n), Some(m, k + 1, n))
      BY <1>1, <1>2, <1>3, <1>6 DEF RollingBack, At
    <2>2. /\ p \in Some(m, k, n) /\ p \notin Some(m, k + 1, n)
          /\ Some(m, k + 1, n) = Some(m, k, n) \ {p}
      BY <1>3, <2>1, SomeLess
    <2>3. state[p] # "ENABLED"
      BY <1>1, <1>2, <1>3, <1>6 DEF RollingBack, At
    <2>4. DoUnregister(p)
      BY <1>4, <2>1, <2>2, <2>3 DEF Holding, CanUnregister
    <2>5. Holding(b, Some(m, k, n) \ {p}, Some(m, k + 1, n))'
      BY <1>3, <2>1, <2>2, <2>4, HoldsUnregister DEF IInv
    <2> QED BY <2>1, <2>2, <2>5
  <1>7. CASE call.at = call.n
    <2>1. call' = Idle /\ loaded' = loaded \ {m}
      BY <1>2, <1>7 DEF UndoUnregister, Return
    <2>2. CallInv'
      BY <2>1 DEF CallInv
    <2>3. ASSUME m \in loaded PROVE AtomicStep
      <3>1. Listed' = before.listed \ Some(m, 1, Len(Patches[m]))
        BY <1>2, <1>5, <1>7, <2>3
      <3>2. m \notin loaded'
        BY <2>1
      <3> QED BY <1>2, <1>3, <2>3, <3>1, <3>2, AtomicUnload
    <2>4. ASSUME m \notin loaded PROVE AtomicStep
      <3>1. Some(m, k + 1, n) = {}
        BY <1>2, <1>3, <1>7, SomeNone
      <3>2. Holding(b, {}, {})'
        BY <1>6, <2>4, <3>1
      <3>3. View' = b
        BY <1>3, <3>2, HoldsNothing
      <3> QED BY <1>2, <2>1, <2>4, <3>3, AtomicFailure
    <2> QED BY <2>2, <2>3, <2>4
  <1>8. CASE call.at # call.n
    <2>1. Goto("disable", k + 1) /\ loaded' = loaded /\ before' = before
      BY <1>2, <1>8 DEF UndoUnregister
    <2>2. call'.step = "disable" /\ call'.at = k + 1 /\ call'.n = n /\ call'.mod = m
      BY <1>1, <1>2, <2>1, GotoIs DEF IInv
    <2>3. call' # Idle /\ AtomicStep
      BY <1>1, <2>1, GoesOn DEF Step
    <2>4. ASSUME m \in loaded PROVE Unloading'
      <3>1. (k + 1) - 1 = k
        BY <1>3
      <3> QED BY <1>2, <1>5, <2>1, <2>2, <2>4, <3>1 DEF Unloading, At
    <2>5. ASSUME m \notin loaded PROVE RollingBack'
      BY <1>2, <1>6, <2>1, <2>2, <2>5 DEF RollingBack, At
    <2> QED BY <1>2, <2>1, <2>2, <2>3, <2>4, <2>5 DEF CallInv
  <1> QED BY <1>7, <1>8

(* Every step of the engine keeps CallInv and what a return promises.      *)
LEMMA NextAtomic ==
    ASSUME ParamAssumption, IInv, CallInv, Core', [Next]_vars
    PROVE  CallInv' /\ AtomicStep
  <1>1. ASSUME Direct
        PROVE  CallInv' /\ AtomicStep
    BY <1>1 DEF Direct, module, CallInv, AtomicStep
  <1>2. ASSUME NEW m \in Module, ModuleLoad(m) \/ ModuleUnload(m)
        PROVE  CallInv' /\ AtomicStep
    BY <1>2, EnterAtomic
  <1>3. CASE LoadRegister
    BY <1>3, RegisterAtomic
  <1>4. CASE RegisterFails
    BY <1>4, RegisterFailsAtomic
  <1>5. CASE LoadEnable
    BY <1>5, EnableAtomic
  <1>6. CASE EnableFails
    BY <1>6, EnableFailsAtomic
  <1>7. CASE LoadDrop
    BY <1>7, DropAtomic
  <1>8. CASE UndoDisable
    BY <1>8, UndoDisableAtomic
  <1>9. CASE UndoUnregister
    BY <1>9, UndoUnregisterAtomic
  <1>10. CASE UNCHANGED vars
    <2>1. UNCHANGED <<table, state, text, loaded, call, before>>
      BY <1>10 DEF vars
    <2>2. AtomicStep
      BY <2>1 DEF AtomicStep
    <2>3. Listed' = Listed /\ Cur' = Cur
      BY <2>1 DEF Listed, Cur
    <2>4. CallInv'
      BY <2>1, <2>3 DEF CallInv, Unloading, RollingBack, Loading, Holding, At
    <2> QED BY <2>2, <2>4
  <1>11. ASSUME \/ EngineInit \/ EngineDeinit
                \/ \E p \in Patch : Register(p) \/ Unregister(p) \/ Enable(p) \/ Disable(p)
         PROVE  Direct
    BY <1>11 DEF EngineInit, EngineDeinit, Register, Unregister, Enable, Disable
  <1> QED BY <1>1, <1>2, <1>3, <1>4, <1>5, <1>6, <1>7, <1>8, <1>9, <1>10, <1>11 DEF Next

(* kp_patch.c:313-410: whatever the modules, and wherever in a load a      *)
(* registration or an enable fails, the call that returns has done all it  *)
(* was asked or has left the table and the text as it found them.          *)
THEOREM ModuleCallsAtomic == ASSUME MaxInits = 1 PROVE Spec => ModuleCallAtomic
  <1>1. Init => IInv /\ CallInv
    BY InitIInv, ParamAssumption DEF Init, CallInv
  <1>2. IInv /\ CallInv /\ [Next]_vars => IInv' /\ CallInv' /\ AtomicStep
    BY NextCore, NextCall, NextAtomic, ParamAssumption DEF IInv
  <1>3. /\ IInv /\ CallInv /\ [Next]_vars
        => [call # Idle /\ call' = Idle =>
                LET own == {Patches[call.mod][i] : i \in DOMAIN Patches[call.mod]}
                IN  CASE call.mod \in loaded  -> Listed' = before.listed \ own
                      [] call.mod \in loaded' -> /\ Listed' = before.listed \cup own
                                                 /\ \A p \in own : state'[p] = "ENABLED"
                      [] OTHER                -> View' = before]_vars
    BY <1>2 DEF AtomicStep
  <1> QED BY <1>1, <1>2, <1>3, PTL DEF Spec, ModuleCallAtomic
=============================================================================
