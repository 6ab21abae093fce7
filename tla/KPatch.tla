------------------------------- MODULE KPatch -------------------------------
(***************************************************************************)
(* The live patch engine, 33_PCS/06_kpatch: the patch table, the text of   *)
(* the functions that are patched and the trampoline pool, under direct    *)
(* calls of the interface and loads and unloads of modules.                *)
(*                                                                         *)
(* A function's first bytes are its own or the jump a patch wrote there.   *)
(* A patch saves what it overwrites; its trampoline is those bytes and a   *)
(* jump to the rest of the function, and is how the replacement calls what *)
(* it replaced. Patches of two functions do not overlap in memory.         *)
(*                                                                         *)
(* Calls do not overlap (uiox_kix_kp_patch.h:22-24 asks it of callers); a  *)
(* module call is followed step by step in `call', and nothing else moves  *)
(* until it is idle again. The only failure of enable is the trampoline    *)
(* pool's: make_writable returns 0 on the four architectures, the buffers  *)
(* for the jump and for the trampoline always suffice, and so the FAULT    *)
(* arms (and a rollback that gets stuck) are dead code today.              *)
(***************************************************************************)
EXTENDS Integers, Sequences, FiniteSets

CONSTANTS Patch,        \* patch descriptors
          Fn,           \* functions of the kernel
          OrigFunc,     \* OrigFunc[p]: the function p replaces
          Size,         \* Size[p]: pool units (16 bytes) of its trampoline
          Module,       \* module descriptors
          Patches,      \* Patches[m]: the descriptors embedded in m
          Own,          \* a function's own first bytes
          Zeroed,       \* a freed trampoline
          NoModule,     \* no module call in progress
          MaxPatches,   \* UIOX_KIX_KP_MAX_PATCHES
          MaxAllocs,    \* KP_ALLOC_MAX
          PoolUnits,    \* UIOX_KIX_KP_TRAMP_POOL_SIZE in units
          MaxInits      \* bound: calls of engine_init

ASSUME ParamAssumption ==
    /\ OrigFunc \in [Patch -> Fn]
    /\ Size \in [Patch -> Nat \ {0}]
    /\ Patches \in [Module -> Seq(Patch) \ {<<>>}]
    /\ Own \notin Patch
    /\ NoModule \notin Module
    /\ MaxPatches \in Nat /\ MaxAllocs \in Nat /\ PoolUnits \in Nat /\ MaxInits \in Nat

VARIABLES inited,   \* s_init
          inits,    \* calls of engine_init so far
          table,    \* s_table[0 .. s_count - 1]
          state,    \* state[p]: patch->state
          saved,    \* saved[p]: patch->saved_bytes
          tramp,    \* tramp[p]: patch->trampoline, an index of allocs or 0
          text,     \* text[f]: the first bytes of f
          allocs,   \* s_allocs: what each block of the pool holds
          top,      \* s_pool_top in units
          loaded,   \* modules with mod->loaded
          call,     \* the module call in progress
          before    \* history: table and text when it was made, Nothing when idle

engine == <<inited, inits>>
pool   == <<allocs, top>>
marks  == <<state, saved, tramp>>
module == <<loaded, call, before>>
vars   == <<inited, inits, table, state, saved, tramp, text, allocs, top, loaded, call, before>>

(* What the first bytes of a function can be: its own, or p's jump.        *)
Code == {Own} \cup Patch

PatchState == {"UNREGISTERED", "REGISTERED", "ENABLED", "DISABLED", "ERROR"}

(* at counts the loop of the call from 1, n is its limit.                  *)
Idle == [step |-> "idle", mod |-> NoModule, at |-> 0, n |-> 0]

Listed == {table[i] : i \in DOMAIN table}

View == [listed |-> Listed, text |-> text]

Nothing == [listed |-> {}, text |-> [f \in Fn |-> Own]]

Init == /\ inited = FALSE
        /\ inits = 0
        /\ table = <<>>
        /\ state = [p \in Patch |-> "UNREGISTERED"]
        /\ saved = [p \in Patch |-> Own]
        /\ tramp = [p \in Patch |-> 0]
        /\ text = [f \in Fn |-> Own]
        /\ allocs = <<>>
        /\ top = 0
        /\ loaded = {}
        /\ call = Idle
        /\ before = Nothing

----------------------------------------------------------------------------
(* The engine's operations, as a direct call or a module call makes them.  *)

(* register, when it does not fail: a free entry and no other patch of the *)
(* function on the table.                                                  *)
CanRegisterTwice(p) == inited /\ Len(table) < MaxPatches   \* mutant
CanRegister(p) == /\ inited
                  /\ Len(table) < MaxPatches
                  /\ \A q \in Listed : OrigFunc[q] # OrigFunc[p]

DoRegister(p) == /\ table' = Append(table, p)
                 /\ state' = [state EXCEPT ![p] = "REGISTERED"]
                 /\ tramp' = [tramp EXCEPT ![p] = 0]
                 /\ UNCHANGED <<engine, saved, text, pool>>

(* The entries without the i-th, whose place the last one takes.           *)
DropLast(i) == [j \in 1..(Len(table) - 1) |-> table[j]]   \* mutant
SwapOut(i) == [j \in 1..(Len(table) - 1) |-> IF j = i THEN table[Len(table)] ELSE table[j]]

(* unregister refuses an enabled patch; it ignores one not on the table.   *)
CanUnregister(p) == state[p] # "ENABLED" /\ p \in Listed

DoUnregister(p) == /\ \E i \in DOMAIN table : table[i] = p /\ table' = SwapOut(i)
                   /\ state' = [state EXCEPT ![p] = "UNREGISTERED"]
                   /\ UNCHANGED <<engine, saved, tramp, text, pool>>

CanEnable(p) == inited /\ state[p] \in {"REGISTERED", "DISABLED"}

(* mem_alloc: blocks are never handed out again.                           *)
HasBytes(p) == top + Size[p] <= PoolUnits   \* mutant
HasRoom(p) == Len(allocs) < MaxAllocs /\ top + Size[p] <= PoolUnits

(* enable: save the bytes, build the trampoline of them, write the jump.   *)
DoEnable(p) == /\ CanEnable(p)
               /\ HasRoom(p)
               /\ saved' = [saved EXCEPT ![p] = text[OrigFunc[p]]]
               /\ tramp' = [tramp EXCEPT ![p] = Len(allocs) + 1]
               /\ allocs' = Append(allocs, [of |-> p, runs |-> text[OrigFunc[p]]])
               /\ top' = top + Size[p]
               /\ text' = [text EXCEPT ![OrigFunc[p]] = p]
               /\ state' = [state EXCEPT ![p] = "ENABLED"]
               /\ UNCHANGED <<engine, table>>

FailEnable(p) == /\ CanEnable(p)
                 /\ ~HasRoom(p)
                 /\ saved' = [saved EXCEPT ![p] = text[OrigFunc[p]]]
                 /\ state' = [state EXCEPT ![p] = "ERROR"]
                 /\ UNCHANGED <<engine, table, tramp, text, pool>>

CanDisable(p) == inited /\ state[p] = "ENABLED"

(* What disabling the patches of S, of distinct functions, leaves of the   *)
(* text and of the pool.                                                   *)
Restored(S) == [f \in Fn |-> IF \E p \in S : OrigFunc[p] = f
                             THEN saved[CHOOSE p \in S : OrigFunc[p] = f] ELSE text[f]]

FreedAtTop(S) == [i \in DOMAIN allocs |-> IF S # {} /\ i = Len(allocs) THEN Zeroed ELSE allocs[i]]   \* mutant
Freed(S) == [i \in DOMAIN allocs |-> IF \E p \in S : tramp[p] = i THEN Zeroed ELSE allocs[i]]

DoDisable(S) == /\ text' = Restored(S)
                /\ allocs' = Freed(S)
                /\ tramp' = [p \in Patch |-> IF p \in S THEN 0 ELSE tramp[p]]
                /\ state' = [p \in Patch |-> IF p \in S THEN "DISABLED" ELSE state[p]]
                /\ UNCHANGED <<saved, top>>

----------------------------------------------------------------------------
(* Direct calls, while no module call is in progress.                      *)
Direct == call = Idle /\ UNCHANGED module

(* engine_init: an empty table and a zeroed pool, whatever they held. It   *)
(* does not check that the engine is down; its callers call it so.         *)
EngineInit == /\ Direct
              /\ ~inited
              /\ inits < MaxInits
              /\ inited' = TRUE
              /\ inits' = inits + 1
              /\ table' = <<>>
              /\ allocs' = <<>>
              /\ top' = 0
              /\ UNCHANGED <<marks, text>>

(* engine_deinit disables what the table lists as enabled.                 *)
EngineDeinit == /\ Direct
                /\ inited
                /\ DoDisable({p \in Listed : state[p] = "ENABLED"})
                /\ inited' = FALSE
                /\ table' = <<>>
                /\ UNCHANGED inits

Register(p)   == Direct /\ CanRegister(p) /\ DoRegister(p)
Unregister(p) == Direct /\ CanUnregister(p) /\ DoUnregister(p)
Enable(p)     == Direct /\ (DoEnable(p) \/ FailEnable(p))
Disable(p)    == Direct /\ CanDisable(p) /\ DoDisable({p}) /\ UNCHANGED <<engine, table>>

----------------------------------------------------------------------------
(* module_load and module_unload.                                          *)
Cur == Patches[call.mod][call.at]

At(s) == call.step = s

Goto(s, k) == call' = [call EXCEPT !.step = s, !.at = k]

(* The call ends, for good or ill.                                         *)
Return == call' = Idle /\ before' = Nothing

(* The undo loop over the first k patches, over at once when k = 0.        *)
Undo(k) == IF k = 0 THEN Return
           ELSE /\ call' = [call EXCEPT !.step = "disable", !.at = 1, !.n = k]
                /\ UNCHANGED before

Quiet == UNCHANGED <<engine, table, marks, text, pool>>

Enter(m, s) == /\ call = Idle
               /\ call' = [step |-> s, mod |-> m, at |-> 1, n |-> Len(Patches[m])]
               /\ before' = View
               /\ UNCHANGED loaded
               /\ Quiet

ModuleLoad(m)   == m \notin loaded /\ Enter(m, "register")
ModuleUnload(m) == m \in loaded /\ Enter(m, "disable")

LoadRegister == /\ At("register")
                /\ CanRegister(Cur)
                /\ DoRegister(Cur)
                /\ Goto("enable", call.at)
                /\ UNCHANGED <<loaded, before>>

RegisterFails == /\ At("register")
                 /\ ~CanRegister(Cur)
                 /\ Undo(call.at - 1)
                 /\ Quiet
                 /\ UNCHANGED loaded

LoadEnable == /\ At("enable")
              /\ DoEnable(Cur)
              /\ IF call.at = call.n
                 THEN Return /\ loaded' = loaded \cup {call.mod}
                 ELSE Goto("register", call.at + 1) /\ UNCHANGED <<loaded, before>>

EnableFails == /\ At("enable")
               /\ FailEnable(Cur)
               /\ Goto("drop", call.at)
               /\ UNCHANGED <<loaded, before>>

(* The patch whose enable failed is unregistered before the rollback.      *)
LoadKeeps == At("drop") /\ Undo(call.at - 1) /\ Quiet /\ UNCHANGED loaded   \* mutant
LoadDrop == /\ At("drop")
            /\ DoUnregister(Cur)
            /\ Undo(call.at - 1)
            /\ UNCHANGED loaded

(* The loops of the rollback and of unload do the same to each patch:      *)
(* disable it if it is enabled, then unregister it. One that cannot be     *)
(* disabled is left alone, and unregister refuses it as well.              *)
UndoDisable == /\ At("disable")
               /\ IF CanDisable(Cur)
                  THEN DoDisable({Cur}) /\ UNCHANGED <<engine, table>>
                  ELSE Quiet
               /\ Goto("unregister", call.at)
               /\ UNCHANGED <<loaded, before>>

UndoUnregister == /\ At("unregister")
                  /\ IF CanUnregister(Cur) THEN DoUnregister(Cur) ELSE Quiet
                  /\ IF call.at = call.n
                     THEN Return /\ loaded' = loaded \ {call.mod}
                     ELSE Goto("disable", call.at + 1) /\ UNCHANGED <<loaded, before>>

----------------------------------------------------------------------------
Next == \/ EngineInit
        \/ EngineDeinit
        \/ \E p \in Patch : \/ Register(p)
                            \/ Unregister(p)
                            \/ Enable(p)
                            \/ Disable(p)
        \/ \E m \in Module : ModuleLoad(m) \/ ModuleUnload(m)
        \/ LoadRegister \/ RegisterFails
        \/ LoadEnable \/ EnableFails \/ LoadDrop
        \/ UndoDisable \/ UndoUnregister

Spec == Init /\ [][Next]_vars

----------------------------------------------------------------------------
Block == {Zeroed} \cup [of : Patch, runs : Code]

Step == {"idle", "register", "enable", "drop", "disable", "unregister"}

EngineTypeOK ==
    /\ inited \in BOOLEAN /\ inits \in 0..MaxInits
    /\ table \in Seq(Patch) /\ Len(table) <= MaxPatches
    /\ state \in [Patch -> PatchState]
    /\ saved \in [Patch -> Code]
    /\ tramp \in [Patch -> Nat]
    /\ text \in [Fn -> Code]
    /\ allocs \in Seq(Block) /\ Len(allocs) <= MaxAllocs
    /\ top \in 0..PoolUnits

CallTypeOK ==
    /\ loaded \subseteq Module
    /\ before \in [listed : SUBSET Patch, text : [Fn -> Code]]
    /\ call \in [step : Step, mod : Module \cup {NoModule}, at : Nat, n : Nat]
    /\ call = Idle \/ /\ call.step # "idle"
                      /\ call.mod \in Module
                      /\ call.at \in 1..call.n
                      /\ call.n \in 1..Len(Patches[call.mod])

(* Every variable has its type: the fields of the descriptors, the table   *)
(* and the pool within their caps, and the counters of a module call       *)
(* within its patches (kp_patch.c, kp_mem.c).                              *)
TypeOK == EngineTypeOK /\ CallTypeOK

(* A function begins with a patch's jump exactly while that patch is       *)
(* enabled, and with its own bytes when none is: two patches of a function *)
(* never save and restore each other's jumps, through any mix of direct    *)
(* calls, module loads, failed loads and unloads (kp_patch.c:137-140).     *)
TextFollowsState ==
    /\ \A f \in Fn, p \in Patch : text[f] = p <=> state[p] = "ENABLED" /\ OrigFunc[p] = f
    /\ \A p \in Patch : state[p] = "ENABLED" => saved[p] = Own

(* While a patch is enabled its trampoline is a block of the pool, its own *)
(* and not zeroed, that runs the original function's bytes: a replacement  *)
(* that calls on reaches the original, and never a patch, itself included  *)
(* (kp_patch.c:202-226, kp_mem.c:40-101).                                  *)
CallsReachOriginal ==
    \A p \in Patch : state[p] = "ENABLED" =>
        /\ tramp[p] \in DOMAIN allocs
        /\ allocs[tramp[p]] = [of |-> p, runs |-> Own]

(* The table lists a patch at most once and at most one patch of a         *)
(* function, and while the engine runs lists every patch that is not       *)
(* unregistered, so that find, status and deinit miss none; no patch is    *)
(* enabled once the engine is shut down.                                   *)
TableExact ==
    /\ \A i, j \in DOMAIN table : OrigFunc[table[i]] = OrigFunc[table[j]] => i = j
    /\ inited => Listed = {p \in Patch : state[p] # "UNREGISTERED"}
    /\ ~inited => \A p \in Patch : state[p] # "ENABLED"

(* A load that fails, whether on a full table, a function that has a patch *)
(* already or an exhausted pool, leaves the table's patches and the text   *)
(* as it found them; one that succeeds has enabled all of the module's     *)
(* patches and no other; an unload leaves none of them on the table        *)
(* (kp_patch.c:313-377, 379-410).                                          *)
ModuleCallAtomic ==
    [][call # Idle /\ call' = Idle =>
         LET own == {Patches[call.mod][i] : i \in DOMAIN Patches[call.mod]}
         IN  CASE call.mod \in loaded  -> Listed' = before.listed \ own
               [] call.mod \in loaded' -> /\ Listed' = before.listed \cup own
                                          /\ \A p \in own : state'[p] = "ENABLED"
               [] OTHER                -> View' = before]_vars

=============================================================================
