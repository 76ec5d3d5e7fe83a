---------------------------- MODULE SymbolLoading ----------------------------
(***************************************************************************)
(* Symbols in the processor: SourceLineResolverBase, which keeps a module    *)
(* object per code module, and SimpleSymbolSupplier, which reads symbol      *)
(* files into buffers.  The modules of the fast resolver point into the      *)
(* buffer they were loaded from; those of the basic one do not.              *)
(***************************************************************************)
EXTENDS Integers, FiniteSets, FiniteSetsExt

CONSTANTS
    Modules,  \* code modules, by code_file()
    MaxLoads  \* bound: what the program loads and unloads itself

VARIABLES
    fast,     \* is the resolver a FastSourceLineResolver?
    symbols,  \* per module: its symbol file, "good", "corrupt" or "missing"
    loaded,   \* resolver's modules_: module -> the buffer it was loaded from
    kept,     \* resolver's memory_buffers_: module -> buffer
    given,    \* supplier's memory_buffers_: module -> buffer
    heap,     \* buffers there are: buffer -> the module whose symbols it holds
    misfreed, \* history: buffers deleted when they were not there
    loads

loading == <<fast, symbols, loaded, kept, given, heap, misfreed, loads>>

LoadingInit ==
    /\ fast = FALSE /\ symbols = [m \in Modules |-> "missing"]
    /\ loaded = <<>> /\ kept = <<>> /\ given = <<>> /\ heap = <<>> /\ misfreed = {}
    /\ loads = 0

\* What the dump is processed with.  LoadMapFromMemory of the fast resolver's modules
\* refuses nothing, so that a corrupt file is for the other one only.
Provide ==
    /\ fast' \in BOOLEAN
    /\ symbols' \in [Modules -> {"good", "missing"} \cup (IF fast' THEN {} ELSE {"corrupt"})]
    /\ UNCHANGED <<loaded, kept, given, heap, misfreed, loads>>

Without(f, x) == [y \in DOMAIN f \ {x} |-> f[y]]

\* std::map::insert, which leaves a key that is there alone.
Inserted(f, x, v) == [y \in DOMAIN f \cup {x} |-> IF y \in DOMAIN f THEN f[y] ELSE v]

\* new char[]: the allocator reuses addresses.
Fresh == Min({b \in 1 .. Cardinality(DOMAIN heap) + 1 : b \notin DOMAIN heap})

ShouldDeleteMemoryBufferAfterLoadModule == ~fast

HasModule(m) == m \in DOMAIN loaded

\* LoadModuleUsingMemoryBuffer: does it succeed, and what does modules_ become?
Loads(m) == ~HasModule(m) /\ symbols[m] = "good"
LoadedFrom(m, b) == IF Loads(m) THEN Inserted(loaded, m, b) ELSE loaded

\* GetCStringSymbolData finds the file, and the resolver loads it; a buffer the
\* supplier has for the module already stays the one it knows of.
Fetch(m) ==
    /\ given' = Inserted(given, m, Fresh)
    /\ loaded' = LoadedFrom(m, Fresh)

\* BUG (mutant): the resolver is not asked whether it needs the buffer.
FetchForWalkAndFree(m) ==
    LET held == Inserted(given, m, Fresh) IN
    /\ loaded' = LoadedFrom(m, Fresh)
    /\ given' = Without(held, m)
    /\ heap' = Without(Inserted(heap, Fresh, m), held[m])
    /\ misfreed' = misfreed \cup ({held[m]} \ (DOMAIN heap \cup {Fresh}))
    /\ UNCHANGED <<fast, symbols, kept, loads>>

\* In Walk, which then has FreeSymbolData delete a buffer that is not needed.
FetchForWalk(m) ==
    LET held == Inserted(given, m, Fresh)
        free == ShouldDeleteMemoryBufferAfterLoadModule
    IN  /\ loaded' = LoadedFrom(m, Fresh)
        /\ given' = IF free THEN Without(held, m) ELSE held
        /\ heap' = LET h == Inserted(heap, Fresh, m) IN IF free THEN Without(h, held[m]) ELSE h
        /\ misfreed' = IF free THEN misfreed \cup ({held[m]} \ (DOMAIN heap \cup {Fresh}))
                       ELSE misfreed
        /\ UNCHANGED <<fast, symbols, kept, loads>>

\* In Walk, when there is no file: FreeSymbolData is called all the same.
NothingForWalk(m) ==
    LET free == ShouldDeleteMemoryBufferAfterLoadModule /\ m \in DOMAIN given IN
    /\ given' = IF free THEN Without(given, m) ELSE given
    /\ heap' = IF free THEN Without(heap, given[m]) ELSE heap
    /\ misfreed' = IF free THEN misfreed \cup ({given[m]} \ DOMAIN heap) ELSE misfreed
    /\ UNCHANGED <<fast, symbols, loaded, kept, loads>>

\* In InstructionAddressSeemsValid, which frees nothing.
FetchForScan(m) ==
    /\ Fetch(m) /\ heap' = Inserted(heap, Fresh, m)
    /\ UNCHANGED <<fast, symbols, kept, misfreed, loads>>

\* LoadModule and LoadModuleUsingMapBuffer, called by the program.
LoadModule(m) ==
    /\ loads < MaxLoads /\ loads' = loads + 1
    /\ ~HasModule(m) /\ symbols[m] # "missing"
    /\ loaded' = LoadedFrom(m, Fresh)
    /\ IF Loads(m) /\ ~ShouldDeleteMemoryBufferAfterLoadModule
       THEN heap' = Inserted(heap, Fresh, m) /\ kept' = Inserted(kept, m, Fresh)
       ELSE UNCHANGED <<heap, kept>>
    /\ UNCHANGED <<fast, symbols, given, misfreed>>

\* BUG (mutant): the buffer goes, its entry stays.
UnloadModuleForgetsErase(m) ==
    /\ loads < MaxLoads /\ loads' = loads + 1
    /\ loaded' = Without(loaded, m)
    /\ IF m \in DOMAIN kept
       THEN /\ heap' = Without(heap, kept[m])
            /\ misfreed' = misfreed \cup ({kept[m]} \ DOMAIN heap)
       ELSE UNCHANGED <<heap, misfreed>>
    /\ UNCHANGED <<fast, symbols, kept, given>>

UnloadModule(m) ==
    /\ loads < MaxLoads /\ loads' = loads + 1
    /\ loaded' = Without(loaded, m)
    /\ IF m \in DOMAIN kept /\ ~ShouldDeleteMemoryBufferAfterLoadModule
       THEN /\ kept' = Without(kept, m) /\ heap' = Without(heap, kept[m])
            /\ misfreed' = misfreed \cup ({kept[m]} \ DOMAIN heap)
       ELSE UNCHANGED <<kept, heap, misfreed>>
    /\ UNCHANGED <<fast, symbols, given>>

\* The resolver is deleted, with its modules and buffers, and another one made.
DeleteResolver ==
    /\ loads < MaxLoads /\ loads' = loads + 1
    /\ loaded' = <<>> /\ kept' = <<>>
    /\ heap' = [b \in DOMAIN heap \ {kept[m] : m \in DOMAIN kept} |-> heap[b]]
    /\ misfreed' = misfreed \cup ({kept[m] : m \in DOMAIN kept} \ DOMAIN heap)
    /\ UNCHANGED <<fast, symbols, given>>

ProgramLoads == DeleteResolver \/ \E m \in Modules : LoadModule(m) \/ UnloadModule(m)

\* A module of the fast resolver has the buffer it points into, whoever keeps that;
\* no buffer is deleted twice, and no two maps hold the same one.
BuffersOutliveModules ==
    /\ fast => \A m \in DOMAIN loaded :
                   loaded[m] \in DOMAIN heap /\ heap[loaded[m]] = m
    /\ misfreed = {}
    /\ \A m \in DOMAIN kept, n \in DOMAIN given : kept[m] # given[n]
=============================================================================
