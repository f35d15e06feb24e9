---------------------------- MODULE FunctionHooks ----------------------------
(***************************************************************************)
(* How ApiTracing hooks the functions of a process and reads the           *)
(* parameters of a call (plugins/apitracing/src/lib: TracedProcess.cpp,    *)
(* FunctionHook.cpp, config/FunctionDefinitions.cpp, os/Extractor.cpp).    *)
(*                                                                         *)
(* The modules of the process are found in its memory regions, the types   *)
(* of the parameters in a file of definitions, the values in registers and *)
(* on the stack.  A value is a function from 0..7 to the bytes it is made  *)
(* of; a byte is named by the place that it was read from.                 *)
(***************************************************************************)
EXTENDS MemoryRegions, TracingConfig, Integers

CONSTANTS
    ProcessNames,  \* the names that the process may have
    ParametersOf,  \* ParametersOf[f]: the types of the parameters; no entry if f is not defined
    Traceable,     \* the files that isTraceableLibrary takes for libraries
    BackingSize,   \* BackingParameterTypes: the size of each basic type in bytes
    HighLevel,     \* HighLevel[w]: the high level types for an address width w, each with its type
    Structures,    \* the structures, each with the sequence of the types of its fields
    Handle,        \* the type "HANDLE"
    Texts          \* basic types that point to a string (LPSTR, LPWSTR)

Types == DOMAIN BackingSize \cup DOMAIN HighLevel[32] \cup DOMAIN HighLevel[64] \cup DOMAIN Structures
Widths == {32, 64}

\* No type of the definitions is wider than a register.
ASSUME DefinitionsAssumption ==
    /\ IsFiniteSet(Types)
    /\ \A f \in DOMAIN ParametersOf : ParametersOf[f] \in Seq(Elements(ParametersOf[f]))
    /\ \A t \in DOMAIN Structures : Structures[t] \in Seq(Elements(Structures[t]))
    /\ \A t \in DOMAIN BackingSize : BackingSize[t] \in 1..8

\* functionDefinitions.yaml: a handle is as wide as an address of 64 bits, and the name of a structure
\* or of a handle is not that of a basic type.
ASSUME HandleAssumption ==
    /\ DOMAIN Structures \cap DOMAIN BackingSize = {}
    /\ Handle \in DOMAIN HighLevel[64] \ (DOMAIN BackingSize \cup DOMAIN Structures)
    /\ HighLevel[64][Handle] \in DOMAIN BackingSize
    /\ BackingSize[HighLevel[64][Handle]] = 8

VARIABLES
    process,        \* the name of the process
    width,          \* its address width
    hooking,        \* "none", "injecting", "hooked", "crashed", "removed"
    position,       \* the entry of the profile to hook next
    loadedModules,  \* the node whose region gives the base address of a module; Nil if there is none
    hooks,          \* hookList: the entries of the profile that are hooked
    failed,         \* ghost: entries of loaded modules that could not be hooked
    trace           \* the call traced last: its entry and the value of each parameter

hookVars == <<process, width, hooking, position, loadedModules, hooks, failed, trace>>
vars     == <<regionVars, hookVars>>

NoTrace == [entry |-> 0, values |-> <<>>]

Init ==
    /\ RegionsInit
    /\ process \in ProcessNames
    /\ width \in Widths
    /\ hooking = "none"
    /\ position = 0
    /\ loadedModules = [f \in Traceable |-> Nil]
    /\ hooks = {}
    /\ failed = {}
    /\ trace = NoTrace

-----------------------------------------------------------------------------
(* The definitions of types *)

FirstNotOk(s) ==
    IF \A i \in 1..Len(s) : s[i] = "ok" THEN "ok"
    ELSE s[CHOOSE i \in 1..Len(s) : s[i] # "ok" /\ \A j \in 1..(i - 1) : s[j] = "ok"]

\* getBasicParameterType: the basic type of t, "throws" if there is none, "endless" if a type leads
\* back to itself.
BasicType(t, w) ==
    LET basic[k \in 0..Cardinality(Types)] ==
            LET go(v) == IF v \notin Types THEN "throws" ELSE IF k = 0 THEN "endless" ELSE basic[k - 1][v]
            IN  [u \in Types |->
                    IF u \in DOMAIN BackingSize THEN u
                    ELSE IF u \in DOMAIN Structures THEN go(Handle)
                    ELSE IF u \in DOMAIN HighLevel[w] THEN go(HighLevel[w][u])
                    ELSE "throws"]
    IN  IF t \in Types THEN basic[Cardinality(Types)][t] ELSE "throws"

\* getStructParameterInformation goes through the fields of the fields.
Definable(t, w) ==
    LET outcome[k \in 0..Cardinality(Types)] ==
            [u \in Types |->
                IF BasicType(u, w) \in {"throws", "endless"} THEN BasicType(u, w)
                ELSE IF u \notin DOMAIN Structures THEN "ok"
                ELSE IF k = 0 THEN "endless"
                ELSE FirstNotOk([i \in DOMAIN Structures[u] |->
                        IF Structures[u][i] \in Types THEN outcome[k - 1][Structures[u][i]] ELSE "throws"])]
    IN  IF t \in Types THEN outcome[Cardinality(Types)][t] ELSE "throws"

\* getFunctionParameterDefinitions
Definition(f, w) ==
    IF f \notin DOMAIN ParametersOf THEN "throws"
    ELSE FirstNotOk([i \in DOMAIN ParametersOf[f] |-> Definable(ParametersOf[f][i], w)])

\* getParameterSize
SizeOf(t, w) == BackingSize[BasicType(t, w)]

-----------------------------------------------------------------------------
(* The parameters of a call *)

Bytes == 0..7
Zero  == <<"zero", 0>>

RegisterValue(i)  == [k \in Bytes |-> <<"register", 8 * i + k>>]
read64VA(address) == [k \in Bytes |-> <<"stack", address + k>>]

Low(value, n) == [k \in Bytes |-> IF k < n THEN value[k] ELSE Zero]

\* A shift by w bits less 8 * size, to the left and back.  A shift by a negative number is undefined:
\* the processors that VMICore is built for take the number modulo 64.
zeroGarbageBytes(value, size, w) == Low(value, 8 - ((w - 8 * size) % 64) \div 8)

MaxRegisterParameters == 4

\* Mutant: the shadow space is left out.
OffsetWithoutShadow(w) == IF w = 64 THEN 8 ELSE 4

StackOffset(w) == IF w = 64 THEN 40 ELSE 4

IsStructure(t) == t \in DOMAIN Structures

\* The length of a pointer to a structure is given in bits.
StackParameter(t, i, w) ==
    zeroGarbageBytes(read64VA(StackOffset(w) + i * (w \div 8)),
                     IF IsStructure(t) THEN w ELSE SizeOf(t, w), w)

\* getShallowExtractedParams: the value of parameter i of a function with the types ts
ShallowValue(ts, i, w) ==
    IF w = 32 THEN StackParameter(ts[i], i - 1, w)
    ELSE IF i <= MaxRegisterParameters THEN RegisterValue(i)
    ELSE StackParameter(ts[i], i - 1 - MaxRegisterParameters, w)

\* getDeepExtractParameters.  A string stands for the value that it was found with; it, and every
\* parameter, is lost with a string that cannot be read.
Extracted(f, w) ==
    LET ts == ParametersOf[f] IN [i \in 1..Len(ts) |-> ShallowValue(ts, i, w)]

HasText(f, w) == \E i \in DOMAIN ParametersOf[f] : BasicType(ParametersOf[f][i], w) \in Texts

-----------------------------------------------------------------------------
(* TracedProcess *)

isTraceableLibrary(file) == file \in Traceable

\* The first region of a module gives its base address.
RegionOf(file) ==
    LET found == {i \in 1..Len(regions) : regions[i].file = file}
    IN  IF found = {} THEN Nil ELSE regions[CHOOSE i \in found : \A j \in found : i <= j].node

\* initLoadedModules, for a process that has a profile.  If no regions could be extracted the exception
\* leaves the constructor.
InitLoadedModules ==
    /\ walk = "done" /\ hooking = "none" /\ HasProfile(process)
    /\ loadedModules' = [file \in Traceable |-> RegionOf(file)]
    /\ hooking' = "injecting"
    /\ position' = 1
    /\ UNCHANGED <<regionVars, process, width, hooks, failed, trace>>

Profile == processTracingProfiles[process]
Entry   == Profile[position]
Loaded(e) == isTraceableLibrary(e.module) /\ loadedModules[e.module] # Nil

Injecting == hooking = "injecting" /\ position <= Len(Profile)

SkipModule ==
    /\ Injecting /\ ~Loaded(Entry)
    /\ position' = position + 1
    /\ UNCHANGED <<regionVars, process, width, hooking, loadedModules, hooks, failed, trace>>

\* hookFunction
HookFunction ==
    /\ Injecting /\ Loaded(Entry)
    /\ Definition(Entry.function, width) = "ok"
    /\ hooks' = hooks \cup {position}
    /\ position' = position + 1
    /\ UNCHANGED <<regionVars, process, width, hooking, loadedModules, failed, trace>>

\* Mutant: the modules after one that fails are left out.
StopAtFailure == position' = Len(Profile) + 1

GoOn == position' = position + 1

\* The definition is missing, or the function is not found or cannot be breakpointed.
HookFails ==
    /\ Injecting /\ Loaded(Entry)
    /\ Definition(Entry.function, width) # "endless"
    /\ failed' = failed \cup {position}
    /\ GoOn
    /\ UNCHANGED <<regionVars, process, width, hooking, loadedModules, hooks, trace>>

\* The recursion over the definitions uses up the stack: the program ends.
DefinitionEndless ==
    /\ Injecting /\ Loaded(Entry)
    /\ Definition(Entry.function, width) = "endless"
    /\ hooking' = "crashed"
    /\ UNCHANGED <<regionVars, process, width, position, loadedModules, hooks, failed, trace>>

HooksInjected ==
    /\ hooking = "injecting" /\ position > Len(Profile)
    /\ hooking' = "hooked"
    /\ UNCHANGED <<regionVars, process, width, position, loadedModules, hooks, failed, trace>>

\* hookCallback
HookCallback(e) ==
    /\ hooking = "hooked" /\ e \in hooks
    /\ ParametersOf[Profile[e].function] # <<>>
    /\ trace' = [entry |-> e, values |-> Extracted(Profile[e].function, width)]
    /\ UNCHANGED <<regionVars, process, width, hooking, position, loadedModules, hooks, failed>>

\* The stack cannot be read, or a string: nothing of the call is traced.
HookCallbackThrows(e) ==
    /\ hooking = "hooked" /\ e \in hooks
    /\ width = 32 \/ Len(ParametersOf[Profile[e].function]) > MaxRegisterParameters
                  \/ HasText(Profile[e].function, width)
    /\ trace' = NoTrace
    /\ UNCHANGED <<regionVars, process, width, hooking, position, loadedModules, hooks, failed>>

\* A hook whose removal throws is forgotten as well.
RemoveHooks ==
    /\ hooking = "hooked"
    /\ hooking' = "removed"
    /\ hooks' = {}
    /\ trace' = NoTrace
    /\ UNCHANGED <<regionVars, process, width, position, loadedModules, failed>>

HookStep ==
    \/ InitLoadedModules \/ SkipModule \/ HookFunction \/ HookFails \/ DefinitionEndless \/ HooksInjected

Next ==
    \/ RegionsNext /\ UNCHANGED hookVars
    \/ HookStep
    \/ \E e \in hooks : HookCallback(e) \/ HookCallbackThrows(e)
    \/ RemoveHooks

Spec == Init /\ [][Next]_vars /\ WF_vars(WalkStep /\ UNCHANGED hookVars)

-----------------------------------------------------------------------------
Values == [Bytes -> {Zero} \cup ({"register"} \X (0..(8 * MaxRegisterParameters + 7)))
                           \cup ({"stack"} \X Nat)]

TypeOK ==
    /\ RegionsTypeOK
    /\ process \in ProcessNames /\ width \in Widths
    /\ hooking \in {"none", "injecting", "hooked", "crashed", "removed"}
    /\ position = 0 \/ position \in 1..(Len(Profile) + 1)
    /\ loadedModules \in [Traceable -> Links]
    /\ hooks \cup failed \subseteq 1..(position - 1)
    /\ trace.entry \in {0} \cup 1..(position - 1)
    /\ \A i \in DOMAIN trace.values : trace.values[i] \in Values

\* The file lists function f of module m for process p: in the profile that its entry names, or in
\* "default" if it names none or if p is the process of -n only.
Lists(p, m, f) ==
    LET entries == {i \in DOMAIN TargetNodes : TargetNodes[i].process = p}
        named   == IF entries = {} THEN Unnamed ELSE TargetNodes[First(entries)].profile
    IN  /\ entries # {} \/ NamedProcess = p
        /\ \E i \in DOMAIN ProfileNodes :
              /\ ProfileNodes[i].name = IF named = Unnamed THEN "default" ELSE named
              /\ \A j \in DOMAIN ProfileNodes : ProfileNodes[j].name = ProfileNodes[i].name => j <= i
              /\ \E k \in DOMAIN ProfileNodes[i].modules :
                    LET node == ProfileNodes[i].modules[k]
                    IN  node.name = m /\ \E l \in DOMAIN node.functions : node.functions[l] = f

Functions == UNION {UNION {Elements(m.functions) : m \in Elements(p.modules)} : p \in Elements(ProfileNodes)}

\* A function that the configuration lists for a process is hooked, unless its own hook failed, if its
\* library is mapped where the walk can read it: neither a library nor a function that fails costs
\* another one its hook.
LibrariesHooked ==
    hooking = "hooked" /\ os = "windows" /\ changes = 0 =>
        \A n \in Below(root) \ Unreadable, f \in Functions :
            /\ Describable(n) /\ Region(n).file \in Traceable
            /\ Lists(process, Region(n).file, f)
            => \E e \in hooks \cup failed : Profile[e] = [module |-> Region(n).file, function |-> f]

\* Where the calling convention puts parameter i: in the registers and above the shadow space with 64
\* bits, else above the return address, where a parameter of eight bytes takes two slots.
Slots(t) == IF SizeOf(t, 32) > 4 THEN 2 ELSE 1
SlotsBefore(ts, i) ==
    LET sum[k \in 0..(i - 1)] == IF k = 0 THEN 0 ELSE sum[k - 1] + Slots(ts[k]) IN sum[i - 1]

Argument(ts, i, w) ==
    IF w = 32 THEN read64VA(4 + 4 * SlotsBefore(ts, i))
    ELSE IF i <= 4 THEN RegisterValue(i)
    ELSE read64VA(8 + 32 + 8 * (i - 5))

\* A traced value holds its own argument, and in a process of 64 bits nothing else.  Left out is what
\* the code gets wrong with 32 bits: arguments of eight bytes and those behind them.
ParametersOwn ==
    trace # NoTrace =>
        LET ts == ParametersOf[Profile[trace.entry].function]
        IN  \A i \in 1..Len(ts) :
               \/ width = 32 /\ \E j \in 1..i : Slots(ts[j]) = 2
               \/ LET own == Low(Argument(ts, i, width), SizeOf(ts[i], width))
                  IN  /\ Low(trace.values[i], SizeOf(ts[i], width)) = own
                      /\ width = 64 /\ i > 4 => trace.values[i] = own
=============================================================================
