--------------------------- MODULE MCFunctionHooks ---------------------------
(***************************************************************************)
(* Three nodes: the image of the process (app), whose name is paged out,   *)
(* that of a library, and one that cannot be read.  The default profile    *)
(* has a function of a module that is not mapped, one that is not defined, *)
(* one with eight parameters, and one whose type is defined by itself in   *)
(* the definitions for 32 bits.  A profile and a process are written       *)
(* twice; word.exe has a profile that is not there, edit.exe is named by   *)
(* -n, and idle.exe is not traced.                                         *)
(***************************************************************************)
EXTENDS FunctionHooks, TLC

CONSTANTS app, library, hole, NtCreate, NtMissing, Beep, NtLoop

MCFlagsOf == (app :> {"image", "file"}) @@ (library :> {"image", "file"}) @@ (hole :> {"private"})
MCReadableOf == (app :> Objects \ {"fileName"}) @@ (library :> Objects) @@ (hole :> {})
MCFileOf == (app :> "app.exe") @@ (library :> "ntdll.dll") @@ (hole :> "")
MCProtectionOf == (app :> 1) @@ (library :> 0) @@ (hole :> 0)

MCModules ==
    << [name |-> "user32.dll", functions |-> <<Beep>>],
       [name |-> "ntdll.dll",  functions |-> <<NtMissing, NtCreate, NtLoop>>] >>

MCProfileNodes ==
    << [name |-> "default", modules |-> MCModules],
       [name |-> "calc",    modules |-> MCModules],
       [name |-> "calc",    modules |-> <<[name |-> "ntdll.dll", functions |-> <<NtCreate>>]>>] >>
MCTargetNodes ==
    << [process |-> "calc.exe", profile |-> "calc"],
       [process |-> "word.exe", profile |-> "none"],
       [process |-> "calc.exe", profile |-> "none"] >>

MCParametersOf ==
    (Beep :> <<"ULONG">>)
    @@ (NtCreate :> <<"HANDLE", "ULONG", "USHORT", "LPSTR", "USHORT", "ULONG", "INT64", "OBJECT">>)
    @@ (NtLoop :> <<"LOOP">>)

MCBackingSize ==
    ("ptr32" :> 4) @@ ("ptr64" :> 8) @@ ("long" :> 4) @@ ("short" :> 2) @@ ("int64" :> 8) @@ ("str" :> 8)
MCCommon == ("ULONG" :> "long") @@ ("USHORT" :> "short") @@ ("INT64" :> "int64")
MCHighLevel ==
    (32 :> (("HANDLE" :> "ptr32") @@ ("LPSTR" :> "ptr32") @@ ("LOOP" :> "LOOP") @@ MCCommon))
    @@ (64 :> (("HANDLE" :> "ptr64") @@ ("LPSTR" :> "str") @@ ("LOOP" :> "long") @@ MCCommon))
MCStructures == ("OBJECT" :> <<"ULONG", "LPSTR">>)
=============================================================================
