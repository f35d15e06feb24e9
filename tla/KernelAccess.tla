---------------------------- MODULE KernelAccess ----------------------------
(***************************************************************************)
(* What VMICore reads from the Windows kernel of the guest to describe a   *)
(* node of the tree of a process's memory                                  *)
(* (vmicore/src/lib/os/windows/KernelAccess.cpp).                          *)
(*                                                                         *)
(* A node leads to other objects of the kernel, each of which may be       *)
(* paged out, or lie below the kernel space, where it is not looked for.   *)
(* A read of such an object throws.                                        *)
(***************************************************************************)
CONSTANTS
    Nodes,         \* the nodes (_MMVAD) that the guest has
    ReadableOf,    \* ReadableOf[n]: those of the objects of n that can be read
    FlagsOf,       \* FlagsOf[n]: the flags that are set in them
    ProtectionOf,  \* ProtectionOf[n]: the index of its protection in MmProtectToValue
    FileOf,        \* FileOf[n]: the file that its file object is of
    ImageFile      \* the file that the process executes

\* The node itself (its _MMVAD_SHORT), its subsection, its control area, and its file object with the
\* name in it
Objects == {"vadShort", "subsection", "controlArea", "fileObject", "fileName"}
Flags   == {"private", "image", "file", "beingDeleted"}

ASSUME KernelAssumption ==
    \A n \in Nodes : ReadableOf[n] \subseteq Objects /\ FlagsOf[n] \subseteq Flags

\* expectSaneKernelAddress and the reads that follow it do not throw for these objects.
Reads(n, objects) == objects \subseteq ReadableOf[n]

extractFlagValue(n, flag) == flag \in FlagsOf[n]

\* extractMmVadShortVpns
VpnsKnown(n)                  == Reads(n, {"vadShort"})
extractProtectionFlagValue(n) == ProtectionOf[n]
extractIsPrivateMemory(n)     == extractFlagValue(n, "private")

\* extractControlAreaBasePointer goes over the subsection; the flags are read from the area.
ControlAreaKnown(n)      == Reads(n, {"subsection", "controlArea"})
extractIsImage(n)        == extractFlagValue(n, "image")
extractIsFile(n)         == extractFlagValue(n, "file")
extractIsBeingDeleted(n) == extractFlagValue(n, "beingDeleted")

\* extractFilePointerObjectAddress gives the address of the object in the control area, without the
\* reference count in its low bits; extractFileName reads the object, then the string.
FileObject(n)    == FileOf[n]
FileNameKnown(n) == Reads(n, {"fileObject", "fileName"})

extractImageFilePointer == ImageFile
=============================================================================
