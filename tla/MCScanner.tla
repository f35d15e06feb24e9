----------------------------- MODULE MCScanner -----------------------------
(***************************************************************************)
(* Three processes that are scanned, one that is excluded by its name and  *)
(* one whose regions cannot be extracted, for a library that allows two    *)
(* scans at a time.  Process a has two regions that may be reported, the   *)
(* first in two parts with a gap between them, and one that is skipped; b  *)
(* and c have one each, c another one that is not in memory.  A page has   *)
(* four bytes.                                                             *)
(***************************************************************************)
EXTENDS Scanner, TLC

CONSTANTS a, b, c, ignored, broken, a1, a2, a3, b1, c1, c2, i1, x1, name, other, rule1, rule2

MCNameOf == [p \in Processes |-> IF p = ignored THEN other ELSE name]

MCOwnerOf == (a1 :> a) @@ (a2 :> a) @@ (a3 :> a) @@ (b1 :> b) @@ (c1 :> c) @@ (c2 :> c)
             @@ (i1 :> ignored) @@ (x1 :> broken)

MCBaseOf == [r \in Regions |-> 16]

Chunk(base, pages) == [guestBaseVA |-> base, num_pages |-> pages]

MCChunks == [r \in Regions |-> CASE r = a1 -> <<Chunk(16, 2), Chunk(32, 1)>>
                                 [] r = c2 -> <<>>
                                 [] r \in {a2, a3} -> <<Chunk(48, 1)>>
                                 [] OTHER -> <<Chunk(16, 1)>>]

\* The last match lies behind the end of its block and is never found.
Found(rule, base, offset) == [rule |-> rule, base |-> base, offset |-> offset]

MCYaraMatches ==
    {Found(rule1, 16, 3), Found(rule2, 32, 0), Found(rule1, 32, 2), Found(rule2, 48, 4)}

MCRootNode == [ignored_processes |-> {other}, dump_memory |-> TRUE]
=============================================================================
