---------------------------- MODULE YaraInterface ----------------------------
(***************************************************************************)
(* One scan of the InMemoryScanner plugin (YaraInterface.cpp): the mapped  *)
(* chunks of a region become the blocks of an iterator, and the callback   *)
(* collects a record for every rule that matches.  What Yara finds in a    *)
(* block is external.                                                      *)
(***************************************************************************)
EXTENDS Naturals, Sequences

CONSTANTS
    pageSizeInBytes,
    YaraMatches \* what the strings of a rule match: [rule, base, offset], by the block's base

ASSUME YaraAssumption ==
    /\ pageSizeInBytes \in Nat \ {0}
    /\ \A m \in YaraMatches : m.base \in Nat /\ m.offset \in Nat

NoBlock == 0

Blocks(mappedRegions) ==
    [i \in DOMAIN mappedRegions |-> [size |-> mappedRegions[i].num_pages * pageSizeInBytes,
                                     base |-> mappedRegions[i].guestBaseVA]]

FirstBlock == 1

\* Mutant: the index is compared before it is incremented, and the last block never read.
NextBlockTooShort(blocks, index) == IF index + 1 < Len(blocks) THEN index + 1 ELSE NoBlock

NextBlock(blocks, index) == IF index < Len(blocks) THEN index + 1 ELSE NoBlock

\* The blocks that Yara reads: the first, then the next until there is none
Iterated(blocks) ==
    LET index[n \in 1 .. Len(blocks)] ==
            IF n = 1 THEN FirstBlock
            ELSE IF index[n - 1] = NoBlock THEN NoBlock
            ELSE NextBlock(blocks, index[n - 1])
    IN  {blocks[index[n]] : n \in {k \in 1 .. Len(blocks) : index[k] # NoBlock}}

FoundIn(block) == {m \in YaraMatches : m.base = block.base /\ m.offset < block.size}

\* handleRuleMatch: the position of a match is the base of its block and its offset.
Rule(rule, found) ==
    [ruleName |-> rule, matches |-> {m.base + m.offset : m \in {f \in found : f.rule = rule}}]

\* The callback continues after each rule, so all that match are reported.
ScanMemory(mappedRegions) ==
    LET found == UNION {FoundIn(block) : block \in Iterated(Blocks(mappedRegions))}
    IN  {Rule(rule, found) : rule \in {m.rule : m \in found}}
=============================================================================
