------------------------ MODULE FunctionHooks_proofs ------------------------
(***************************************************************************)
(* Proofs about the walk over the memory regions (MemoryRegions), for any  *)
(* nodes, links and rewrites of the guest, and about the hooks that are    *)
(* set with it, for any configuration, definitions and functions.          *)
(***************************************************************************)
EXTENDS FunctionHooks, SequenceTheorems, FiniteSetTheorems, WellFoundedInduction, TLAPS

\* Hooking reads the regions and changes nothing about the walk.
LEMMA StepsOfWalk == [Next]_vars => [RegionsNext]_regionVars
  BY DEF vars, Next, HookStep, InitLoadedModules, SkipModule, HookFunction, HookFails,
         DefinitionEndless, HooksInjected, HookCallback, HookCallbackThrows, RemoveHooks

\* The children that are pushed are the links of the node that lead somewhere.
LEMMA ChildrenAreLinks ==
    ASSUME NEW n \in Nodes, left \in [Nodes -> Links], right \in [Nodes -> Links]
    PROVE  /\ Children(n) \in Seq(Nodes)
           /\ \A m : (\E i \in 1..Len(Children(n)) : Children(n)[i] = m)
                        <=> m \in {left[n], right[n]} \ {Nil}
<1> DEFINE a == left[n]
           b == right[n]
<1>1. a \in Links /\ b \in Links
  OBVIOUS
<1>2. CASE a = Nil /\ b = Nil
  <2>1. Children(n) = <<>>
    BY <1>2 DEF Children, NodeAt
  <2>2. QED BY <1>2, <2>1
<1>3. CASE a # Nil /\ b = Nil
  <2>1. Children(n) = <<a>>
    BY <1>1, <1>3 DEF Children, NodeAt, Links
  <2>2. QED BY <1>1, <1>3, <2>1 DEF Links
<1>4. CASE a = Nil /\ b # Nil
  <2>1. Children(n) = <<b>>
    BY <1>1, <1>4 DEF Children, NodeAt, Links
  <2>2. QED BY <1>1, <1>4, <2>1 DEF Links
<1>5. CASE a # Nil /\ b # Nil
  <2>1. NodeAt(a) = <<a>> /\ NodeAt(b) = <<b>> /\ a \in Nodes /\ b \in Nodes
    BY <1>1, <1>5 DEF NodeAt, Links
  <2>2. <<a>> \in Seq(Nodes) /\ <<b>> \in Seq(Nodes)
    BY <2>1
  <2>3. /\ Children(n) = <<a>> \o <<b>>
        /\ Children(n) \in Seq(Nodes)
        /\ Len(Children(n)) = 2 /\ Children(n)[1] = a /\ Children(n)[2] = b
    BY <2>1, <2>2, ConcatProperties DEF Children
  <2>4. QED BY <1>5, <2>3
<1>6. QED BY <1>2, <1>3, <1>4, <1>5

\* A node leaves the stack from its end.
LEMMA PopTakesTop ==
    ASSUME next \in Seq(Nodes), next # <<>>
    PROVE  /\ Top \in Nodes
           /\ Pop \in Seq(Nodes)
           /\ Len(Pop) = Len(next) - 1
           /\ \A i \in 1..Len(Pop) : Pop[i] = next[i]
           /\ Len(next) \in Nat \ {0}
<1>1. Len(next) \in Nat \ {0}
  BY EmptySeq
<1>2. \A i \in 1..Len(next) : next[i] \in Nodes
  BY ElementOfSeq
<1> DEFINE k == Len(next) - 1
<1>3. k \in 0..Len(next)
  BY <1>1
<1> HIDE DEF k
<1>4. SubSeq(next, 1, k) = [i \in 1..k |-> next[i]]
  BY <1>3, SubSeqRestrict DEF Restrict
<1>5. Pop = [i \in 1..k |-> next[i]]
  BY <1>4 DEF Pop, k
<1>6. Pop \in Seq(Nodes) /\ Len(Pop) = k /\ \A i \in 1..k : Pop[i] = next[i]
  BY <1>2, <1>3, <1>5
<1>7. Top \in Nodes
  BY <1>1, <1>2 DEF Top
<1>8. QED BY <1>1, <1>6, <1>7 DEF k

\* Every variable of the walk keeps its type.
THEOREM RegionsTyping == Spec => []RegionsTypeOK
<1> USE RegionsAssumption DEF RegionsAssumption
<1>1. Init => RegionsTypeOK
  BY DEF Init, RegionsInit, RegionsTypeOK
<1>2. RegionsTypeOK /\ [RegionsNext]_regionVars => RegionsTypeOK'
  <2> SUFFICES ASSUME RegionsTypeOK, [RegionsNext]_regionVars PROVE RegionsTypeOK'
    OBVIOUS
  <2>1. CASE ReadProtections
    BY <2>1 DEF ReadProtections, RegionsTypeOK, guest
  <2>2. CASE ReadProtectionsFails
    BY <2>2 DEF ReadProtectionsFails, RegionsTypeOK, guest
  <2>3. CASE BeginTree \/ BeginList
    <3>1. <<root>> \in Seq(Nodes)
      BY DEF RegionsTypeOK
    <3>2. QED BY <2>3, <3>1 DEF BeginTree, BeginList, RegionsTypeOK, guest
  <2>4. CASE SkipVisited \/ SkipUnreadable
    <3>1. Pop \in Seq(Nodes) /\ Top \in Nodes
      BY <2>4, PopTakesTop DEF SkipVisited, SkipUnreadable, RegionsTypeOK
    <3>2. QED BY <2>4, <3>1 DEF SkipVisited, SkipUnreadable, RegionsTypeOK, guest
  <2>5. CASE VisitNode
    <3>1. Pop \in Seq(Nodes) /\ Top \in Nodes
      BY <2>5, PopTakesTop DEF VisitNode, RegionsTypeOK
    <3>2. Pop \o Children(Top) \in Seq(Nodes)
      BY <3>1, ChildrenAreLinks, ConcatProperties DEF RegionsTypeOK
    <3>3. Region(Top) \in RegionRecords
      <4>1. FileName(Top) \in {FileOf[n] : n \in Nodes} \cup {"unknownFilename"}
        BY <3>1 DEF FileName, FileObject
      <4>2. QED
        BY <3>1, <4>1 DEF Region, RegionRecords, extractIsPrivateMemory, extractIsBeingDeleted,
                          extractFlagValue, FileNameKnown, Reads
    <3>4. RegionIfAny(Top) \in Seq(RegionRecords)
      BY <3>3 DEF RegionIfAny
    <3>5. regions \o RegionIfAny(Top) \in Seq(RegionRecords)
      BY <3>4, ConcatProperties DEF RegionsTypeOK
    <3>6. QED BY <2>5, <3>1, <3>2, <3>5 DEF VisitNode, RegionsTypeOK, guest
  <2>6. CASE VisitArea
    <3>1. Top \in Nodes
      BY <2>6, PopTakesTop DEF VisitArea, RegionsTypeOK
    <3>2. AreaRegion(Top) \in RegionRecords
      BY <3>1 DEF AreaRegion, RegionRecords, DPath
    <3>3. Append(regions, AreaRegion(Top)) \in Seq(RegionRecords)
      BY <3>2, AppendProperties DEF RegionsTypeOK
    <3>4. (IF right[Top] = Nil THEN <<>> ELSE <<right[Top]>>) \in Seq(Nodes)
      BY <3>1 DEF RegionsTypeOK, Links
    <3>5. QED BY <2>6, <3>3, <3>4 DEF VisitArea, RegionsTypeOK, guest
  <2>7. CASE ListFails \/ EndOfTree \/ EndOfList
    <3>1. CASE ListFails
      <4>1. <<>> \in Seq(Nodes) /\ <<>> \in Seq(RegionRecords)
        OBVIOUS
      <4>2. QED BY <3>1, <4>1 DEF ListFails, RegionsTypeOK, guest
    <3>2. CASE EndOfTree \/ EndOfList
      BY <3>2 DEF EndOfTree, EndOfList, RegionsTypeOK, guest
    <3>3. QED BY <2>7, <3>1, <3>2
  <2>8. ASSUME NEW n \in Nodes, NEW m \in Links, Rewrite(n, m) PROVE RegionsTypeOK'
    BY <2>8 DEF Rewrite, RegionsTypeOK
  <2>9. CASE UNCHANGED regionVars
    BY <2>9 DEF regionVars, RegionsTypeOK
  <2>10. QED BY <2>1, <2>2, <2>3, <2>4, <2>5, <2>6, <2>7, <2>8, <2>9 DEF RegionsNext, WalkStep
<1>3. QED BY <1>1, <1>2, StepsOfWalk, PTL DEF Spec

-----------------------------------------------------------------------------
\* A region is appended for the node on top of the stack, or none.
LEMMA RegionAppended ==
    ASSUME RegionsTypeOK, NEW n \in Nodes
    PROVE  \/ /\ Describable(n)
              /\ Len(regions \o RegionIfAny(n)) = Len(regions) + 1
              /\ (regions \o RegionIfAny(n))[Len(regions) + 1].node = n
              /\ \A i \in 1..Len(regions) : (regions \o RegionIfAny(n))[i] = regions[i]
           \/ ~Describable(n) /\ regions \o RegionIfAny(n) = regions
<1>1. regions \in Seq(RegionRecords)
  BY DEF RegionsTypeOK
<1>2. Region(n).node = n
  BY DEF Region
<1> DEFINE r == Region(n)
<1> HIDE DEF r
<1>3. CASE Describable(n)
  <2>1. regions \o RegionIfAny(n) = Append(regions, r)
    BY <1>1, <1>3 DEF RegionIfAny, r
  <2>2. Len(Append(regions, r)) = Len(regions) + 1 /\ Append(regions, r)[Len(regions) + 1] = r
    BY <1>1
  <2>3. \A i \in 1..Len(regions) : Append(regions, r)[i] = regions[i]
    BY <1>1
  <2>4. QED BY <1>2, <1>3, <2>1, <2>2, <2>3, Zenon DEF r
<1>4. CASE ~Describable(n)
  BY <1>1, <1>4 DEF RegionIfAny
<1>5. QED BY <1>3, <1>4

\* The regions are those of visited nodes.
VisitedInv ==
    os = "windows" => \A i \in 1..Len(regions) : regions[i].node \in visited

\* VadTreeWin10.cpp:36-43: however the guest links its nodes anew during the walk, a cycle included,
\* no node gives two regions, since a node is remembered before its region is made.
THEOREM RegionsAreUnique == Spec => []RegionsOnce
<1>1. Init => VisitedInv /\ RegionsOnce
  BY DEF Init, RegionsInit, VisitedInv, RegionsOnce
<1>2. RegionsTypeOK /\ VisitedInv /\ RegionsOnce /\ [RegionsNext]_regionVars
         => (VisitedInv /\ RegionsOnce)'
  <2> SUFFICES ASSUME RegionsTypeOK, VisitedInv, RegionsOnce, [RegionsNext]_regionVars
               PROVE  (VisitedInv /\ RegionsOnce)'
    OBVIOUS
  <2>1. CASE VisitNode
    <3>1. Top \in Nodes /\ Top \notin visited
      BY <2>1, PopTakesTop DEF VisitNode, Visited, RegionsTypeOK
    <3>2. Len(regions) \in Nat
      BY DEF RegionsTypeOK
    <3>3. \/ /\ Len(regions') = Len(regions) + 1
             /\ regions'[Len(regions) + 1].node = Top
             /\ \A i \in 1..Len(regions) : regions'[i] = regions[i]
          \/ regions' = regions
      BY <2>1, <3>1, RegionAppended DEF VisitNode
    <3>4. os' = os /\ visited' = visited \cup {Top}
      BY <2>1 DEF VisitNode, guest
    <3>5. QED BY <3>1, <3>2, <3>3, <3>4 DEF VisitedInv, RegionsOnce
  <2>2. CASE os = "windows" /\ ~VisitNode
    <3>1. os' = os /\ regions' = regions /\ visited \subseteq visited'
      BY <2>2 DEF RegionsNext, WalkStep, ReadProtections, ReadProtectionsFails, BeginTree,
         SkipVisited, SkipUnreadable, EndOfTree, BeginList, VisitArea, ListFails, EndOfList,
         Rewrite, regionVars, guest
    <3>2. QED BY <3>1 DEF VisitedInv, RegionsOnce
  <2>3. CASE os # "windows"
    <3>1. os' = os
      BY DEF RegionsNext, WalkStep, ReadProtections, ReadProtectionsFails, BeginTree, SkipVisited,
         SkipUnreadable, VisitNode, EndOfTree, BeginList, VisitArea, ListFails, EndOfList, Rewrite,
         regionVars, guest
    <3>2. QED BY <2>3, <3>1 DEF VisitedInv, RegionsOnce
  <2>4. QED BY <2>1, <2>2, <2>3
<1>3. QED BY <1>1, <1>2, RegionsTyping, StepsOfWalk, PTL DEF Spec

-----------------------------------------------------------------------------
\* A set of nodes that the links of the tree do not leave
Closed(S) ==
    /\ root \in S
    /\ \A n \in S \ Unreadable : \A m \in {left[n], right[n]} \ {Nil} : m \in S

\* The nodes that can be reached from the root over readable nodes: those of every such set
Reachable == {n \in Nodes : \A S \in SUBSET Nodes : Closed(S) => n \in S}

Pending(m) == \E i \in 1..Len(next) : next[i] = m

\* What links a node that was visited was visited as well, or will be; only reachable nodes are.
WalkInv ==
    os = "windows" =>
        /\ walk \in {"idle", "ready"} => visited = {} /\ regions = <<>>
        /\ walk = "done" => next = <<>>
        /\ walk \in {"walking", "done"} /\ changes = 0 =>
              /\ root \in visited \/ Pending(root)
              /\ \A n \in visited \ Unreadable : \A m \in {left[n], right[n]} \ {Nil} :
                    m \in visited \/ Pending(m)
              /\ \A S \in SUBSET Nodes : Closed(S) => \A m : m \in visited \/ Pending(m) => m \in S
              /\ \A n : (\E i \in 1..Len(regions) : regions[i].node = n)
                           <=> n \in visited \ Unreadable /\ Describable(n)

\* What VadTreeWin10 returns of a tree that the guest leaves alone
ReachableReturned ==
    os = "windows" /\ walk = "done" /\ changes = 0 =>
        {regions[i].node : i \in 1..Len(regions)} = {n \in Reachable \ Unreadable : Describable(n)}

\* The last node of the stack is the one that is taken.
LEMMA PendingIsTopOrPop ==
    ASSUME next \in Seq(Nodes), next # <<>>, NEW m
    PROVE  Pending(m) <=> m = Top \/ \E i \in 1..Len(Pop) : Pop[i] = m
<1>1. Len(next) \in Nat \ {0} /\ Len(Pop) = Len(next) - 1 /\ \A i \in 1..Len(Pop) : Pop[i] = next[i]
  BY PopTakesTop
<1>2. \A i : i \in 1..Len(next) <=> i \in 1..Len(Pop) \/ i = Len(next)
  BY <1>1
<1>3. QED BY <1>1, <1>2 DEF Pending, Top

\* After a visit the rest of the stack and the children are pending.
LEMMA PendingAfterVisit ==
    ASSUME NEW s \in Seq(Nodes), NEW t \in Seq(Nodes), NEW m
    PROVE  (\E i \in 1..Len(s \o t) : (s \o t)[i] = m)
              <=> (\E i \in 1..Len(s) : s[i] = m) \/ (\E i \in 1..Len(t) : t[i] = m)
<1>1. /\ Len(s) \in Nat /\ Len(t) \in Nat /\ Len(s \o t) = Len(s) + Len(t)
      /\ \A i \in 1..Len(s) : (s \o t)[i] = s[i]
      /\ \A i \in 1..Len(t) : (s \o t)[Len(s) + i] = t[i]
  BY ConcatProperties
<1>2. ASSUME NEW i \in 1..Len(s \o t), (s \o t)[i] = m
      PROVE  (\E j \in 1..Len(s) : s[j] = m) \/ (\E j \in 1..Len(t) : t[j] = m)
  <2>1. CASE i \in 1..Len(s)
    BY <1>1, <1>2, <2>1
  <2>2. CASE i \notin 1..Len(s)
    <3>1. i - Len(s) \in 1..Len(t) /\ Len(s) + (i - Len(s)) = i
      BY <1>1, <2>2
    <3>2. t[i - Len(s)] = m
      BY <1>1, <1>2, <3>1
    <3>3. QED BY <3>1, <3>2
  <2>3. QED BY <2>1, <2>2
<1>3. ASSUME NEW i \in 1..Len(s), s[i] = m PROVE \E j \in 1..Len(s \o t) : (s \o t)[j] = m
  BY <1>1, <1>3
<1>4. ASSUME NEW i \in 1..Len(t), t[i] = m PROVE \E j \in 1..Len(s \o t) : (s \o t)[j] = m
  <2>1. Len(s) + i \in 1..Len(s \o t)
    BY <1>1
  <2>2. QED BY <1>1, <1>4, <2>1
<1>5. QED BY <1>2, <1>3, <1>4

\* VadTreeWin10.cpp:25-101: the walk returns the regions of exactly those nodes that can be reached
\* over readable ones and can be described.
THEOREM WalkReturnsReachable == Spec => []ReachableReturned
<1>1. Init => WalkInv
  BY DEF Init, RegionsInit, WalkInv
<1>2. RegionsTypeOK /\ WalkInv /\ [RegionsNext]_regionVars => WalkInv'
  <2> SUFFICES ASSUME RegionsTypeOK, WalkInv, [RegionsNext]_regionVars, os' = "windows" PROVE WalkInv'
    BY DEF WalkInv
  <2>0. os = "windows"
    BY DEF RegionsNext, WalkStep, ReadProtections, ReadProtectionsFails, BeginTree, SkipVisited,
       SkipUnreadable, VisitNode, EndOfTree, BeginList, VisitArea, ListFails, EndOfList, Rewrite,
       regionVars, guest
  <2>1. CASE ReadProtections \/ ReadProtectionsFails
    BY <2>0, <2>1 DEF ReadProtections, ReadProtectionsFails, WalkInv
  <2>2. CASE BeginTree
    <3>1. visited' = {} /\ regions' = <<>> /\ next' = <<root>> /\ walk' = "walking" /\ root' = root
      BY <2>0, <2>2 DEF BeginTree, WalkInv, guest
    <3>2. \A m : Pending(m)' <=> m = root
      BY <3>1 DEF Pending
    <3>3. QED BY <3>1, <3>2 DEF WalkInv, Closed
  <2>3. CASE SkipVisited
    <3>1. /\ Top \in visited /\ visited' = visited
          /\ \A m : Pending(m) <=> m = Top \/ Pending(m)'
      BY <2>3, PendingIsTopOrPop DEF SkipVisited, Visited, RegionsTypeOK, Pending
    <3>2. QED BY <2>0, <2>3, <3>1 DEF SkipVisited, WalkInv, Closed, Describable, guest
  <2>4. CASE SkipUnreadable
    <3>1. /\ Top \in Unreadable /\ visited' = visited \cup {Top}
          /\ \A m : Pending(m) <=> m = Top \/ Pending(m)'
      BY <2>4, PendingIsTopOrPop DEF SkipUnreadable, RegionsTypeOK, Pending
    <3>2. QED BY <2>0, <2>4, <3>1 DEF SkipUnreadable, WalkInv, Closed, Describable, guest
  <2>5. CASE VisitNode
    <3>1. Top \in Nodes \ (visited \cup Unreadable) /\ Pop \in Seq(Nodes)
      BY <2>5, PopTakesTop DEF VisitNode, Visited, RegionsTypeOK
    <3>2. Children(Top) \in Seq(Nodes)
      BY <3>1, ChildrenAreLinks DEF RegionsTypeOK
    <3>3. \A m :
             /\ Pending(m) <=> (m = Top \/ \E i \in 1..Len(Pop) : Pop[i] = m)
             /\ Pending(m)' <=> \/ \E i \in 1..Len(Pop) : Pop[i] = m
                                \/ m \in {left[Top], right[Top]} \ {Nil}
      <4>1. next \in Seq(Nodes) /\ next # <<>> /\ next' = Pop \o Children(Top)
        BY <2>5 DEF VisitNode, RegionsTypeOK
      <4>2. \A m : Pending(m) <=> m = Top \/ \E i \in 1..Len(Pop) : Pop[i] = m
        BY <4>1, PendingIsTopOrPop
      <4>3. \A m : (\E i \in 1..Len(Children(Top)) : Children(Top)[i] = m)
                     <=> m \in {left[Top], right[Top]} \ {Nil}
        BY <3>1, ChildrenAreLinks DEF RegionsTypeOK
      <4>4. \A m : Pending(m)' <=> \/ \E i \in 1..Len(Pop) : Pop[i] = m
                                   \/ \E i \in 1..Len(Children(Top)) : Children(Top)[i] = m
        <5> DEFINE joined == Pop \o Children(Top)
        <5>1. \A m : (\E i \in 1..Len(joined) : joined[i] = m)
                        <=> \/ \E i \in 1..Len(Pop) : Pop[i] = m
                            \/ \E i \in 1..Len(Children(Top)) : Children(Top)[i] = m
          BY <3>1, <3>2, PendingAfterVisit
        <5>2. \A m : Pending(m)' <=> \E i \in 1..Len(joined) : joined[i] = m
          BY <4>1 DEF Pending
        <5>3. QED BY <5>1, <5>2
      <4>5. QED BY <4>2, <4>3, <4>4
    <3>4. /\ visited' = visited \cup {Top} /\ walk = "walking" /\ walk' = walk /\ changes' = changes
          /\ left' = left /\ right' = right /\ root' = root /\ table' = table
      BY <2>5 DEF VisitNode, guest
    <3>5. \A n : (\E i \in 1..Len(regions') : regions'[i].node = n)
                    <=> (\E i \in 1..Len(regions) : regions[i].node = n)
                        \/ (n = Top /\ Describable(Top))
      <4>1. Len(regions) \in Nat
        BY DEF RegionsTypeOK
      <4>2. \/ /\ Describable(Top)
               /\ Len(regions') = Len(regions) + 1
               /\ regions'[Len(regions) + 1].node = Top
               /\ \A i \in 1..Len(regions) : regions'[i] = regions[i]
            \/ ~Describable(Top) /\ regions' = regions
        BY <2>5, <3>1, RegionAppended DEF VisitNode
      <4>3. CASE ~Describable(Top)
        BY <4>2, <4>3
      <4>4. CASE Describable(Top)
        <5>1. \A i : i \in 1..Len(regions') <=> i \in 1..Len(regions) \/ i = Len(regions) + 1
          BY <4>1, <4>2, <4>4
        <5>2. QED BY <4>2, <4>4, <5>1
      <4>5. QED BY <4>3, <4>4
    <3>6. CASE changes = 0
      <4>1. /\ root \in visited \/ Pending(root)
            /\ \A n \in visited \ Unreadable : \A m \in {left[n], right[n]} \ {Nil} :
                  m \in visited \/ Pending(m)
            /\ \A S \in SUBSET Nodes : Closed(S) => \A m : m \in visited \/ Pending(m) => m \in S
            /\ \A n : (\E i \in 1..Len(regions) : regions[i].node = n)
                         <=> n \in visited \ Unreadable /\ Describable(n)
        BY <2>0, <3>4, <3>6 DEF WalkInv
      <4>2. root' \in visited' \/ Pending(root)'
        BY <3>3, <3>4, <4>1
      <4>3. \A n \in visited' \ Unreadable : \A m \in {left'[n], right'[n]} \ {Nil} :
                m \in visited' \/ Pending(m)'
        BY <3>3, <3>4, <4>1
      <4>4. ASSUME NEW S \in SUBSET Nodes, Closed(S)', NEW m, m \in visited' \/ Pending(m)'
            PROVE  m \in S
        <5>1. Closed(S)
          BY <3>4, <4>4 DEF Closed
        <5>2. Top \in S
          BY <3>3, <4>1, <5>1
        <5>3. QED BY <3>1, <3>3, <3>4, <4>1, <4>4, <5>1, <5>2 DEF Closed
      <4>5. \A n : (\E i \in 1..Len(regions') : regions'[i].node = n)
                      <=> n \in visited' \ Unreadable /\ Describable(n)'
        <5>1. \A n : Describable(n)' <=> Describable(n)
          BY <3>4 DEF Describable
        <5> DEFINE Found(n)      == \E i \in 1..Len(regions) : regions[i].node = n
                   FoundAfter(n) == \E i \in 1..Len(regions') : regions'[i].node = n
        <5>2. /\ \A n : FoundAfter(n) <=> Found(n) \/ (n = Top /\ Describable(Top))
              /\ \A n : Found(n) <=> n \in visited \ Unreadable /\ Describable(n)
          BY <3>5, <4>1
        <5> HIDE DEF Found, FoundAfter
        <5>3. \A n : FoundAfter(n) <=> n \in visited' \ Unreadable /\ Describable(n)'
          BY <3>1, <3>4, <5>1, <5>2
        <5>4. QED BY <5>3 DEF FoundAfter
      <4>6. QED BY <3>4, <4>2, <4>3, <4>4, <4>5 DEF WalkInv
    <3>7. QED BY <3>4, <3>6 DEF WalkInv
  <2>6. CASE EndOfTree
    BY <2>0, <2>6 DEF EndOfTree, WalkInv, Pending, Closed, Describable, guest
  <2>7. CASE BeginList \/ VisitArea \/ ListFails \/ EndOfList
    BY <2>0, <2>7 DEF BeginList, VisitArea, ListFails, EndOfList
  <2>8. ASSUME NEW n \in Nodes, NEW m \in Links, Rewrite(n, m) PROVE WalkInv'
    BY <2>0, <2>8 DEF Rewrite, WalkInv, RegionsTypeOK
  <2>9. CASE UNCHANGED regionVars
    BY <2>0, <2>9 DEF regionVars, WalkInv, Pending, Closed, Describable
  <2>10. QED BY <2>1, <2>2, <2>3, <2>4, <2>5, <2>6, <2>7, <2>8, <2>9 DEF RegionsNext, WalkStep
<1>3. RegionsTypeOK /\ WalkInv => ReachableReturned
  <2> SUFFICES ASSUME RegionsTypeOK, WalkInv, os = "windows", walk = "done", changes = 0
               PROVE  {regions[i].node : i \in 1..Len(regions)}
                        = {n \in Reachable \ Unreadable : Describable(n)}
    BY DEF ReachableReturned
  <2>1. \A m : ~Pending(m)
    BY DEF WalkInv, Pending
  <2>2. visited \in SUBSET Nodes /\ Closed(visited)
    BY <2>1 DEF WalkInv, Closed, RegionsTypeOK
  <2>3. \A S \in SUBSET Nodes : Closed(S) => visited \subseteq S
    BY DEF WalkInv
  <2>4. visited = Reachable
    BY <2>2, <2>3 DEF Reachable
  <2>5. \A n : (\E i \in 1..Len(regions) : regions[i].node = n)
                 <=> n \in visited \ Unreadable /\ Describable(n)
    BY DEF WalkInv
  <2>6. QED BY <2>4, <2>5
<1>4. QED BY <1>1, <1>2, <1>3, RegionsTyping, StepsOfWalk, PTL DEF Spec

-----------------------------------------------------------------------------
(* Functions that are defined by recursion *)

\* A set of naturals has a least element.
LEMMA LeastElement ==
    ASSUME NEW T, T \subseteq Nat, T # {}
    PROVE  \E n \in T : \A m \in T : n <= m
<1> DEFINE R == {ss \in Nat \X Nat : ss[1] < ss[2]}
<1>1. IsWellFoundedOn(R, Nat)
  BY NatLessThanWellFounded DEF OpToRel
<1>2. \E n \in T : \A m \in T : <<m, n>> \notin R
  <2> HIDE DEF R
  <2>1. QED BY <1>1, WFMin
<1>3. \A m, n \in Nat : <<m, n>> \in R <=> m < n
  OBVIOUS
<1> HIDE DEF R
<1>4. PICK n \in T : \A m \in T : <<m, n>> \notin R
  BY <1>2
<1>5. \A m \in T : m \in Nat /\ n \in Nat /\ ~(m < n)
  BY <1>3, <1>4
<1>6. \A m \in T : n <= m
  BY <1>5
<1>7. QED BY <1>6

\* Induction over the naturals
LEMMA SetInduction ==
    ASSUME NEW S, 0 \in S, \A n \in S \cap Nat : n + 1 \in S
    PROVE  Nat \subseteq S
<1>1. SUFFICES ASSUME Nat \ S # {} PROVE FALSE
  OBVIOUS
<1>2. PICK n \in Nat \ S : \A m \in Nat \ S : n <= m
  BY <1>1, LeastElement
<1>3. n - 1 \in Nat /\ n - 1 \in S
  BY <1>2
<1>4. QED BY <1>2, <1>3

\* f satisfies the recursive definition that starts with first and goes on with step.
Solves(f, N, first, step) ==
    \A n \in 0..N : f[n] = IF n = 0 THEN first ELSE step[n][f[n - 1]]

\* A function that is defined by recursion over 0..N exists.
LEMMA RecursiveFunction ==
    ASSUME NEW N \in Nat, NEW V, NEW first \in V, NEW step \in [1..N -> [V -> V]]
    PROVE  \E f \in [0..N -> V] : Solves(f, N, first, step)
<1> USE DEF Solves
<1> DEFINE S == {m \in Nat : m <= N => \E f \in [0..m -> V] : Solves(f, m, first, step)}
<1>1. 0 \in S
  <2> DEFINE f == [n \in 0..0 |-> first]
  <2>1. f \in [0..0 -> V]
    OBVIOUS
  <2>2. Solves(f, 0, first, step)
    OBVIOUS
  <2>3. QED BY <2>1, <2>2
<1>2. ASSUME NEW m \in S PROVE m + 1 \in S
  <2>1. SUFFICES ASSUME m + 1 <= N PROVE \E f \in [0..(m + 1) -> V] : Solves(f, m + 1, first, step)
    <3>1. m + 1 \in Nat
      OBVIOUS
    <3> HIDE DEF Solves
    <3>2. QED BY <3>1
  <2>2. PICK f \in [0..m -> V] : Solves(f, m, first, step)
    BY <2>1
  <2> DEFINE g == [n \in 0..(m + 1) |-> IF n <= m THEN f[n] ELSE step[n][f[n - 1]]]
  <2>3. g \in [0..(m + 1) -> V]
    BY <2>1, <2>2
  <2>4. ASSUME NEW n \in 0..(m + 1)
        PROVE  g[n] = IF n = 0 THEN first ELSE step[n][g[n - 1]]
    <3>1. n # 0 => n - 1 \in 0..m /\ g[n - 1] = f[n - 1]
      BY <2>1
    <3>2. CASE n <= m
      <4>1. g[n] = f[n] /\ n \in 0..m
        BY <2>1, <3>2
      <4>2. QED BY <2>2, <3>1, <4>1
    <3>3. CASE n = m + 1
      <4>1. g[n] = step[n][f[n - 1]] /\ n # 0
        BY <3>3
      <4>2. QED BY <3>1, <4>1
    <3>4. QED BY <3>2, <3>3
  <2>5. QED BY <2>3, <2>4
<1>3. N \in S
  <2> HIDE DEF S
  <2>1. QED BY <1>1, <1>2, SetInduction
<1>4. QED BY <1>3

-----------------------------------------------------------------------------
(* Reachability: the recursive definition and the one by closed sets *)

Linked(A) == {m \in Nodes : \E s \in A \ Unreadable : m \in {left[s], right[s]}}

\* What Below collects within as many steps as there are nodes is closed: it grows by a node with
\* each step until it is.
LEMMA BelowIsReachable ==
    ASSUME RegionsTypeOK
    PROVE  Below(root) = Reachable
<1> USE RegionsAssumption DEF RegionsAssumption
<1> DEFINE N == Cardinality(Nodes)
           Grow(f) == [k \in 0..N |-> IF k = 0 THEN {root} \cap Nodes
                                      ELSE f[k - 1] \cup Linked(f[k - 1])]
           grow == CHOOSE f : f = Grow(f)
<1>1. Below(root) = grow[N]
  BY DEF Below, Linked
<1>2. N \in Nat /\ root \in Nodes
  BY FS_CardinalityType DEF RegionsTypeOK
<1>3. grow = Grow(grow)
  <2> DEFINE first == {root} \cap Nodes
             V == SUBSET Nodes
             step == [k \in 1..N |-> [A \in V |-> A \cup Linked(A)]]
  <2>1. first \in V /\ step \in [1..N -> [V -> V]]
    BY DEF Linked
  <2>2. PICK f \in [0..N -> V] : Solves(f, N, first, step)
    <3> HIDE DEF first, V, step, N
    <3>1. QED BY <1>2, <2>1, RecursiveFunction
  <2>3. ASSUME NEW k \in 0..N
        PROVE  f[k] = IF k = 0 THEN {root} \cap Nodes ELSE f[k - 1] \cup Linked(f[k - 1])
    <3>1. f[k] = IF k = 0 THEN first ELSE step[k][f[k - 1]]
      BY <2>2 DEF Solves
    <3>2. CASE k # 0
      <4>1. k \in 1..N /\ f[k - 1] \in V
        BY <1>2, <3>2
      <4>2. step[k][f[k - 1]] = f[k - 1] \cup Linked(f[k - 1])
        BY <4>1
      <4>3. QED BY <3>1, <3>2, <4>2
    <3>3. QED BY <3>1, <3>2
  <2>4. f = Grow(f)
    BY <2>3
  <2>5. QED
    <3> HIDE DEF Grow
    <3>1. QED BY <2>4
<1> HIDE DEF grow, N
<1>4. /\ grow[0] = {root}
      /\ \A k \in 0..N : k # 0 => grow[k] = grow[k - 1] \cup Linked(grow[k - 1])
  <2>1. \A k \in 0..N : grow[k] = IF k = 0 THEN {root} \cap Nodes
                                 ELSE grow[k - 1] \cup Linked(grow[k - 1])
    BY <1>3
  <2>2. 0 \in 0..N
    BY <1>2
  <2>3. QED BY <1>2, <2>1, <2>2
<1> HIDE DEF Grow
<1> DEFINE Stable(k) == Linked(grow[k]) \subseteq grow[k]
           S == {k \in Nat : k <= N =>
                    /\ grow[k] \subseteq Nodes /\ root \in grow[k]
                    /\ \A C \in SUBSET Nodes : Closed(C) => grow[k] \subseteq C
                    /\ Stable(k) \/ Cardinality(grow[k]) >= k + 1}
<1>5. 0 \in S
  <2>1. Cardinality(grow[0]) = 1
    BY <1>4, FS_Singleton
  <2>2. QED BY <1>2, <1>4, <2>1 DEF Closed
<1>6. ASSUME NEW k \in S PROVE k + 1 \in S
  <2>1. SUFFICES ASSUME k + 1 <= N
                 PROVE  /\ grow[k + 1] \subseteq Nodes /\ root \in grow[k + 1]
                        /\ \A C \in SUBSET Nodes : Closed(C) => grow[k + 1] \subseteq C
                        /\ Stable(k + 1) \/ Cardinality(grow[k + 1]) >= k + 2
    OBVIOUS
  <2>2. /\ k \in Nat /\ grow[k] \subseteq Nodes /\ root \in grow[k]
        /\ \A C \in SUBSET Nodes : Closed(C) => grow[k] \subseteq C
        /\ Stable(k) \/ Cardinality(grow[k]) >= k + 1
    BY <1>2, <2>1
  <2>3. grow[k + 1] = grow[k] \cup Linked(grow[k])
    <3>1. k + 1 \in 0..N /\ k + 1 # 0 /\ (k + 1) - 1 = k
      BY <1>2, <2>1, <2>2
    <3>2. QED BY <1>4, <3>1
  <2>4. grow[k + 1] \subseteq Nodes /\ root \in grow[k + 1]
    BY <2>2, <2>3 DEF Linked
  <2>5. ASSUME NEW C \in SUBSET Nodes, Closed(C) PROVE grow[k + 1] \subseteq C
    BY <2>2, <2>3, <2>5 DEF Closed, Linked
  <2>6. CASE Stable(k)
    BY <2>3, <2>4, <2>5, <2>6
  <2>7. CASE ~Stable(k)
    <3>1. IsFiniteSet(grow[k + 1]) /\ grow[k] \in SUBSET grow[k + 1] /\ grow[k] # grow[k + 1]
      BY <2>3, <2>4, <2>7, FS_Subset
    <3>2. /\ Cardinality(grow[k]) <= Cardinality(grow[k + 1])
          /\ Cardinality(grow[k]) # Cardinality(grow[k + 1])
          /\ Cardinality(grow[k]) \in Nat /\ Cardinality(grow[k + 1]) \in Nat
      BY <3>1, FS_Subset, FS_CardinalityType
    <3>3. Cardinality(grow[k + 1]) >= k + 2
      BY <2>2, <2>7, <3>2
    <3>4. QED BY <2>4, <2>5, <3>3
  <2>8. QED BY <2>6, <2>7
<1>7. N \in S
  <2> HIDE DEF S
  <2>1. QED BY <1>2, <1>5, <1>6, SetInduction
<1>8. /\ grow[N] \subseteq Nodes /\ root \in grow[N]
      /\ \A C \in SUBSET Nodes : Closed(C) => grow[N] \subseteq C
      /\ Stable(N) \/ Cardinality(grow[N]) >= N + 1
  BY <1>2, <1>7
<1>9. Cardinality(grow[N]) <= N /\ Cardinality(grow[N]) \in Nat
  BY <1>8, FS_Subset, FS_CardinalityType DEF N
<1>10. Stable(N)
  BY <1>2, <1>8, <1>9
<1>11. Closed(grow[N])
  <2>1. ASSUME NEW n \in grow[N] \ Unreadable, NEW m \in {left[n], right[n]} \ {Nil}
        PROVE  m \in grow[N]
    <3>1. m \in Nodes
      BY <1>8 DEF RegionsTypeOK, Links
    <3>2. QED BY <1>10, <3>1 DEF Linked
  <2>2. QED BY <1>8, <2>1 DEF Closed
<1>12. grow[N] = Reachable
  BY <1>8, <1>11 DEF Reachable
<1>13. QED BY <1>1, <1>12

-----------------------------------------------------------------------------
\* On Linux the regions follow the links of the list from its head; as long as the guest does not
\* rewrite them, no area comes twice.
ListInv ==
    /\ changes = 0 => WellFormed
    /\ os = "linux" =>
          /\ walk \in {"idle", "ready"} => regions = <<>>
          /\ walk = "done" => next = <<>>
          /\ walk \in {"walking", "done"} /\ changes = 0 =>
                /\ \A i \in 1..Len(regions) : regions[i].node \in Nodes \ Unreadable
                /\ regions = <<>> => next = <<root>>
                /\ regions # <<>> =>
                      /\ regions[1].node = root
                      /\ next = IF right[regions[Len(regions)].node] = Nil THEN <<>>
                                ELSE <<right[regions[Len(regions)].node]>>
                /\ \A i \in 1..(Len(regions) - 1) : regions[i + 1].node = right[regions[i].node]
                /\ \A i, j \in 1..Len(regions) : regions[i].node = regions[j].node => i = j

\* The next area is not among the regions, and they are not cut off before it.
LEMMA NextAreaIsNew ==
    ASSUME RegionsTypeOK, ListInv, VisitArea, changes = 0
    PROVE  /\ Top \in Nodes \ Unreadable
           /\ \A i \in 1..Len(regions) : regions[i].node # Top
           /\ Len(regions) < MaxRegions
           /\ regions = <<>> => Top = root
           /\ regions # <<>> => Top = right[regions[Len(regions)].node]
<1> DEFINE node(i) == regions[i].node
           N == Len(regions)
<1>1. /\ N \in Nat /\ Top \in Nodes \ Unreadable /\ next # <<>> /\ WellFormed
      /\ os = "linux" /\ walk = "walking"
  BY PopTakesTop DEF VisitArea, RegionsTypeOK, AreaKnown, ListInv
<1>2. /\ \A i \in 1..N : node(i) \in Nodes
      /\ \A i \in 1..(N - 1) : node(i + 1) = right[node(i)]
      /\ \A i, j \in 1..N : node(i) = node(j) => i = j
  BY <1>1 DEF ListInv
<1>3. regions = <<>> => Top = root
  <2>1. regions = <<>> => next = <<root>>
    BY <1>1 DEF ListInv
  <2>2. next = <<root>> => Len(next) = 1 /\ next[1] = root
    OBVIOUS
  <2>3. QED BY <2>1, <2>2 DEF Top
<1>4. regions # <<>> => /\ N \in 1..N /\ node(1) = root
                        /\ Top = right[node(N)] /\ right[node(N)] # Nil
  <2>1. regions # <<>> => N # 0
    BY EmptySeq DEF RegionsTypeOK
  <2>2. QED BY <1>1, <2>1 DEF ListInv, Top
<1>5. ASSUME NEW i \in 1..N PROVE node(i) # Top
  <2>1. regions # <<>>
    BY <1>1
  <2>2. CASE i = 1
    BY <1>1, <1>2, <1>4, <2>1, <2>2 DEF WellFormed
  <2>3. CASE i # 1
    <3>1. i - 1 \in 1..(N - 1) /\ i - 1 \in 1..N /\ (i - 1) + 1 = i /\ i - 1 # N
      BY <1>1, <2>3
    <3>2. node(i) = right[node(i - 1)] /\ node(i - 1) \in Nodes /\ node(N) \in Nodes
             /\ node(i - 1) # node(N)
      BY <1>2, <1>4, <2>1, <3>1
    <3>3. {left[node(i - 1)], right[node(i - 1)]} \cap {left[node(N)], right[node(N)]} \subseteq {Nil}
      BY <1>1, <3>2 DEF WellFormed
    <3>4. QED BY <1>4, <2>1, <3>2, <3>3
  <2>4. QED BY <2>2, <2>3
<1>6. N < MaxRegions
  <2> DEFINE f == [i \in 1..(N + 1) |-> IF i <= N THEN node(i) ELSE Top]
  <2>1. f \in [1..(N + 1) -> Nodes]
    BY <1>1, <1>2
  <2>2. ASSUME NEW i \in 1..(N + 1), NEW j \in 1..(N + 1), i # j PROVE f[i] # f[j]
    <3>1. i \in 1..N \/ i = N + 1
      BY <1>1
    <3>2. j \in 1..N \/ j = N + 1
      BY <1>1
    <3>3. CASE i \in 1..N /\ j \in 1..N
      <4>1. f[i] = node(i) /\ f[j] = node(j)
        BY <1>1, <3>3
      <4>2. QED BY <1>2, <2>2, <3>3, <4>1
    <3>4. CASE i \in 1..N /\ j = N + 1
      <4>1. f[i] = node(i) /\ f[j] = Top
        BY <1>1, <3>4
      <4>2. QED BY <1>5, <3>4, <4>1
    <3>5. CASE i = N + 1 /\ j \in 1..N
      <4>1. f[i] = Top /\ f[j] = node(j)
        BY <1>1, <3>5
      <4>2. QED BY <1>5, <3>5, <4>1
    <3>6. QED BY <2>2, <3>1, <3>2, <3>3, <3>4, <3>5
  <2>3. IsFiniteSet(1..(N + 1)) /\ Cardinality(1..(N + 1)) = N + 1
    BY <1>1, FS_Interval
  <2>4. IsFiniteSet(Nodes) /\ Cardinality(Nodes) \in Nat /\ Cardinality(Nodes) <= MaxRegions
           /\ MaxRegions \in Nat
    BY RegionsAssumption, FS_CardinalityType DEF RegionsAssumption
  <2> HIDE DEF f
  <2>5. ~(Cardinality(Nodes) < Cardinality(1..(N + 1)))
    BY <2>1, <2>2, <2>3, <2>4, FS_PigeonHole
  <2>6. QED BY <1>1, <2>3, <2>4, <2>5
<1>7. QED BY <1>1, <1>3, <1>4, <1>5, <1>6

\* The list, in every step
LEMMA ListStep == RegionsTypeOK /\ ListInv /\ [RegionsNext]_regionVars => ListInv'
<1> SUFFICES ASSUME RegionsTypeOK, ListInv, [RegionsNext]_regionVars PROVE ListInv'
  OBVIOUS
<1>1. os' = os /\ root' = root
  BY DEF RegionsNext, WalkStep, ReadProtections, ReadProtectionsFails, BeginTree, SkipVisited,
     SkipUnreadable, VisitNode, EndOfTree, BeginList, VisitArea, ListFails, EndOfList, Rewrite,
     regionVars, guest
<1>2. changes' = 0 => WellFormed'
  <2>1. ASSUME NEW n \in Nodes, NEW m \in Links, Rewrite(n, m) PROVE changes' # 0
    BY <2>1 DEF Rewrite, RegionsTypeOK
  <2>2. CASE \A n \in Nodes, m \in Links : ~Rewrite(n, m)
    <3>1. UNCHANGED <<os, left, right, root, changes>>
      BY <2>2 DEF RegionsNext, WalkStep, ReadProtections, ReadProtectionsFails, BeginTree,
         SkipVisited, SkipUnreadable, VisitNode, EndOfTree, BeginList, VisitArea, ListFails,
         EndOfList, regionVars, guest
    <3>2. QED BY <3>1 DEF ListInv, WellFormed
  <2>3. QED BY <2>1, <2>2
<1>3. SUFFICES ASSUME os = "linux"
               PROVE  /\ walk' \in {"idle", "ready"} => regions' = <<>>
                      /\ walk' = "done" => next' = <<>>
                      /\ walk' \in {"walking", "done"} /\ changes' = 0 =>
                            /\ \A i \in 1..Len(regions') : regions'[i].node \in Nodes \ Unreadable
                            /\ regions' = <<>> => next' = <<root>>
                            /\ regions' # <<>> =>
                                  /\ regions'[1].node = root
                                  /\ next' = IF right'[regions'[Len(regions')].node] = Nil THEN <<>>
                                             ELSE <<right'[regions'[Len(regions')].node]>>
                            /\ \A i \in 1..(Len(regions') - 1) :
                                  regions'[i + 1].node = right'[regions'[i].node]
                            /\ \A i, j \in 1..Len(regions') :
                                  regions'[i].node = regions'[j].node => i = j
  BY <1>1, <1>2 DEF ListInv
<1>4. CASE BeginList
  <2>1. regions' = <<>> /\ next' = <<root>> /\ walk' = "walking"
    BY <1>3, <1>4 DEF BeginList, ListInv
  <2>2. QED BY <2>1
<1>5. CASE VisitArea
  <2>1. walk = "walking" /\ walk' = "walking" /\ changes' = changes /\ right' = right
    BY <1>5 DEF VisitArea, guest
  <2>2. CASE changes # 0
    BY <2>1, <2>2
  <2>3. CASE changes = 0
    <3> DEFINE N == Len(regions)
               area == AreaRegion(Top)
    <3>1. /\ Top \in Nodes \ Unreadable
          /\ \A i \in 1..N : regions[i].node # Top
          /\ N < MaxRegions
          /\ regions = <<>> => Top = root
          /\ regions # <<>> => Top = right[regions[N].node]
      BY <1>5, <2>3, NextAreaIsNew
    <3>2. /\ regions \in Seq(RegionRecords) /\ N \in Nat
      BY DEF RegionsTypeOK
    <3>3. area.node = Top
      BY DEF AreaRegion
    <3>4. regions' = Append(regions, area)
      BY <1>5, <3>1 DEF VisitArea
    <3> HIDE DEF area
    <3>5. /\ Len(regions') = N + 1
          /\ \A i \in 1..N : regions'[i] = regions[i]
          /\ regions'[N + 1].node = Top
      BY <3>2, <3>3, <3>4
    <3>6. next' = IF right[Top] = Nil THEN <<>> ELSE <<right[Top]>>
      BY <1>5 DEF VisitArea
    <3>7. /\ \A i \in 1..N : regions[i].node \in Nodes \ Unreadable
          /\ regions # <<>> => regions[1].node = root
          /\ \A i \in 1..(N - 1) : regions[i + 1].node = right[regions[i].node]
          /\ \A i, j \in 1..N : regions[i].node = regions[j].node => i = j
      BY <1>3, <2>1, <2>3 DEF ListInv
    <3>8. N = 0 <=> regions = <<>>
      BY <3>2, EmptySeq
    <3>9. regions' # <<>> /\ regions'[1].node = root
      <4>1. CASE N = 0
        BY <3>1, <3>5, <3>8, <4>1
      <4>2. CASE N # 0
        <5>1. 1 \in 1..N
          BY <3>2, <4>2
        <5>2. QED BY <3>2, <3>5, <3>7, <3>8, <5>1
      <4>3. QED BY <4>1, <4>2
    <3>10. \A i \in 1..Len(regions') : i \in 1..N \/ i = N + 1
      BY <3>2, <3>5
    <3>11. \A i \in 1..Len(regions') : regions'[i].node \in Nodes \ Unreadable
      BY <3>1, <3>5, <3>7, <3>10
    <3>12. ASSUME NEW i \in 1..(Len(regions') - 1) PROVE regions'[i + 1].node = right'[regions'[i].node]
      <4>1. CASE i = N
        <5>1. regions'[i] = regions[N] /\ regions'[i + 1].node = Top /\ regions # <<>>
          BY <3>2, <3>5, <3>8, <4>1
        <5>2. QED BY <2>1, <3>1, <5>1
      <4>2. CASE i # N
        <5>1. i \in 1..(N - 1) /\ i \in 1..N /\ i + 1 \in 1..N
          BY <3>2, <3>5, <4>2
        <5>2. QED BY <2>1, <3>5, <3>7, <5>1
      <4>3. QED BY <4>1, <4>2
    <3>13. \A i, j \in 1..Len(regions') : regions'[i].node = regions'[j].node => i = j
      <4>1. SUFFICES ASSUME NEW i \in 1..Len(regions'), NEW j \in 1..Len(regions'),
                            regions'[i].node = regions'[j].node
                     PROVE  i = j
        OBVIOUS
      <4>2. CASE i \in 1..N /\ j \in 1..N
        BY <3>5, <3>7, <4>1, <4>2
      <4>3. CASE i \in 1..N /\ j = N + 1
        BY <3>1, <3>5, <4>1, <4>3
      <4>4. CASE i = N + 1 /\ j \in 1..N
        BY <3>1, <3>5, <4>1, <4>4
      <4>5. QED BY <3>10, <4>2, <4>3, <4>4
    <3>14. next' = IF right'[regions'[Len(regions')].node] = Nil THEN <<>>
                   ELSE <<right'[regions'[Len(regions')].node]>>
      BY <2>1, <3>5, <3>6
    <3>15. QED BY <2>1, <3>9, <3>11, <3>12, <3>13, <3>14
  <2>4. QED BY <2>2, <2>3
<1>6. CASE ListFails
  BY <1>6 DEF ListFails
<1>7. CASE EndOfList
  BY <1>3, <1>7 DEF EndOfList, ListInv, guest
<1>8. CASE \/ ReadProtections \/ ReadProtectionsFails \/ BeginTree \/ SkipVisited \/ SkipUnreadable
           \/ VisitNode \/ EndOfTree
  BY <1>3, <1>8 DEF ReadProtections, ReadProtectionsFails, BeginTree, SkipVisited, SkipUnreadable,
     VisitNode, EndOfTree
<1>9. ASSUME NEW n \in Nodes, NEW m \in Links, Rewrite(n, m)
      PROVE  changes' # 0 /\ walk = "walking" /\ walk' = walk
  BY <1>9 DEF Rewrite, RegionsTypeOK
<1>10. CASE UNCHANGED regionVars
  BY <1>3, <1>10 DEF regionVars, ListInv
<1>11. QED BY <1>4, <1>5, <1>6, <1>7, <1>8, <1>9, <1>10 DEF RegionsNext, WalkStep

\* What the walk of a list returns if it comes to its end: the areas that can be reached
LEMMA ListReturnsReachable ==
    ASSUME RegionsTypeOK, ListInv, os = "linux", walk = "done", changes = 0
    PROVE  {regions[i].node : i \in 1..Len(regions)} = Reachable \ Unreadable
<1> DEFINE N == Len(regions)
           V == {regions[i].node : i \in 1..N}
<1>1. N \in Nat /\ WellFormed
  BY DEF RegionsTypeOK, ListInv
<1>2. /\ next = <<>>
      /\ \A i \in 1..N : regions[i].node \in Nodes \ Unreadable
      /\ regions = <<>> => next = <<root>>
      /\ regions # <<>> => /\ regions[1].node = root
                           /\ next = IF right[regions[N].node] = Nil THEN <<>>
                                     ELSE <<right[regions[N].node]>>
      /\ \A i \in 1..(N - 1) : regions[i + 1].node = right[regions[i].node]
  BY DEF ListInv
<1>3. regions # <<>> /\ N \in 1..N /\ 1 \in 1..N /\ right[regions[N].node] = Nil
  <2>1. <<root>> # <<>>
    OBVIOUS
  <2>2. regions # <<>>
    BY <1>2, <2>1
  <2>3. N # 0
    BY <2>2, EmptySeq DEF RegionsTypeOK
  <2>4. \A x : <<x>> # <<>>
    OBVIOUS
  <2>5. QED BY <1>1, <1>2, <2>2, <2>3, <2>4
<1>4. Closed(V)
  <2>1. root \in V
    BY <1>2, <1>3
  <2>2. ASSUME NEW i \in 1..N, NEW m \in {left[regions[i].node], right[regions[i].node]} \ {Nil}
        PROVE  m \in V
    <3>1. m = right[regions[i].node]
      BY <1>1, <1>2 DEF WellFormed
    <3>2. i # N
      BY <1>3, <3>1
    <3>3. i \in 1..(N - 1) /\ i + 1 \in 1..N
      BY <1>1, <3>2
    <3>4. QED BY <1>2, <3>1, <3>3
  <2>3. QED BY <2>1, <2>2 DEF Closed
<1>5. ASSUME NEW C \in SUBSET Nodes, Closed(C) PROVE V \subseteq C
  <2> DEFINE S == {i \in Nat : i \in 1..N => regions[i].node \in C}
  <2>1. 0 \in S
    OBVIOUS
  <2>2. ASSUME NEW i \in S PROVE i + 1 \in S
    <3>1. SUFFICES ASSUME i + 1 \in 1..N PROVE regions[i + 1].node \in C
      OBVIOUS
    <3>2. CASE i = 0
      BY <1>2, <1>3, <1>5, <3>2 DEF Closed
    <3>3. CASE i # 0
      <4>1. i \in 1..(N - 1) /\ i \in 1..N
        BY <1>1, <3>1, <3>3
      <4>2. regions[i].node \in C \ Unreadable /\ regions[i + 1].node = right[regions[i].node]
        BY <1>2, <4>1
      <4>3. regions[i + 1].node # Nil
        BY <1>2, <3>1, RegionsAssumption DEF RegionsAssumption
      <4>4. QED BY <1>5, <4>2, <4>3 DEF Closed
    <3>4. QED BY <3>2, <3>3
  <2>3. Nat \subseteq S
    <3> HIDE DEF S
    <3>1. QED BY <2>1, <2>2, SetInduction
  <2>4. QED BY <2>3
<1>6. V = Reachable
  BY <1>2, <1>4, <1>5 DEF Reachable
<1>7. QED BY <1>2, <1>6

\* VadTreeWin10.cpp:25-101, MMExtractor.cpp:19-64: if the guest leaves its links alone, the regions are
\* those of the nodes that can be reached over readable ones, in a tree that can be described.
THEOREM WalkIsComplete == Spec => []WalkComplete
<1>1. Init => ListInv
  BY DEF Init, RegionsInit, ListInv
<1>2. RegionsTypeOK /\ ListInv /\ ReachableReturned => WalkComplete
  <2> SUFFICES ASSUME RegionsTypeOK, ListInv, ReachableReturned, walk = "done", changes = 0
               PROVE  {regions[i].node : i \in 1..Len(regions)} =
                        {n \in Below(root) \ Unreadable : os = "windows" => Describable(n)}
    BY DEF WalkComplete
  <2>1. Below(root) = Reachable
    BY BelowIsReachable
  <2>2. CASE os = "windows"
    BY <2>1, <2>2 DEF ReachableReturned
  <2>3. CASE os # "windows"
    <3>1. os = "linux"
      BY <2>3 DEF RegionsTypeOK
    <3>2. QED BY <2>1, <3>1, ListReturnsReachable
  <2>4. QED BY <2>2, <2>3
<1>3. QED BY <1>1, <1>2, ListStep, RegionsTyping, WalkReturnsReachable, StepsOfWalk, PTL DEF Spec

-----------------------------------------------------------------------------
\* What is left of the walk over a tree: each node that has not been seen yet may still be taken from
\* the stack once, and may put two others there.
Remaining == 3 * Cardinality(Nodes \ visited) + Len(next)

\* A node that is visited for the first time leaves fewer to visit.
LEMMA VisitLeavesFewer ==
    ASSUME RegionsTypeOK, Top \in Nodes, ~Visited(Top), visited' = visited \cup {Top}
    PROVE  /\ Cardinality(Nodes \ visited) \in Nat
           /\ Cardinality(Nodes \ visited') = Cardinality(Nodes \ visited) - 1
<1>1. IsFiniteSet(Nodes \ visited)
  BY RegionsAssumption, FS_Difference DEF RegionsAssumption
<1>2. Nodes \ visited' = (Nodes \ visited) \ {Top} /\ Top \in Nodes \ visited
  BY DEF Visited
<1>3. QED BY <1>1, <1>2, FS_RemoveElement, FS_CardinalityType

\* VadTreeWin10.cpp:25-101: whatever the guest makes of its links meanwhile, and however often, cycles
\* included, every step of the walk over a tree ends it or brings it closer to its end, and no
\* rewrite of the guest takes it back.
THEOREM WalkMakesProgress ==
  Spec => /\ [](Remaining \in Nat)
          /\ [][os = "windows" /\ walk = "walking" =>
                    \/ Remaining' < Remaining
                    \/ Remaining' = Remaining /\ (WalkStep => walk' = "done")]_regionVars
<1>1. RegionsTypeOK => Remaining \in Nat
  <2> SUFFICES ASSUME RegionsTypeOK PROVE Remaining \in Nat
    OBVIOUS
  <2>1. Cardinality(Nodes \ visited) \in Nat
    BY RegionsAssumption, FS_Difference, FS_CardinalityType DEF RegionsAssumption
  <2>2. QED BY <2>1, LenProperties DEF Remaining, RegionsTypeOK
<1>2. RegionsTypeOK /\ [RegionsNext]_regionVars =>
        [os = "windows" /\ walk = "walking" =>
             \/ Remaining' < Remaining
             \/ Remaining' = Remaining /\ (WalkStep => walk' = "done")]_regionVars
  <2> SUFFICES ASSUME RegionsTypeOK, RegionsNext, os = "windows", walk = "walking"
               PROVE  \/ Remaining' < Remaining
                      \/ Remaining' = Remaining /\ (WalkStep => walk' = "done")
    OBVIOUS
  <2> DEFINE unseen == Cardinality(Nodes \ visited)
  <2>1. next \in Seq(Nodes) /\ unseen \in Nat /\ Len(next) \in Nat
    BY RegionsAssumption, FS_Difference, FS_CardinalityType, LenProperties
       DEF RegionsAssumption, RegionsTypeOK
  <2>2. CASE SkipVisited
    <3>1. next' = Pop /\ visited' = visited /\ Len(Pop) = Len(next) - 1
      BY <2>1, <2>2, PopTakesTop DEF SkipVisited
    <3>2. QED BY <2>1, <3>1 DEF Remaining
  <2>3. CASE SkipUnreadable
    <3>1. next' = Pop /\ Len(Pop) = Len(next) - 1 /\ Top \in Nodes
          /\ ~Visited(Top) /\ visited' = visited \cup {Top}
      BY <2>1, <2>3, PopTakesTop DEF SkipUnreadable
    <3>2. unseen' = unseen - 1
      BY <3>1, VisitLeavesFewer
    <3>3. QED BY <2>1, <3>1, <3>2 DEF Remaining
  <2>4. CASE VisitNode
    <3>1. next' = Pop \o Children(Top) /\ Pop \in Seq(Nodes) /\ Len(Pop) = Len(next) - 1
          /\ Top \in Nodes /\ ~Visited(Top) /\ visited' = visited \cup {Top}
      BY <2>1, <2>4, PopTakesTop DEF VisitNode
    <3>2. unseen' = unseen - 1
      BY <3>1, VisitLeavesFewer
    <3>3. Children(Top) \in Seq(Nodes) /\ Len(Children(Top)) \in 0..2
      <4>1. Children(Top) \in Seq(Nodes)
        BY <3>1, ChildrenAreLinks DEF RegionsTypeOK
      <4>2. \A link \in Links : NodeAt(link) \in Seq(Nodes) /\ Len(NodeAt(link)) \in 0..1
        BY DEF NodeAt, Links
      <4>3. left[Top] \in Links /\ right[Top] \in Links
        BY <3>1 DEF RegionsTypeOK
      <4>4. Len(Children(Top)) = Len(NodeAt(left[Top])) + Len(NodeAt(right[Top]))
        BY <4>2, <4>3, ConcatProperties DEF Children
      <4>5. Len(NodeAt(left[Top])) \in 0..1 /\ Len(NodeAt(right[Top])) \in 0..1
        BY <4>2, <4>3
      <4>6. Len(Children(Top)) \in 0..2
        <5> DEFINE a == Len(NodeAt(left[Top]))
                   b == Len(NodeAt(right[Top]))
                   c == Len(Children(Top))
        <5>1. c = a + b /\ a \in 0..1 /\ b \in 0..1
          BY <4>4, <4>5
        <5> HIDE DEF a, b, c
        <5>2. c \in 0..2
          BY <5>1
        <5>3. QED BY <5>2 DEF c
      <4>7. QED BY <4>1, <4>6
    <3>4. Len(next') = Len(Pop) + Len(Children(Top))
      BY <3>1, <3>3, ConcatProperties
    <3> DEFINE pushed == Len(Children(Top))
    <3>5. Len(next') = Len(next) - 1 + pushed /\ pushed \in 0..2
      BY <3>1, <3>3, <3>4
    <3> HIDE DEF pushed
    <3>6. Len(next') \in 0..(Len(next) + 1)
      BY <2>1, <3>5
    <3>7. Remaining' = 3 * unseen' + Len(next') /\ Remaining = 3 * unseen + Len(next)
      BY DEF Remaining
    <3>8. QED BY <2>1, <3>2, <3>6, <3>7
  <2>5. CASE EndOfTree
    BY <2>5 DEF EndOfTree, Remaining
  <2>6. ASSUME NEW n \in Nodes, NEW m \in Links, Rewrite(n, m)
        PROVE  Remaining' = Remaining /\ ~WalkStep
    <3>1. UNCHANGED <<next, visited>> /\ changes' = changes + 1
      BY <2>6 DEF Rewrite
    <3>2. changes \in Nat
      BY RegionsAssumption DEF RegionsTypeOK, RegionsAssumption
    <3>3. ~WalkStep
      BY <3>1, <3>2 DEF WalkStep, ReadProtections, BeginTree, SkipVisited, SkipUnreadable,
         VisitNode, EndOfTree, BeginList, VisitArea, ListFails, EndOfList
    <3>4. QED BY <3>1, <3>3 DEF Remaining
  <2>7. QED BY <2>2, <2>3, <2>4, <2>5, <2>6 DEF RegionsNext, WalkStep, ReadProtections, BeginTree,
               ReadProtectionsFails, BeginList, VisitArea, ListFails, EndOfList
<1>3. QED BY <1>1, <1>2, RegionsTyping, StepsOfWalk, PTL DEF Spec

-----------------------------------------------------------------------------
(* The configuration *)

\* The sequence s has x.
Has(s, x) == \E e \in 1..Len(s) : s[e] = x

\* What a sequence has stays when another is appended, and what that one has is added.
LEMMA HasBoth ==
    ASSUME NEW X, NEW s \in Seq(X), NEW t \in Seq(X), NEW x, Has(s, x) \/ Has(t, x)
    PROVE  Has(s \o t, x)
<1>1. /\ Len(s) \in Nat /\ Len(t) \in Nat /\ Len(s \o t) = Len(s) + Len(t)
      /\ \A i \in 1..Len(s) : (s \o t)[i] = s[i]
      /\ \A i \in 1..Len(t) : (s \o t)[Len(s) + i] = t[i]
  BY ConcatProperties
<1> DEFINE both == s \o t
<1> HIDE DEF both
<1>2. CASE Has(s, x)
  <2>1. PICK e \in 1..Len(s) : s[e] = x
    BY <1>2 DEF Has
  <2>2. e \in 1..Len(both) /\ both[e] = x
    BY <1>1, <2>1 DEF both
  <2>3. QED BY <2>2 DEF Has, both
<1>3. CASE Has(t, x)
  <2>1. PICK e \in 1..Len(t) : t[e] = x
    BY <1>3 DEF Has
  <2>2. Len(s) + e \in 1..Len(both) /\ both[Len(s) + e] = x
    BY <1>1, <2>1 DEF both
  <2>3. QED BY <2>2 DEF Has, both
<1>4. QED BY <1>2, <1>3

\* The functions that a profile lists are the entries that parseProfile makes of it, and it makes a
\* sequence of them.
LEMMA ParsedProfile ==
    ASSUME NEW node, node.modules \in Seq(Elements(node.modules)),
           \A m \in Elements(node.modules) : m.functions \in Seq(Elements(m.functions))
    PROVE  /\ \E X : parseProfile(node) \in Seq(X)
           /\ \A k \in DOMAIN node.modules : \A l \in DOMAIN node.modules[k].functions :
                 Has(parseProfile(node),
                     [module |-> node.modules[k].name, function |-> node.modules[k].functions[l]])
<1> DEFINE N == Len(node.modules)
           T(k) == TracedFunctions(node.modules[k])
           X == UNION {Elements(TracedFunctions(m)) : m \in Elements(node.modules)}
           V == Seq(X)
           Parse(f) == [k \in 0..N |-> IF k = 0 THEN <<>> ELSE f[k - 1] \o T(k)]
           parsed == CHOOSE f : f = Parse(f)
<1>1. parseProfile(node) = parsed[N]
  BY DEF parseProfile
<1>2. N \in Nat /\ DOMAIN node.modules = 1..N
  OBVIOUS
<1>3. ASSUME NEW k \in 1..N
      PROVE  /\ T(k) \in V
             /\ \A l \in DOMAIN node.modules[k].functions :
                   Has(T(k), [module |-> node.modules[k].name,
                              function |-> node.modules[k].functions[l]])
  <2> DEFINE m == node.modules[k]
  <2>1. m \in Elements(node.modules)
    BY <1>2 DEF Elements
  <2> HIDE DEF m
  <2>2. DOMAIN m.functions = 1..Len(m.functions) /\ Len(m.functions) \in Nat
    BY <2>1
  <2>3. TracedFunctions(m) = [j \in 1..Len(m.functions) |->
                                 [module |-> m.name, function |-> m.functions[j]]]
    BY <2>2 DEF TracedFunctions
  <2>4. \A j \in 1..Len(m.functions) : TracedFunctions(m)[j] \in X
    BY <2>1, <2>3 DEF Elements
  <2>5. TracedFunctions(m) \in Seq(X) /\ Len(TracedFunctions(m)) = Len(m.functions)
    <3> DEFINE n == Len(m.functions)
               s == TracedFunctions(m)
    <3> HIDE DEF X
    <3>1. n \in Nat /\ s = [j \in 1..n |-> s[j]]
      BY <2>2, <2>3
    <3> HIDE DEF s, n
    <3>2. \A j \in 1..n : s[j] \in X
      BY <2>4 DEF s, n
    <3>3. s \in Seq(X) /\ Len(s) = n
      BY <3>1, <3>2
    <3>4. QED BY <3>3 DEF s, n
  <2>6. \A l \in 1..Len(m.functions) :
            Has(TracedFunctions(m), [module |-> m.name, function |-> m.functions[l]])
    BY <2>2, <2>3, <2>5 DEF Has
  <2>7. QED BY <2>2, <2>5, <2>6 DEF m
<1> HIDE DEF T, X
<1>4. parsed = Parse(parsed)
  <2> DEFINE step == [k \in 1..N |-> [s \in V |-> s \o T(k)]]
  <2>1. <<>> \in V /\ step \in [1..N -> [V -> V]]
    BY <1>3, ConcatProperties
  <2>2. PICK f \in [0..N -> V] : Solves(f, N, <<>>, step)
    <3> HIDE DEF V, step, N
    <3>1. QED BY <1>2, <2>1, RecursiveFunction
  <2>3. ASSUME NEW k \in 0..N PROVE f[k] = IF k = 0 THEN <<>> ELSE f[k - 1] \o T(k)
    <3>1. f[k] = IF k = 0 THEN <<>> ELSE step[k][f[k - 1]]
      BY <2>2 DEF Solves
    <3>2. CASE k # 0
      <4>1. k \in 1..N /\ f[k - 1] \in V
        BY <1>2, <3>2
      <4>2. step[k][f[k - 1]] = f[k - 1] \o T(k)
        BY <4>1
      <4>3. QED BY <3>1, <3>2, <4>2
    <3>3. QED BY <3>1, <3>2
  <2>4. f = Parse(f)
    BY <2>3
  <2>5. QED
    <3> HIDE DEF Parse
    <3>1. QED BY <2>4
<1> HIDE DEF parsed, N
<1>5. parsed[0] = <<>> /\ \A k \in 1..N : parsed[k] = parsed[k - 1] \o T(k)
  <2>1. \A k \in 0..N : parsed[k] = IF k = 0 THEN <<>> ELSE parsed[k - 1] \o T(k)
    BY <1>4
  <2>2. 0 \in 0..N /\ \A k \in 1..N : k \in 0..N /\ k # 0
    BY <1>2
  <2>3. QED BY <2>1, <2>2
<1> HIDE DEF Parse
<1> DEFINE x(i, l) == [module |-> node.modules[i].name, function |-> node.modules[i].functions[l]]
           Good(k) == /\ parsed[k] \in V
                      /\ \A i \in 1..k : \A l \in DOMAIN node.modules[i].functions : Has(parsed[k], x(i, l))
           S == {k \in Nat : k <= N => Good(k)}
<1>6. Good(0)
  BY <1>5
<1>7. ASSUME NEW k \in Nat, k + 1 <= N, Good(k) PROVE Good(k + 1)
  <2>1. k + 1 \in 1..N /\ (k + 1) - 1 = k
    BY <1>2, <1>7
  <2>2. parsed[k + 1] = parsed[k] \o T(k + 1) /\ T(k + 1) \in V
    BY <1>3, <1>5, <2>1
  <2>3. parsed[k + 1] \in V
    BY <1>7, <2>2, ConcatProperties
  <2>4. ASSUME NEW i \in 1..(k + 1), NEW l \in DOMAIN node.modules[i].functions
        PROVE  Has(parsed[k + 1], x(i, l))
    <3>1. Has(parsed[k], x(i, l)) \/ Has(T(k + 1), x(i, l))
      <4>1. i \in 1..k \/ i = k + 1
        BY <1>7
      <4>2. CASE i \in 1..k
        BY <1>7, <4>2
      <4>3. CASE i = k + 1
        BY <1>3, <2>1, <4>3
      <4>4. QED BY <4>1, <4>2, <4>3
    <3> HIDE DEF x
    <3>2. Has(parsed[k] \o T(k + 1), x(i, l))
      BY <1>7, <2>2, <3>1, HasBoth
    <3>3. QED BY <2>2, <3>2
  <2>5. QED BY <2>3, <2>4
<1> HIDE DEF Good
<1>8. N \in S
  <2>1. 0 \in S /\ \A k \in S \cap Nat : k + 1 \in S
    BY <1>2, <1>6, <1>7
  <2> HIDE DEF S
  <2>2. QED BY <1>2, <2>1, SetInduction
<1>9. parsed[N] \in V /\ \A i \in 1..N : \A l \in DOMAIN node.modules[i].functions : Has(parsed[N], x(i, l))
  <2>1. Good(N)
    BY <1>2, <1>8
  <2>2. QED BY <2>1 DEF Good
<1>10. QED BY <1>1, <1>2, <1>9, Zenon

\* A non-empty set of naturals has a first element; one that ends has a last one.
LEMMA FirstIsLeast ==
    ASSUME NEW S, S \subseteq Nat, S # {}
    PROVE  First(S) \in S /\ \A j \in S : First(S) <= j
BY LeastElement DEF First

\* A non-empty set of positions of the profiles has a last one.
LEMMA LastExists ==
    ASSUME NEW S, S \subseteq DOMAIN ProfileNodes, S # {}
    PROVE  Last0(S) \in S /\ \A j \in S : j <= Last0(S)
<1> DEFINE N == Len(ProfileNodes)
           T == {n \in Nat : \A j \in S : j <= n}
<1>1. N \in Nat /\ DOMAIN ProfileNodes = 1..N
  BY ConfigAssumption DEF ConfigAssumption
<1>2. S \subseteq 1..N /\ N \in T
  BY <1>1
<1>3. PICK n \in T : \A t \in T : n <= t
  <2> HIDE DEF T
  <2>1. T \subseteq Nat
    BY DEF T
  <2>2. QED BY <1>2, <2>1, LeastElement
<1> HIDE DEF N
<1>4. n \in Nat /\ \A j \in S : j <= n
  OBVIOUS
<1>5. n \in S
  <2>1. SUFFICES ASSUME n \notin S PROVE FALSE
    OBVIOUS
  <2>2. \A j \in S : j \in Nat /\ j <= n /\ j # n /\ 1 <= j
    BY <1>1, <1>2, <1>4, <2>1
  <2>3. n - 1 \in Nat /\ \A j \in S : j <= n - 1
    BY <1>4, <2>2
  <2>4. n - 1 \in T
    BY <2>3
  <2>5. QED BY <1>3, <1>4, <2>4
<1>6. QED BY <1>4, <1>5 DEF Last0

Target == IF NamedProcess = Unnamed THEN TargetNodes
          ELSE Append(TargetNodes, [process |-> NamedProcess, profile |-> Unnamed])

\* The profile of a process: the one that its first entry names, or "default".
LEMMA ProfileOfProcess ==
    ASSUME NEW p, HasProfile(p)
    PROVE  LET entries == {i \in DOMAIN TargetNodes : TargetNodes[i].process = p}
               named   == IF entries = {} THEN Unnamed ELSE TargetNodes[First(entries)].profile
           IN  processTracingProfiles[p] = ProfileNamed(IF named = Unnamed THEN "default" ELSE named)
<1> DEFINE entries == {i \in DOMAIN TargetNodes : TargetNodes[i].process = p}
           named   == IF entries = {} THEN Unnamed ELSE TargetNodes[First(entries)].profile
           found   == {i \in DOMAIN Target : Target[i].process = p}
           N       == Len(TargetNodes)
<1>1. N \in Nat /\ DOMAIN TargetNodes = 1..N
  BY ConfigAssumption DEF ConfigAssumption
<1>2. /\ found # {}
      /\ processTracingProfiles[p] =
            ProfileNamed(IF Target[First(found)].profile = Unnamed THEN "default"
                         ELSE Target[First(found)].profile)
  BY DEF HasProfile, processTracingProfiles, TargetsIn, Target
<1>3. \/ Target = TargetNodes
      \/ /\ DOMAIN Target = 1..(N + 1)
         /\ \A i \in 1..N : Target[i] = TargetNodes[i]
         /\ Target[N + 1].profile = Unnamed
  <2>1. CASE NamedProcess = Unnamed
    BY <2>1 DEF Target
  <2>2. CASE NamedProcess # Unnamed
    <3> DEFINE r == [process |-> NamedProcess, profile |-> Unnamed]
               X == Elements(TargetNodes) \cup {r}
    <3>1. r.profile = Unnamed
      OBVIOUS
    <3>2. TargetNodes \in Seq(Elements(TargetNodes))
      BY ConfigAssumption DEF ConfigAssumption
    <3> HIDE DEF r
    <3>3. /\ Len(Append(TargetNodes, r)) = N + 1
          /\ \A i \in 1..N : Append(TargetNodes, r)[i] = TargetNodes[i]
          /\ Append(TargetNodes, r)[N + 1] = r
          /\ DOMAIN Append(TargetNodes, r) = 1..(N + 1)
      BY <1>1, <3>2
    <3>4. Target = Append(TargetNodes, r)
      BY <2>2 DEF Target, r
    <3>5. QED BY <3>1, <3>3, <3>4
  <2>3. QED BY <2>1, <2>2
<1> HIDE DEF N
<1>4. found \subseteq Nat /\ entries \subseteq Nat /\ N + 1 \notin entries
  BY <1>1, <1>3
<1>5. First(found) \in found /\ \A j \in found : First(found) <= j
  <2> HIDE DEF found
  <2>1. QED BY <1>2, <1>4, FirstIsLeast
<1>6. entries # {} => First(entries) \in entries /\ \A j \in entries : First(entries) <= j
  <2> HIDE DEF entries
  <2>1. QED BY <1>4, FirstIsLeast
<1>7. Target[First(found)].profile = named
  <2> DEFINE a == First(found)
             b == First(entries)
  <2> HIDE DEF a, b
  <2>1. CASE entries # {}
    <3>1. b \in found /\ b \in 1..N /\ Target[b] = TargetNodes[b]
      BY <1>1, <1>3, <1>6, <2>1 DEF b
    <3>2. a <= b /\ a \in Nat /\ b \in Nat /\ a \in found
      BY <1>1, <1>4, <1>5, <3>1 DEF a
    <3>3. a \in entries
      BY <1>1, <1>3, <3>1, <3>2
    <3>4. b <= a
      BY <1>6, <2>1, <3>3 DEF b
    <3>5. a = b
      BY <3>2, <3>4
    <3>6. QED BY <2>1, <3>1, <3>5 DEF a, b
  <2>2. CASE entries = {}
    <3>1. a \in found
      BY <1>5 DEF a
    <3>2. a = N + 1 /\ Target[a].profile = Unnamed
      BY <1>1, <1>3, <2>2, <3>1
    <3>3. QED BY <2>2, <3>2 DEF a
  <2>3. QED BY <2>1, <2>2
<1>8. QED BY <1>2, <1>7

\* The profile of a name that the file has
LEMMA ProfileOfName ==
    ASSUME NEW i \in DOMAIN ProfileNodes,
           \A j \in DOMAIN ProfileNodes : ProfileNodes[j].name = ProfileNodes[i].name => j <= i
    PROVE  ProfileNamed(ProfileNodes[i].name) = parseProfile(ProfileNodes[i])
<1> DEFINE n == ProfileNodes[i].name
           S == {j \in DOMAIN ProfileNodes : ProfileNodes[j].name = n}
<1>1. S \subseteq Nat
  BY ConfigAssumption DEF ConfigAssumption
<1>2. i \in S /\ \A j \in S : j <= i
  OBVIOUS
<1>3. Last0(S) = i
  <2> HIDE DEF S
  <2>1. Last0(S) \in S /\ \A j \in S : j <= Last0(S)
    BY <1>2 DEF Last0
  <2> DEFINE a == Last0(S)
  <2>2. a \in Nat /\ i \in Nat /\ a <= i /\ i <= a
    BY <1>1, <1>2, <2>1
  <2> HIDE DEF a
  <2>3. a = i
    BY <2>2
  <2>4. QED BY <2>3 DEF a
<1>4. n \in DOMAIN profiles /\ profiles[n] = parseProfile(ProfileNodes[Last0(S)])
  BY DEF profiles
<1>5. QED BY <1>3, <1>4 DEF ProfileNamed

\* A function that the file lists for a process is an entry of its profile.
LEMMA ListedIsTraced ==
    ASSUME NEW p, NEW m, NEW f, HasProfile(p), Lists(p, m, f)
    PROVE  Has(processTracingProfiles[p], [module |-> m, function |-> f])
<1> DEFINE entries == {i \in DOMAIN TargetNodes : TargetNodes[i].process = p}
           named   == IF entries = {} THEN Unnamed ELSE TargetNodes[First(entries)].profile
           name    == IF named = Unnamed THEN "default" ELSE named
<1>1. processTracingProfiles[p] = ProfileNamed(name)
  BY ProfileOfProcess
<1>2. PICK i \in DOMAIN ProfileNodes :
         /\ ProfileNodes[i].name = name
         /\ \A j \in DOMAIN ProfileNodes : ProfileNodes[j].name = ProfileNodes[i].name => j <= i
         /\ \E k \in DOMAIN ProfileNodes[i].modules :
               /\ ProfileNodes[i].modules[k].name = m
               /\ \E l \in DOMAIN ProfileNodes[i].modules[k].functions :
                     ProfileNodes[i].modules[k].functions[l] = f
  BY DEF Lists
<1> HIDE DEF name
<1>3. processTracingProfiles[p] = parseProfile(ProfileNodes[i])
  BY <1>1, <1>2, ProfileOfName
<1>4. PICK k \in DOMAIN ProfileNodes[i].modules :
         /\ ProfileNodes[i].modules[k].name = m
         /\ \E l \in DOMAIN ProfileNodes[i].modules[k].functions :
               ProfileNodes[i].modules[k].functions[l] = f
  BY <1>2
<1> DEFINE node == ProfileNodes[i]
<1>5. /\ node.modules \in Seq(Elements(node.modules))
      /\ \A c \in Elements(node.modules) : c.functions \in Seq(Elements(c.functions))
  BY ConfigAssumption DEF ConfigAssumption, Elements
<1> HIDE DEF node
<1>6. \A a \in DOMAIN node.modules : \A b \in DOMAIN node.modules[a].functions :
         Has(parseProfile(node),
             [module |-> node.modules[a].name, function |-> node.modules[a].functions[b]])
  BY <1>5, ParsedProfile
<1>7. QED BY <1>3, <1>4, <1>6 DEF node

\* A profile is a sequence.
LEMMA ProfileIsSequence ==
    ASSUME NEW p, HasProfile(p)
    PROVE  \E X : processTracingProfiles[p] \in Seq(X)
<1>1. \E n : processTracingProfiles[p] = ProfileNamed(n)
  BY ProfileOfProcess
<1>2. PICK n : processTracingProfiles[p] = ProfileNamed(n)
  BY <1>1
<1>3. CASE n \notin DOMAIN profiles
  <2>1. ProfileNamed(n) = <<>> /\ <<>> \in Seq({})
    BY <1>3 DEF ProfileNamed
  <2>2. QED BY <1>2, <2>1
<1>4. CASE n \in DOMAIN profiles
  <2> DEFINE S == {i \in DOMAIN ProfileNodes : ProfileNodes[i].name = n}
             node == ProfileNodes[Last0(S)]
  <2>1. ProfileNamed(n) = parseProfile(node) /\ S # {}
    BY <1>4 DEF ProfileNamed, profiles
  <2>2. Last0(S) \in DOMAIN ProfileNodes
    BY <2>1, LastExists
  <2>3. /\ node.modules \in Seq(Elements(node.modules))
        /\ \A c \in Elements(node.modules) : c.functions \in Seq(Elements(c.functions))
    BY <2>2, ConfigAssumption DEF ConfigAssumption, Elements
  <2> HIDE DEF node
  <2>4. \E X : parseProfile(node) \in Seq(X)
    BY <2>3, ParsedProfile
  <2>5. QED BY <1>2, <2>1, <2>4
<1>5. QED BY <1>3, <1>4

-----------------------------------------------------------------------------
(* The definitions of types *)

Outcomes == {"throws", "endless"}

\* One step of getBasicParameterType: what it makes of u if g is what it makes of every type that is
\* looked up next.
BasicStep(k, g, w) ==
    [u \in Types |->
        IF u \in DOMAIN BackingSize THEN u
        ELSE IF u \in DOMAIN Structures
             THEN IF Handle \notin Types THEN "throws" ELSE IF k = 0 THEN "endless" ELSE g[Handle]
        ELSE IF u \in DOMAIN HighLevel[w]
             THEN IF HighLevel[w][u] \notin Types THEN "throws"
                  ELSE IF k = 0 THEN "endless" ELSE g[HighLevel[w][u]]
        ELSE "throws"]

BasicOutcomes == [Types -> DOMAIN BackingSize \cup Outcomes]

\* f is the recursion of getBasicParameterType.
BasicRecursion(f, w) ==
    /\ f \in [0..Cardinality(Types) -> BasicOutcomes]
    /\ \A k \in 0..Cardinality(Types) : f[k] = BasicStep(k, f[k - 1], w)
    /\ \A t : BasicType(t, w) = IF t \in Types THEN f[Cardinality(Types)][t] ELSE "throws"

\* The recursion of getBasicParameterType has a result.
LEMMA BasicTypeRecursion ==
    ASSUME NEW w
    PROVE  \E f : BasicRecursion(f, w)
<1> DEFINE N == Cardinality(Types)
           Basic(f) == [k \in 0..N |-> BasicStep(k, f[k - 1], w)]
           basic == CHOOSE f : f = Basic(f)
           V == BasicOutcomes
           first == BasicStep(0, 0, w)
           step == [k \in 1..N |-> [g \in V |-> BasicStep(k, g, w)]]
<1>1. \A t : BasicType(t, w) = IF t \in Types THEN basic[N][t] ELSE "throws"
  BY DEF BasicType, BasicStep
<1>2. N \in Nat
  BY FS_CardinalityType, DefinitionsAssumption DEF DefinitionsAssumption
<1> HIDE DEF N
<1>3. \A g : BasicStep(0, g, w) = first
  BY DEF BasicStep
<1>4. first \in V
  BY DEF BasicStep, BasicOutcomes, Outcomes
<1>5. \A k \in 1..N : \A g \in V : BasicStep(k, g, w) \in V
  BY DEF BasicStep, BasicOutcomes, Outcomes
<1> HIDE DEF V, first
<1>6. step \in [1..N -> [V -> V]]
  BY <1>5
<1>7. PICK f \in [0..N -> V] : Solves(f, N, first, step)
  <2> HIDE DEF step
  <2>1. QED BY <1>2, <1>4, <1>6, RecursiveFunction
<1>8. ASSUME NEW k \in 0..N PROVE f[k] = BasicStep(k, f[k - 1], w)
  <2>1. f[k] = IF k = 0 THEN first ELSE step[k][f[k - 1]]
    BY <1>7 DEF Solves
  <2>2. CASE k = 0
    BY <1>3, <2>1, <2>2
  <2>3. CASE k # 0
    <3>1. k \in 1..N /\ f[k - 1] \in V
      BY <1>2, <2>3
    <3>2. step[k][f[k - 1]] = BasicStep(k, f[k - 1], w)
      BY <3>1
    <3>3. QED BY <2>1, <2>3, <3>2
  <2>4. QED BY <2>2, <2>3
<1>9. f = Basic(f)
  BY <1>8
<1>10. basic = Basic(basic)
  <2> HIDE DEF Basic
  <2>1. QED BY <1>9
<1> HIDE DEF basic
<1>11. \A k \in 0..N : basic[k] = BasicStep(k, basic[k - 1], w)
  BY <1>10
<1>12. basic \in [0..N -> V]
  <2> DEFINE S == {k \in Nat : k <= N => basic[k] \in V}
  <2>1. 0 \in S
    BY <1>2, <1>3, <1>4, <1>11
  <2>2. ASSUME NEW k \in S \cap Nat PROVE k + 1 \in S
    BY <1>2, <1>5, <1>11
  <2>3. Nat \subseteq S
    <3> HIDE DEF S
    <3>1. QED BY <2>1, <2>2, SetInduction
  <2>4. \A k \in 0..N : basic[k] \in V
    BY <1>2, <2>3
  <2>5. basic = [k \in 0..N |-> basic[k]]
    BY <1>10
  <2> HIDE DEF S, Basic
  <2>6. QED BY <2>4, <2>5
<1>13. QED BY <1>1, <1>11, <1>12 DEF BasicRecursion, N, V

\* getBasicParameterType gives a basic type, or fails.
LEMMA BasicTypeOrFails ==
    ASSUME NEW t, NEW w
    PROVE  BasicType(t, w) \in DOMAIN BackingSize \cup Outcomes
<1>1. PICK f : BasicRecursion(f, w)
  BY BasicTypeRecursion
<1>2. Cardinality(Types) \in Nat
  BY FS_CardinalityType, DefinitionsAssumption DEF DefinitionsAssumption
<1>3. t \in Types => f[Cardinality(Types)][t] \in DOMAIN BackingSize \cup Outcomes
  BY <1>1, <1>2 DEF BasicRecursion, BasicOutcomes
<1>4. QED BY <1>1, <1>3 DEF BasicRecursion, Outcomes

\* A structure is passed as an address.
LEMMA StructureIsAddress ==
    ASSUME NEW t \in DOMAIN Structures
    PROVE  SizeOf(t, 64) = 8
<1> DEFINE N == Cardinality(Types)
           h == HighLevel[64][Handle]
<1>1. PICK f : BasicRecursion(f, 64)
  BY BasicTypeRecursion
<1>2. /\ t \in Types /\ t \notin DOMAIN BackingSize
      /\ Handle \in Types /\ Handle \notin DOMAIN BackingSize \cup DOMAIN Structures
      /\ Handle \in DOMAIN HighLevel[64]
      /\ h \in Types /\ h \in DOMAIN BackingSize /\ h # Handle /\ BackingSize[h] = 8
  BY HandleAssumption DEF HandleAssumption, Types
<1> HIDE DEF h
<1>3. N \in Nat /\ N >= 2
  <2>1. IsFiniteSet({Handle}) /\ Cardinality({Handle}) = 1
    BY FS_Singleton
  <2>2. IsFiniteSet({Handle} \cup {h}) /\ Cardinality({Handle} \cup {h}) = 2
    <3>1. h \notin {Handle} /\ 1 + 1 = 2
      BY <1>2
    <3>2. QED BY <2>1, <3>1, FS_AddElement
  <2>3. IsFiniteSet(Types)
    BY DefinitionsAssumption DEF DefinitionsAssumption
  <2>4. N \in Nat
    BY <2>3, FS_CardinalityType
  <2>5. {Handle} \cup {h} \in SUBSET Types
    BY <1>2
  <2>6. Cardinality({Handle} \cup {h}) <= N
    BY <2>3, <2>5, FS_Subset
  <2>7. QED BY <2>2, <2>4, <2>6
<1> HIDE DEF N
<1>4. /\ f[N] = BasicStep(N, f[N - 1], 64)
      /\ f[N - 1] = BasicStep(N - 1, f[(N - 1) - 1], 64)
      /\ f[(N - 1) - 1] = BasicStep((N - 1) - 1, f[((N - 1) - 1) - 1], 64)
  <2>1. N \in 0..N /\ N - 1 \in 0..N /\ (N - 1) - 1 \in 0..N
    BY <1>3
  <2>2. \A k \in 0..N : f[k] = BasicStep(k, f[k - 1], 64)
    BY <1>1 DEF BasicRecursion, N
  <2>3. QED BY <2>1, <2>2
<1>5. f[(N - 1) - 1][h] = h
  BY <1>2, <1>4 DEF BasicStep
<1>6. f[N - 1][Handle] = f[(N - 1) - 1][h]
  <2>1. \A k, g : k # 0 => BasicStep(k, g, 64)[Handle] = g[h]
    BY <1>2 DEF BasicStep, h
  <2> DEFINE k == N - 1
             g == f[k - 1]
  <2>2. k # 0 /\ f[k] = BasicStep(k, g, 64)
    BY <1>3, <1>4
  <2> HIDE DEF g, k
  <2>3. f[k][Handle] = g[h]
    BY <2>1, <2>2
  <2>4. QED BY <2>3 DEF g, k
<1>7. f[N][t] = f[N - 1][Handle]
  <2>1. \A k, g : k # 0 => BasicStep(k, g, 64)[t] = g[Handle]
    BY <1>2 DEF BasicStep
  <2>2. N # 0
    BY <1>3
  <2>3. QED BY <1>4, <2>1, <2>2
<1>8. BasicType(t, 64) = h
  BY <1>1, <1>2, <1>5, <1>6, <1>7 DEF BasicRecursion, N
<1>9. QED BY <1>2, <1>8 DEF SizeOf

\* The first of the outcomes of a sequence that is not "ok"
LEMMA FirstNotOkIsOutcome ==
    ASSUME NEW s \in Seq({"ok"} \cup Outcomes)
    PROVE  /\ FirstNotOk(s) \in {"ok"} \cup Outcomes
           /\ FirstNotOk(s) = "ok" => \A i \in 1..Len(s) : s[i] = "ok"
<1>1. Len(s) \in Nat /\ \A i \in 1..Len(s) : s[i] \in {"ok"} \cup Outcomes
  OBVIOUS
<1> DEFINE N == Len(s)
           bad == {i \in 1..N : s[i] # "ok"}
<1>2. CASE \A i \in 1..N : s[i] = "ok"
  BY <1>2 DEF FirstNotOk
<1>3. CASE ~\A i \in 1..N : s[i] = "ok"
  <2>1. bad \subseteq Nat /\ bad # {}
    BY <1>3
  <2>2. PICK i \in bad : \A j \in bad : i <= j
    <3> HIDE DEF bad
    <3>1. QED BY <2>1, LeastElement
  <2>3. i \in 1..N /\ s[i] # "ok" /\ \A j \in 1..(i - 1) : s[j] = "ok"
    <3>1. \A j \in 1..(i - 1) : j \in 1..N /\ ~(i <= j)
      BY <1>1, <2>2
    <3>2. QED BY <2>2, <3>1
  <2> DEFINE c == CHOOSE k \in 1..N : s[k] # "ok" /\ \A j \in 1..(k - 1) : s[j] = "ok"
  <2>4. c \in 1..N /\ s[c] # "ok"
    BY <2>3
  <2>5. FirstNotOk(s) = s[c]
    BY <1>3 DEF FirstNotOk
  <2> HIDE DEF c
  <2>6. QED BY <1>1, <1>3, <2>4, <2>5
<1>4. QED BY <1>2, <1>3

\* A type whose definition is complete has a basic type.
LEMMA DefinableHasBasicType ==
    ASSUME NEW t, NEW w
    PROVE  /\ Definable(t, w) \in {"ok"} \cup Outcomes
           /\ Definable(t, w) = "ok" => BasicType(t, w) \in DOMAIN BackingSize
<1> DEFINE N == Cardinality(Types)
           Fields(g, u) == [i \in DOMAIN Structures[u] |->
                               IF Structures[u][i] \in Types THEN g[Structures[u][i]] ELSE "throws"]
           At(k, g) == [u \in Types |->
                           IF BasicType(u, w) \in {"throws", "endless"} THEN BasicType(u, w)
                           ELSE IF u \notin DOMAIN Structures THEN "ok"
                           ELSE IF k = 0 THEN "endless"
                           ELSE FirstNotOk(Fields(g, u))]
           Step(f) == [k \in 0..N |-> At(k, f[k - 1])]
           outcome == CHOOSE f : f = Step(f)
           V == [Types -> {"ok"} \cup Outcomes]
           first == At(0, 0)
           step == [k \in 1..N |-> [g \in V |-> At(k, g)]]
<1>1. Definable(t, w) = IF t \in Types THEN outcome[N][t] ELSE "throws"
  BY DEF Definable
<1>2. N \in Nat
  BY FS_CardinalityType, DefinitionsAssumption DEF DefinitionsAssumption
<1> HIDE DEF N
<1>3. \A g : At(0, g) = first
  OBVIOUS
<1>4. ASSUME NEW g \in V, NEW u \in DOMAIN Structures
      PROVE  FirstNotOk(Fields(g, u)) \in {"ok"} \cup Outcomes
  <2>1. Structures[u] \in Seq(Elements(Structures[u]))
    BY DefinitionsAssumption DEF DefinitionsAssumption
  <2>2. Fields(g, u) \in Seq({"ok"} \cup Outcomes)
    BY <2>1 DEF Outcomes
  <2> HIDE DEF Fields
  <2>3. QED BY <2>2, FirstNotOkIsOutcome
<1> HIDE DEF Fields
<1>5. first \in V
  BY DEF Outcomes
<1>6. \A k \in 1..N : \A g \in V : At(k, g) \in V
  BY <1>4 DEF Outcomes
<1>7. \A k, g : \A u \in Types : At(k, g)[u] = "ok" => BasicType(u, w) \notin Outcomes
  BY DEF Outcomes
<1> HIDE DEF V, first, At
<1>8. step \in [1..N -> [V -> V]]
  BY <1>6
<1>9. PICK f \in [0..N -> V] : Solves(f, N, first, step)
  <2> HIDE DEF step
  <2>1. QED BY <1>2, <1>5, <1>8, RecursiveFunction
<1>10. ASSUME NEW k \in 0..N PROVE f[k] = At(k, f[k - 1])
  <2>1. f[k] = IF k = 0 THEN first ELSE step[k][f[k - 1]]
    BY <1>9 DEF Solves
  <2>2. CASE k = 0
    BY <1>3, <2>1, <2>2
  <2>3. CASE k # 0
    <3>1. k \in 1..N /\ f[k - 1] \in V
      BY <1>2, <2>3
    <3>2. step[k][f[k - 1]] = At(k, f[k - 1])
      BY <3>1
    <3>3. QED BY <2>1, <2>3, <3>2
  <2>4. QED BY <2>2, <2>3
<1>11. f = Step(f)
  BY <1>10
<1>12. outcome = Step(outcome)
  <2> HIDE DEF Step
  <2>1. QED BY <1>11
<1> HIDE DEF outcome
<1>13. \A k \in 0..N : outcome[k] = At(k, outcome[k - 1])
  BY <1>12
<1>14. outcome[N] \in V
  <2> DEFINE S == {k \in Nat : k <= N => outcome[k] \in V}
  <2>1. 0 \in S
    BY <1>2, <1>3, <1>5, <1>13
  <2>2. ASSUME NEW k \in S \cap Nat PROVE k + 1 \in S
    BY <1>2, <1>6, <1>13
  <2>3. Nat \subseteq S
    <3> HIDE DEF S
    <3>1. QED BY <2>1, <2>2, SetInduction
  <2>4. QED BY <1>2, <2>3
<1>15. t \in Types => outcome[N][t] \in {"ok"} \cup Outcomes
  BY <1>14 DEF V
<1>16. t \in Types /\ outcome[N][t] = "ok" => BasicType(t, w) \notin Outcomes
  BY <1>2, <1>7, <1>13
<1>17. QED BY <1>1, <1>15, <1>16, BasicTypeOrFails DEF Outcomes

-----------------------------------------------------------------------------
(* Values *)

\* What a function with a complete definition has for parameters
LEMMA ParametersAreDefined ==
    ASSUME NEW f, NEW w, Definition(f, w) = "ok"
    PROVE  LET ts == ParametersOf[f]
           IN  /\ f \in DOMAIN ParametersOf
               /\ Len(ts) \in Nat
               /\ \A i \in 1..Len(ts) :
                     BasicType(ts[i], w) \in DOMAIN BackingSize /\ SizeOf(ts[i], w) \in 1..8
<1> DEFINE ts == ParametersOf[f]
           s == [i \in DOMAIN ts |-> Definable(ts[i], w)]
<1>1. f \in DOMAIN ParametersOf /\ FirstNotOk(s) = "ok"
  BY DEF Definition
<1>2. ts \in Seq(Elements(ts))
  BY <1>1, DefinitionsAssumption DEF DefinitionsAssumption
<1>3. s \in Seq({"ok"} \cup Outcomes) /\ Len(s) = Len(ts) /\ Len(ts) \in Nat
  BY <1>2, DefinableHasBasicType
<1>4. \A i \in 1..Len(ts) : s[i] = "ok"
  <2> HIDE DEF s
  <2>1. QED BY <1>1, <1>3, FirstNotOkIsOutcome
<1>5. \A i \in 1..Len(ts) : Definable(ts[i], w) = "ok"
  <2>1. DOMAIN ts = 1..Len(ts)
    BY <1>2
  <2>2. \A i \in 1..Len(ts) : s[i] = Definable(ts[i], w)
    BY <2>1
  <2>3. QED BY <1>4, <2>2
<1>6. \A i \in 1..Len(ts) : BasicType(ts[i], w) \in DOMAIN BackingSize
  BY <1>5, DefinableHasBasicType
<1>7. QED
  BY <1>1, <1>3, <1>6, DefinitionsAssumption DEF DefinitionsAssumption, SizeOf

\* How many bytes zeroGarbageBytes leaves of a parameter of a type
Kept(size, w) == 8 - ((w - 8 * size) % 64) \div 8

\* Of a type that is not wider than an address, with 64 bits exactly its own bytes; of a structure
\* the bytes of its address.
LEMMA BytesKept ==
    /\ \A size \in 1..8 : Kept(size, 64) = size
    /\ \A size \in 1..4 : Kept(size, 32) = 4 + size
    /\ Kept(64, 64) = 8
    /\ Kept(32, 32) = 4
<1>1. ASSUME NEW size \in 1..8 PROVE Kept(size, 64) = size
  <2>1. size = 1 \/ size = 2 \/ size = 3 \/ size = 4 \/ size = 5 \/ size = 6 \/ size = 7 \/ size = 8
    OBVIOUS
  <2>2. /\ (64 - 8 * 1) % 64 = 56 /\ (64 - 8 * 2) % 64 = 48 /\ (64 - 8 * 3) % 64 = 40
        /\ (64 - 8 * 4) % 64 = 32 /\ (64 - 8 * 5) % 64 = 24 /\ (64 - 8 * 6) % 64 = 16
        /\ (64 - 8 * 7) % 64 = 8 /\ (64 - 8 * 8) % 64 = 0
    OBVIOUS
  <2>3. QED BY <2>1, <2>2 DEF Kept
<1>2. ASSUME NEW size \in 1..4 PROVE Kept(size, 32) = 4 + size
  <2>1. size = 1 \/ size = 2 \/ size = 3 \/ size = 4
    OBVIOUS
  <2>2. /\ (32 - 8 * 1) % 64 = 24 /\ (32 - 8 * 2) % 64 = 16
        /\ (32 - 8 * 3) % 64 = 8 /\ (32 - 8 * 4) % 64 = 0
    OBVIOUS
  <2>3. QED BY <2>1, <2>2 DEF Kept
<1>3. Kept(64, 64) = 8
  BY DEF Kept
<1>4. Kept(32, 32) = 4
  <2>1. \A k \in Int : (64 * k + 32) % 64 = 32
    OBVIOUS
  <2>2. -4 \in Int /\ 64 * (-4) + 32 = 32 - 8 * 32
    OBVIOUS
  <2>3. (64 * (-4) + 32) % 64 = 32
    BY <2>1, <2>2
  <2>4. (32 - 8 * 32) % 64 = 32
    BY <2>2, <2>3
  <2>5. QED BY <2>4 DEF Kept
<1>5. QED BY <1>1, <1>2, <1>3, <1>4

\* A value of which n bytes were kept, cut to no more than n bytes
LEMMA LowOfLow ==
    ASSUME NEW value, NEW n \in Nat, NEW m \in 0..n
    PROVE  Low(Low(value, n), m) = Low(value, m)
BY DEF Low, Bytes

\* Every value of a call is made of bytes of registers and of the stack.
LEMMA ExtractedTyping ==
    ASSUME NEW f, NEW w \in Widths, Definition(f, w) = "ok"
    PROVE  \A i \in DOMAIN Extracted(f, w) : Extracted(f, w)[i] \in Values
<1> DEFINE ts == ParametersOf[f]
<1>1. Len(ts) \in Nat /\ \A i \in 1..Len(ts) : SizeOf(ts[i], w) \in 1..8
  BY ParametersAreDefined
<1> HIDE DEF ts
<1>2. Extracted(f, w) = [i \in 1..Len(ts) |-> ShallowValue(ts, i, w)]
  BY DEF Extracted, ts
<1>3. ASSUME NEW i \in 1..4 PROVE RegisterValue(i) \in Values
  BY <1>3 DEF RegisterValue, Values, Bytes, MaxRegisterParameters
<1>4. ASSUME NEW a \in Nat, NEW n PROVE Low(read64VA(a), n) \in Values
  BY <1>4 DEF read64VA, Low, Values, Bytes, Zero
<1>5. ASSUME NEW i \in 1..Len(ts), NEW j \in Nat PROVE StackParameter(ts[i], j, w) \in Values
  <2>1. StackOffset(w) + j * (w \div 8) \in Nat
    <3>1. CASE w = 64
      <4>1. 64 \div 8 = 8
        OBVIOUS
      <4>2. QED BY <3>1, <4>1 DEF StackOffset
    <3>2. CASE w = 32
      <4>1. 32 \div 8 = 4
        OBVIOUS
      <4>2. QED BY <3>2, <4>1 DEF StackOffset
    <3>3. QED BY <3>1, <3>2 DEF Widths
  <2> HIDE DEF Values
  <2>2. QED BY <1>4, <2>1 DEF StackParameter, zeroGarbageBytes
<1>6. ASSUME NEW i \in 1..Len(ts) PROVE ShallowValue(ts, i, w) \in Values
  <2>1. CASE w = 32
    <3>1. i - 1 \in Nat
      BY <1>1
    <3>2. QED BY <1>5, <2>1, <3>1 DEF ShallowValue
  <2>2. CASE w # 32 /\ i <= 4
    <3>1. i \in 1..4
      BY <1>1, <2>2
    <3>2. QED BY <1>3, <2>2, <3>1 DEF ShallowValue, MaxRegisterParameters
  <2>3. CASE w # 32 /\ ~(i <= 4)
    <3>1. i - 1 - 4 \in Nat
      BY <1>1, <2>3
    <3>2. QED BY <1>5, <2>3, <3>1 DEF ShallowValue, MaxRegisterParameters
  <2>4. QED BY <2>1, <2>2, <2>3
<1>7. QED BY <1>2, <1>6

\* With parameters of one slot each, parameter i is preceded by i - 1 slots.
LEMMA OneSlotEach ==
    ASSUME NEW ts, NEW i \in Nat \ {0}, \A j \in 1..i : Slots(ts[j]) = 1
    PROVE  SlotsBefore(ts, i) = i - 1
<1> DEFINE N == i - 1
           Sum(f) == [k \in 0..N |-> IF k = 0 THEN 0 ELSE f[k - 1] + Slots(ts[k])]
           sum == CHOOSE f : f = Sum(f)
           count == [k \in 0..N |-> k]
<1>1. SlotsBefore(ts, i) = sum[N]
  BY DEF SlotsBefore
<1>2. N \in Nat /\ \A k \in 1..N : Slots(ts[k]) = 1
  OBVIOUS
<1> HIDE DEF N
<1>3. count = Sum(count)
  <2>1. ASSUME NEW k \in 0..N PROVE count[k] = IF k = 0 THEN 0 ELSE count[k - 1] + Slots(ts[k])
    BY <1>2
  <2>2. QED BY <2>1
<1>4. sum = Sum(sum)
  <2> HIDE DEF Sum, count
  <2>1. QED BY <1>3
<1> HIDE DEF sum
<1>5. sum[0] = 0 /\ \A k \in 1..N : sum[k] = sum[k - 1] + 1
  <2>1. \A k \in 0..N : sum[k] = IF k = 0 THEN 0 ELSE sum[k - 1] + Slots(ts[k])
    BY <1>4
  <2>2. QED BY <1>2, <2>1
<1> HIDE DEF Sum
<1> DEFINE S == {k \in Nat : k <= N => sum[k] = k}
<1>6. 0 \in S /\ \A k \in S \cap Nat : k + 1 \in S
  BY <1>2, <1>5
<1>7. N \in S
  <2> HIDE DEF S
  <2>1. QED BY <1>2, <1>6, SetInduction
<1>8. QED BY <1>1, <1>2, <1>7 DEF N

\* Every value that is read for a call is that of its own argument, as ParametersOwn says it.
LEMMA OwnValues ==
    ASSUME NEW f, NEW w \in Widths, Definition(f, w) = "ok"
    PROVE  LET ts == ParametersOf[f]
           IN  \A i \in 1..Len(ts) :
                  \/ w = 32 /\ \E j \in 1..i : Slots(ts[j]) = 2
                  \/ LET own == Low(Argument(ts, i, w), SizeOf(ts[i], w))
                     IN  /\ Low(Extracted(f, w)[i], SizeOf(ts[i], w)) = own
                         /\ w = 64 /\ i > 4 => Extracted(f, w)[i] = own
<1> DEFINE ts == ParametersOf[f]
<1>1. Len(ts) \in Nat /\ \A i \in 1..Len(ts) : SizeOf(ts[i], w) \in 1..8
  BY ParametersAreDefined
<1>2. Extracted(f, w) = [i \in 1..Len(ts) |-> ShallowValue(ts, i, w)]
  BY DEF Extracted
<1> HIDE DEF ts
<1>3. ASSUME NEW i \in 1..Len(ts), w = 32, \A j \in 1..i : Slots(ts[j]) # 2
      PROVE  Low(ShallowValue(ts, i, w), SizeOf(ts[i], w)) = Low(Argument(ts, i, w), SizeOf(ts[i], w))
  <2> DEFINE size == SizeOf(ts[i], w)
             k == Kept(IF IsStructure(ts[i]) THEN 32 ELSE size, 32)
             a == 4 + (i - 1) * 4
  <2>1. size \in 1..4
    <3>1. size \in 1..8 /\ ~(size > 4)
      BY <1>1, <1>3 DEF Slots
    <3> HIDE DEF size
    <3>2. QED BY <3>1
  <2>2. SlotsBefore(ts, i) = i - 1
    <3>1. i \in Nat \ {0} /\ \A j \in 1..i : Slots(ts[j]) = 1
      BY <1>1, <1>3 DEF Slots
    <3>2. QED BY <3>1, OneSlotEach
  <2>3. Argument(ts, i, w) = read64VA(a)
    <3>1. 4 + 4 * (i - 1) = a
      BY <1>1
    <3> HIDE DEF a
    <3>2. QED BY <1>3, <2>2, <3>1 DEF Argument
  <2>4. ShallowValue(ts, i, w) = Low(read64VA(a), k)
    <3>1. 32 \div 8 = 4
      OBVIOUS
    <3>2. QED BY <1>3, <3>1 DEF ShallowValue, StackParameter, StackOffset, zeroGarbageBytes, Kept
  <2> HIDE DEF size
  <2>5. k \in Nat /\ size \in 0..k
    BY <2>1, BytesKept
  <2> HIDE DEF k, a
  <2>6. QED BY <2>3, <2>4, <2>5, LowOfLow DEF size
<1>4. ASSUME NEW i \in 1..Len(ts), w = 64, ~(i <= 4)
      PROVE  /\ ShallowValue(ts, i, w) = Low(Argument(ts, i, w), SizeOf(ts[i], w))
             /\ Low(ShallowValue(ts, i, w), SizeOf(ts[i], w)) = Low(Argument(ts, i, w), SizeOf(ts[i], w))
  <2> DEFINE size == SizeOf(ts[i], w)
             k == Kept(IF IsStructure(ts[i]) THEN 64 ELSE size, 64)
             a == 40 + (i - 1 - 4) * 8
  <2>1. size \in 1..8 /\ (IsStructure(ts[i]) => size = 8)
    BY <1>1, <1>4, StructureIsAddress DEF IsStructure
  <2>2. Argument(ts, i, w) = read64VA(a)
    <3>1. 8 + 32 + 8 * (i - 5) = a
      BY <1>1
    <3> HIDE DEF a
    <3>2. QED BY <1>4, <3>1 DEF Argument
  <2>3. ShallowValue(ts, i, w) = Low(read64VA(a), k)
    <3>1. 64 \div 8 = 8
      OBVIOUS
    <3>2. QED BY <1>4, <3>1 DEF ShallowValue, StackParameter, StackOffset, zeroGarbageBytes, Kept,
                               MaxRegisterParameters
  <2> HIDE DEF size
  <2>4. k = size
    BY <2>1, BytesKept
  <2> HIDE DEF k, a
  <2>5. Low(Low(read64VA(a), size), size) = Low(read64VA(a), size)
    BY <2>1, LowOfLow
  <2>6. QED BY <2>2, <2>3, <2>4, <2>5 DEF size
<1>5. ASSUME NEW i \in 1..Len(ts), w = 64, i <= 4
      PROVE  ShallowValue(ts, i, w) = Argument(ts, i, w)
  BY <1>5 DEF ShallowValue, Argument, MaxRegisterParameters
<1>6. ASSUME NEW i \in 1..Len(ts)
      PROVE  \/ w = 32 /\ \E j \in 1..i : Slots(ts[j]) = 2
             \/ LET own == Low(Argument(ts, i, w), SizeOf(ts[i], w))
                IN  /\ Low(Extracted(f, w)[i], SizeOf(ts[i], w)) = own
                    /\ w = 64 /\ i > 4 => Extracted(f, w)[i] = own
  <2>1. Extracted(f, w)[i] = ShallowValue(ts, i, w) /\ i \in Nat
    BY <1>1, <1>2
  <2>2. CASE w = 32
    BY <1>3, <2>1, <2>2
  <2>3. CASE w = 64 /\ i <= 4
    BY <1>5, <2>1, <2>3
  <2>4. CASE w = 64 /\ ~(i <= 4)
    BY <1>4, <2>1, <2>4
  <2>5. QED BY <2>1, <2>2, <2>3, <2>4 DEF Widths
<1>7. QED BY <1>6 DEF ts

-----------------------------------------------------------------------------
(* The hooks *)

\* The simple parts of TypeOK
HooksTyping ==
    /\ process \in ProcessNames /\ width \in Widths
    /\ hooking \in {"none", "injecting", "hooked", "crashed", "removed"}
    /\ position = 0 \/ position \in 1..(Len(Profile) + 1)
    /\ loadedModules \in [Traceable -> Links]
    /\ hooks \cup failed \subseteq 1..(position - 1)
    /\ trace.entry \in {0} \cup 1..(position - 1)

\* On Windows every region is what createVadt makes of its node.
RegionsDescribed ==
    os = "windows" => \A i \in 1..Len(regions) : regions[i] = Region(regions[i].node)

\* An entry that was passed over is hooked or failed if its module is loaded; the modules are those of
\* the regions, which the walk has finished; a traced call is one of a function whose definition is
\* complete.
HooksInv ==
    /\ hooking = "none" => position = 0 /\ hooks = {} /\ trace = NoTrace
    /\ hooking # "none" => /\ walk = "done" /\ HasProfile(process) /\ position # 0
                           /\ loadedModules = [file \in Traceable |-> RegionOf(file)]
    /\ hooking \in {"injecting", "hooked"} =>
          \A e \in 1..(position - 1) : Loaded(Profile[e]) => e \in hooks \cup failed
    /\ hooking = "hooked" => position > Len(Profile)
    /\ \A e \in hooks : Definition(Profile[e].function, width) = "ok"
    /\ trace # NoTrace => /\ Definition(Profile[trace.entry].function, width) = "ok"
                          /\ trace.values = Extracted(Profile[trace.entry].function, width)

\* The first region of a file is one of the regions.
LEMMA RegionOfFile ==
    ASSUME RegionsTypeOK, NEW file
    PROVE  /\ RegionOf(file) \in Links
           /\ \A i \in 1..Len(regions) : regions[i].file = file => RegionOf(file) # Nil
<1> DEFINE found == {i \in 1..Len(regions) : regions[i].file = file}
<1>1. Len(regions) \in Nat /\ \A i \in 1..Len(regions) : regions[i].node \in Nodes
  <2>1. regions \in Seq(RegionRecords)
    BY DEF RegionsTypeOK
  <2>2. \A i \in 1..Len(regions) : regions[i] \in RegionRecords
    BY <2>1
  <2>3. \A r \in RegionRecords : r.node \in Nodes
    BY DEF RegionRecords
  <2>4. QED BY <2>1, <2>2, <2>3
<1>2. Nil \notin Nodes
  BY RegionsAssumption DEF RegionsAssumption
<1>3. CASE found = {}
  BY <1>3 DEF RegionOf, Links
<1>4. CASE found # {}
  <2>1. found \subseteq Nat
    BY <1>1
  <2>2. \E i \in found : \A j \in found : i <= j
    <3> HIDE DEF found
    <3>1. QED BY <1>4, <2>1, LeastElement
  <2> DEFINE c == CHOOSE i \in found : \A j \in found : i <= j
  <2>3. c \in found
    <3> HIDE DEF found
    <3>1. QED BY <2>2
  <2>4. RegionOf(file) = regions[c].node
    BY <1>4 DEF RegionOf
  <2> HIDE DEF c
  <2>5. RegionOf(file) \in Nodes
    BY <1>1, <2>3, <2>4
  <2>6. QED BY <1>2, <2>5 DEF Links
<1>5. QED BY <1>3, <1>4

\* The regions on Windows, in every step of the walk
LEMMA RegionsDescribedStep ==
    RegionsTypeOK /\ RegionsDescribed /\ [RegionsNext]_regionVars => RegionsDescribed'
<1> SUFFICES ASSUME RegionsTypeOK, RegionsDescribed, [RegionsNext]_regionVars PROVE RegionsDescribed'
  OBVIOUS
<1>1. os' = os
  BY DEF RegionsNext, WalkStep, ReadProtections, ReadProtectionsFails, BeginTree, SkipVisited,
     SkipUnreadable, VisitNode, EndOfTree, BeginList, VisitArea, ListFails, EndOfList, Rewrite,
     regionVars, guest
<1>2. CASE VisitNode
  <2>1. Top \in Nodes
    BY <1>2, PopTakesTop DEF VisitNode, RegionsTypeOK
  <2>2. regions' = regions \o RegionIfAny(Top) /\ os = "windows"
    BY <1>2 DEF VisitNode
  <2> DEFINE r == Region(Top)
  <2>3. r.node = Top /\ r = Region(Top)
    BY DEF Region
  <2>4. regions \in Seq(RegionRecords)
    BY DEF RegionsTypeOK
  <2> HIDE DEF r
  <2>5. CASE Describable(Top)
    <3>1. regions' = Append(regions, r)
      BY <2>2, <2>3, <2>4, <2>5 DEF RegionIfAny
    <3>2. /\ Len(regions) \in Nat /\ Len(regions') = Len(regions) + 1
          /\ regions'[Len(regions) + 1] = r
          /\ \A i \in 1..Len(regions) : regions'[i] = regions[i]
      BY <2>4, <3>1
    <3>3. \A i \in 1..Len(regions') : i \in 1..Len(regions) \/ i = Len(regions) + 1
      BY <3>2
    <3>4. \A i \in 1..Len(regions) : regions[i] = Region(regions[i].node)
      BY <2>2 DEF RegionsDescribed
    <3>5. \A i \in 1..Len(regions') : regions'[i] = Region(regions'[i].node)
      BY <2>3, <3>2, <3>3, <3>4
    <3>6. QED BY <3>5 DEF RegionsDescribed, Region
  <2>6. CASE ~Describable(Top)
    <3>1. regions' = regions
      BY <2>2, <2>4, <2>6 DEF RegionIfAny
    <3>2. QED BY <1>1, <3>1 DEF RegionsDescribed
  <2>7. QED BY <2>5, <2>6
<1>3. CASE os = "windows" /\ ~VisitNode
  <2>1. regions' = regions
    BY <1>3 DEF RegionsNext, WalkStep, ReadProtections, ReadProtectionsFails, BeginTree, SkipVisited,
       SkipUnreadable, EndOfTree, BeginList, VisitArea, ListFails, EndOfList, Rewrite, regionVars, guest
  <2>2. QED BY <1>1, <2>1 DEF RegionsDescribed
<1>4. CASE os # "windows"
  BY <1>1, <1>4 DEF RegionsDescribed
<1>5. QED BY <1>2, <1>3, <1>4

\* After the walk nothing of it changes.
LEMMA WalkIsOver ==
    ASSUME walk = "done", [RegionsNext]_regionVars
    PROVE  UNCHANGED <<walk, regions>>
BY DEF RegionsNext, WalkStep, ReadProtections, ReadProtectionsFails, BeginTree, SkipVisited,
   SkipUnreadable, VisitNode, EndOfTree, BeginList, VisitArea, ListFails, EndOfList, Rewrite, regionVars

\* The hooks, in every step
LEMMA HooksStep ==
    ASSUME RegionsTypeOK, HooksTyping, HooksInv, [Next]_vars
    PROVE  HooksTyping' /\ HooksInv'
<1> DEFINE N == Len(Profile)
<1>1. hooking # "none" => N \in Nat
  <2>1. ASSUME hooking # "none" PROVE N \in Nat
    <3>1. HasProfile(process)
      BY <2>1 DEF HooksInv
    <3>2. \E X : Profile \in Seq(X)
      BY <3>1, ProfileIsSequence DEF Profile
    <3>3. QED BY <3>2
  <2>2. QED BY <2>1
<1>2. CASE UNCHANGED hookVars /\ [RegionsNext]_regionVars
  <2>1. hooking # "none" => UNCHANGED <<walk, regions>>
    BY <1>2, WalkIsOver DEF HooksInv
  <2>2. \A file : hooking # "none" => RegionOf(file)' = RegionOf(file)
    BY <2>1 DEF RegionOf
  <2>3. HooksTyping'
    BY <1>2 DEF HooksTyping, hookVars, Profile
  <2>4. HooksInv'
    <3>1. /\ hooking' = "none" => position' = 0 /\ hooks' = {} /\ trace' = NoTrace
          /\ hooking' # "none" => walk' = "done" /\ HasProfile(process') /\ position' # 0
          /\ hooking' = "hooked" => position' > Len(Profile')
      BY <1>2, <2>1 DEF HooksInv, hookVars, Profile
    <3>2. hooking' # "none" => loadedModules' = [file \in Traceable |-> RegionOf(file)']
      BY <1>2, <2>2 DEF HooksInv, hookVars
    <3>3. /\ hooking' \in {"injecting", "hooked"} =>
                \A e \in 1..(position' - 1) : Loaded(Profile[e])' => e \in hooks' \cup failed'
          /\ \A e \in hooks' : Definition(Profile'[e].function, width') = "ok"
          /\ trace' # NoTrace => /\ Definition(Profile'[trace'.entry].function, width') = "ok"
                                 /\ trace'.values = Extracted(Profile'[trace'.entry].function, width')
      BY <1>2 DEF HooksInv, hookVars, Profile, Loaded
    <3>4. QED BY <3>1, <3>2, <3>3 DEF HooksInv, NoTrace
  <2>5. QED BY <2>3, <2>4
<1>3. ASSUME UNCHANGED <<regionVars, process, width>>
      PROVE  /\ Profile' = Profile /\ walk' = walk
             /\ \A file : RegionOf(file)' = RegionOf(file)
  BY <1>3 DEF regionVars, Profile, RegionOf
<1>4. CASE InitLoadedModules
  <2>1. /\ hooking = "none" /\ hooking' = "injecting" /\ position' = 1 /\ HasProfile(process)
        /\ walk = "done" /\ loadedModules' = [file \in Traceable |-> RegionOf(file)]
        /\ UNCHANGED <<regionVars, process, width, hooks, failed, trace>>
    BY <1>4 DEF InitLoadedModules
  <2>2. position = 0 /\ hooks = {} /\ trace = NoTrace
    BY <2>1 DEF HooksInv
  <2>3. failed = {}
    BY <2>2 DEF HooksTyping
  <2>4. N \in Nat
    <3>1. \E X : Profile \in Seq(X)
      BY <2>1, ProfileIsSequence DEF Profile
    <3>2. QED BY <3>1
  <2>5. Profile' = Profile /\ walk' = walk /\ \A file : RegionOf(file)' = RegionOf(file)
    BY <1>3, <2>1
  <2>6. loadedModules' \in [Traceable -> Links]
    BY <2>1, RegionOfFile
  <2>7. HooksTyping'
    BY <2>1, <2>2, <2>3, <2>4, <2>5, <2>6 DEF HooksTyping, NoTrace
  <2>8. HooksInv'
    BY <2>1, <2>2, <2>3, <2>4, <2>5 DEF HooksInv, NoTrace
  <2>9. QED BY <2>7, <2>8
<1>5. ASSUME hooking \in {"injecting", "hooked"},
             UNCHANGED <<regionVars, process, width, loadedModules>>
      PROVE  /\ Profile' = Profile /\ N \in Nat /\ walk' = walk /\ walk = "done" /\ HasProfile(process)
             /\ position \in 1..(N + 1) /\ position \in Nat
             /\ loadedModules' = [file \in Traceable |-> RegionOf(file)']
             /\ \A e : Loaded(Profile[e])' <=> Loaded(Profile[e])
             /\ \A e \in 1..(position - 1) : Loaded(Profile[e]) => e \in hooks \cup failed
  <2>1. Profile' = Profile /\ walk' = walk /\ \A file : RegionOf(file)' = RegionOf(file)
    BY <1>3, <1>5
  <2>2. /\ walk = "done" /\ HasProfile(process) /\ position # 0
        /\ loadedModules = [file \in Traceable |-> RegionOf(file)]
        /\ \A e \in 1..(position - 1) : Loaded(Profile[e]) => e \in hooks \cup failed
    BY <1>5 DEF HooksInv
  <2>3. N \in Nat /\ position \in 1..(N + 1)
    BY <1>1, <1>5, <2>2 DEF HooksTyping
  <2>4. loadedModules' = [file \in Traceable |-> RegionOf(file)']
    BY <1>5, <2>1, <2>2
  <2>5. \A e : Loaded(Profile[e])' <=> Loaded(Profile[e])
    BY <1>5, <2>1 DEF Loaded
  <2>6. QED BY <2>1, <2>2, <2>3, <2>4, <2>5
<1>6. ASSUME hooking = "injecting", position <= N, hooking' = "injecting", position' = position + 1,
             UNCHANGED <<regionVars, process, width, loadedModules, trace>>,
             hooks \subseteq hooks', failed \subseteq failed',
             hooks' \cup failed' \subseteq hooks \cup failed \cup {position},
             Loaded(Profile[position]) => position \in hooks' \cup failed',
             \A e \in hooks' \ hooks : Definition(Profile[e].function, width) = "ok"
      PROVE  HooksTyping' /\ HooksInv'
  <2>1. /\ Profile' = Profile /\ N \in Nat /\ walk' = walk /\ walk = "done" /\ HasProfile(process)
        /\ position \in 1..(N + 1) /\ position \in Nat
        /\ loadedModules' = [file \in Traceable |-> RegionOf(file)']
        /\ \A e : Loaded(Profile[e])' <=> Loaded(Profile[e])
        /\ \A e \in 1..(position - 1) : Loaded(Profile[e]) => e \in hooks \cup failed
    BY <1>5, <1>6
  <2>2. \A e \in 1..(position' - 1) : e \in 1..(position - 1) \/ e = position
    BY <1>6, <2>1
  <2>3. \A e \in 1..(position' - 1) : Loaded(Profile[e])' => e \in hooks' \cup failed'
    BY <1>6, <2>1, <2>2
  <2>4. HooksTyping'
    <3>1. position' \in 1..(N + 1) /\ hooks' \cup failed' \subseteq 1..(position' - 1)
      BY <1>6, <2>1 DEF HooksTyping
    <3>2. trace'.entry \in {0} \cup 1..(position' - 1)
      BY <1>6, <2>1 DEF HooksTyping
    <3>3. QED BY <1>6, <2>1, <3>1, <3>2 DEF HooksTyping, regionVars
  <2>5. \A e \in hooks' : Definition(Profile[e].function, width) = "ok"
    BY <1>6 DEF HooksInv
  <2>6. trace' # NoTrace => /\ Definition(Profile[trace.entry].function, width) = "ok"
                            /\ trace.values = Extracted(Profile[trace.entry].function, width)
    BY <1>6 DEF HooksInv
  <2>7. position' # 0
    BY <1>6, <2>1
  <2>8. QED BY <1>6, <2>1, <2>3, <2>4, <2>5, <2>6, <2>7 DEF HooksInv, NoTrace
<1>7. CASE SkipModule
  BY <1>6, <1>7 DEF SkipModule, Injecting, Entry
<1>8. CASE HookFunction
  BY <1>6, <1>8 DEF HookFunction, Injecting, Entry
<1>9. CASE HookFails
  BY <1>6, <1>9 DEF HookFails, Injecting, Entry, GoOn
<1>10. ASSUME hooking \in {"injecting", "hooked"},
              UNCHANGED <<regionVars, process, width, loadedModules, position, failed>>,
              hooking' \in {"injecting", "hooked", "crashed", "removed"},
              hooks' \in {hooks, {}},
              trace'.entry \in {0} \cup 1..(position - 1),
              trace' # NoTrace => /\ Definition(Profile[trace'.entry].function, width) = "ok"
                                  /\ trace'.values = Extracted(Profile[trace'.entry].function, width),
              hooking' \in {"injecting", "hooked"} => hooks' = hooks,
              hooking' = "hooked" => position > N
       PROVE  HooksTyping' /\ HooksInv'
  <2>1. /\ Profile' = Profile /\ N \in Nat /\ walk' = walk /\ walk = "done" /\ HasProfile(process)
        /\ position \in 1..(N + 1) /\ position \in Nat
        /\ loadedModules' = [file \in Traceable |-> RegionOf(file)']
        /\ \A e : Loaded(Profile[e])' <=> Loaded(Profile[e])
        /\ \A e \in 1..(position - 1) : Loaded(Profile[e]) => e \in hooks \cup failed
    BY <1>5, <1>10
  <2>2. hooking' \in {"injecting", "hooked"} =>
           \A e \in 1..(position' - 1) : Loaded(Profile[e])' => e \in hooks' \cup failed'
    BY <1>10, <2>1
  <2>3. \A e \in hooks' : Definition(Profile[e].function, width) = "ok"
    BY <1>10 DEF HooksInv
  <2>4. HooksTyping'
    BY <1>10, <2>1 DEF HooksTyping, regionVars
  <2>5. QED BY <1>10, <2>1, <2>2, <2>3, <2>4 DEF HooksInv, NoTrace
<1>11. CASE DefinitionEndless
  BY <1>10, <1>11 DEF DefinitionEndless, Injecting, HooksInv, HooksTyping
<1>12. CASE HooksInjected
  BY <1>10, <1>12 DEF HooksInjected, HooksInv, HooksTyping
<1>13. ASSUME NEW e \in hooks, HookCallback(e) PROVE HooksTyping' /\ HooksInv'
  <2>1. /\ hooking = "hooked" /\ hooking' = hooking /\ hooks' = hooks
        /\ trace'.entry = e /\ trace'.values = Extracted(Profile[e].function, width)
        /\ UNCHANGED <<regionVars, process, width, loadedModules, position, failed>>
    BY <1>13 DEF HookCallback
  <2>2. Definition(Profile[e].function, width) = "ok" /\ position > N /\ e \in 1..(position - 1)
    BY <2>1 DEF HooksInv, HooksTyping
  <2>3. QED BY <1>10, <2>1, <2>2
<1>14. ASSUME NEW e \in hooks, HookCallbackThrows(e) PROVE HooksTyping' /\ HooksInv'
  BY <1>10, <1>14 DEF HookCallbackThrows, HooksInv, NoTrace
<1>15. CASE RemoveHooks
  BY <1>10, <1>15 DEF RemoveHooks, NoTrace
<1>16. CASE UNCHANGED vars
  BY <1>2, <1>16 DEF vars
<1>17. QED
  BY <1>2, <1>4, <1>7, <1>8, <1>9, <1>11, <1>12, <1>13, <1>14, <1>15, <1>16 DEF Next, HookStep

\* The invariant of the hooks holds in every state.
THEOREM HooksInvariant == Spec => [](HooksTyping /\ HooksInv /\ RegionsDescribed)
<1>1. Init => HooksTyping /\ HooksInv /\ RegionsDescribed
  <2> SUFFICES ASSUME Init PROVE HooksTyping /\ HooksInv /\ RegionsDescribed
    OBVIOUS
  <2>1. regions = <<>> /\ loadedModules = [f \in Traceable |-> Nil] /\ Nil \in Links
    BY DEF Init, RegionsInit, Links
  <2>2. HooksTyping
    BY <2>1 DEF Init, HooksTyping, NoTrace
  <2>3. HooksInv
    BY DEF Init, HooksInv
  <2>4. RegionsDescribed
    BY <2>1 DEF RegionsDescribed
  <2>5. QED BY <2>2, <2>3, <2>4
<1>2. RegionsTypeOK /\ HooksTyping /\ HooksInv /\ [Next]_vars => (HooksTyping /\ HooksInv)'
  BY HooksStep
<1>3. QED BY <1>1, <1>2, RegionsDescribedStep, RegionsTyping, StepsOfWalk, PTL DEF Spec

\* Type correctness of the hooks and of the walk
THEOREM HooksTypeCorrect == Spec => []TypeOK
<1>1. RegionsTypeOK /\ HooksTyping /\ HooksInv => TypeOK
  <2> SUFFICES ASSUME RegionsTypeOK, HooksTyping, HooksInv
               PROVE  \A i \in DOMAIN trace.values : trace.values[i] \in Values
    BY DEF TypeOK, HooksTyping
  <2>1. CASE trace = NoTrace
    BY <2>1 DEF NoTrace
  <2>2. CASE trace # NoTrace
    <3> DEFINE f == Profile[trace.entry].function
    <3>1. Definition(f, width) = "ok" /\ trace.values = Extracted(f, width) /\ width \in Widths
      BY <2>2 DEF HooksInv, HooksTyping
    <3> HIDE DEF f
    <3>2. \A i \in DOMAIN Extracted(f, width) : Extracted(f, width)[i] \in Values
      BY <3>1, ExtractedTyping
    <3>3. QED BY <3>1, <3>2
  <2>3. QED BY <2>1, <2>2
<1>2. QED BY <1>1, RegionsTyping, HooksInvariant, PTL

\* TracedProcess.cpp: the functions that the configuration lists for a process are hooked in every
\* library that is mapped where the walk can read it, but for those whose own hook failed.
THEOREM LibrariesAreHooked == Spec => []LibrariesHooked
<1>1. /\ RegionsTypeOK /\ WalkComplete /\ HooksTyping /\ HooksInv /\ RegionsDescribed
      => LibrariesHooked
  <2> SUFFICES ASSUME RegionsTypeOK, WalkComplete, HooksTyping, HooksInv, RegionsDescribed,
                      hooking = "hooked", os = "windows", changes = 0,
                      NEW n \in Below(root) \ Unreadable, NEW f \in Functions,
                      Describable(n), Region(n).file \in Traceable,
                      Lists(process, Region(n).file, f)
               PROVE  \E e \in hooks \cup failed :
                         Profile[e] = [module |-> Region(n).file, function |-> f]
    BY DEF LibrariesHooked
  <2> DEFINE file == Region(n).file
             N == Len(Profile)
  <2>1. /\ walk = "done" /\ HasProfile(process) /\ position > N
        /\ loadedModules = [g \in Traceable |-> RegionOf(g)]
        /\ \A e \in 1..(position - 1) : Loaded(Profile[e]) => e \in hooks \cup failed
    BY DEF HooksInv
  <2>2. {regions[i].node : i \in 1..Len(regions)} =
            {m \in Below(root) \ Unreadable : os = "windows" => Describable(m)}
    BY <2>1 DEF WalkComplete
  <2>3. PICK i \in 1..Len(regions) : regions[i].node = n
    BY <2>2
  <2>4. regions[i].file = file
    BY <2>3 DEF RegionsDescribed
  <2> HIDE DEF file
  <2>5. RegionOf(file) # Nil
    BY <2>4, RegionOfFile
  <2>6. Has(Profile, [module |-> file, function |-> f])
    BY <2>1, ListedIsTraced DEF Profile, file
  <2>7. PICK e \in 1..N : Profile[e] = [module |-> file, function |-> f]
    BY <2>6 DEF Has
  <2>8. Loaded(Profile[e])
    BY <2>1, <2>5, <2>7 DEF Loaded, isTraceableLibrary, file
  <2>9. e \in 1..(position - 1)
    <3>1. \E X : Profile \in Seq(X)
      BY <2>1, ProfileIsSequence DEF Profile
    <3>2. N \in Nat /\ position \in 1..(N + 1)
      BY <2>1, <3>1 DEF HooksTyping
    <3>3. QED BY <2>1, <3>2
  <2>10. QED BY <2>1, <2>7, <2>8, <2>9 DEF file
<1>2. QED BY <1>1, RegionsTyping, WalkIsComplete, HooksInvariant, PTL

\* Extractor.cpp: a traced value holds its own argument, as far as ParametersOwn says it.
THEOREM ParametersAreOwn == Spec => []ParametersOwn
<1>1. HooksTyping /\ HooksInv => ParametersOwn
  <2> SUFFICES ASSUME HooksTyping, HooksInv, trace # NoTrace PROVE ParametersOwn
    BY DEF ParametersOwn
  <2> DEFINE f == Profile[trace.entry].function
  <2>1. Definition(f, width) = "ok" /\ trace.values = Extracted(f, width) /\ width \in Widths
    BY DEF HooksInv, HooksTyping
  <2> HIDE DEF f
  <2>2. LET ts == ParametersOf[f]
        IN  \A i \in 1..Len(ts) :
               \/ width = 32 /\ \E j \in 1..i : Slots(ts[j]) = 2
               \/ LET own == Low(Argument(ts, i, width), SizeOf(ts[i], width))
                  IN  /\ Low(Extracted(f, width)[i], SizeOf(ts[i], width)) = own
                      /\ width = 64 /\ i > 4 => Extracted(f, width)[i] = own
    BY <2>1, OwnValues
  <2>3. QED BY <2>1, <2>2 DEF ParametersOwn, f
<1>2. QED BY <1>1, HooksInvariant, PTL
=============================================================================
