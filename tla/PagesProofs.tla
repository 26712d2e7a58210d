------------------------------ MODULE PagesProofs ------------------------------
(***************************************************************************)
(* Proofs about the pages, whatever is asked for in whatever order, and    *)
(* however late it is answered.                                            *)
(*   Groups: what the client keeps of groups and forks is right; a page    *)
(* has one change under way and is locked as long; once all is heard it    *)
(* shows what the client keeps.                                            *)
(*   Admin: what the pages of the administration save is what was edited,  *)
(* and what they show is what the client holds.                            *)
(*   Lists: the waves that are shown are of one moment, and once all is    *)
(* heard a list shows what the client holds.                               *)
(***************************************************************************)
EXTENDS Pages, SequenceTheorems, Integers, TLAPS

Group ==
  [joined : BOOLEAN, size : Int, forks : SUBSET G!Forks, consented : SUBSET G!Forks, texts : SUBSET G!Texts,
   suggestion : BOOLEAN, asking : BOOLEAN]

ClientType ==
  /\ groups \in [made : Seq(G!Forks), of : [G!Ids -> Group]]
  /\ parent \in [G!Forks -> G!Ids]

\* A fork is known where it was proposed, and nowhere else.
ForksAtParent ==
  \A g \in G!Ids, f \in G!Forks :
    f \in groups.of[g].forks \/ f \in groups.of[g].consented => parent[f] = g /\ g # f

\* A fork has no forks of its own before it is a group.
ForksOfGroups ==
  \A f \in G!Forks \ G!Listed(groups) : groups.of[f].forks = {} /\ groups.of[f].consented = {}

ClientInv == ClientType /\ ForksAtParent /\ ForksOfGroups /\ G!OneGroupPerFork /\ G!SeedsCount /\ G!NeverTooMany

-----------------------------------------------------------------------------

LEMMA SeedsAreNoForks ==
  /\ Others \in Nat
  /\ \A g \in Seeds : g \notin G!Forks
BY PagesAssumption DEF G!GroupsAssumption, G!Forks

LEMMA ListedAreIds ==
  ASSUME ClientType
  PROVE  G!Listed(groups) \subseteq G!Ids
BY DEF ClientType, G!Listed, G!Ids

LEMMA CountedGroup ==
  ASSUME NEW g \in Group, NEW in \in BOOLEAN, NEW k \in Int
  PROVE  [g EXCEPT !.joined = in, !.size = k] \in Group
BY DEF Group

\* Joining and leaving change who is in and the count, together or not at all.
LEMMA JoinedChanges ==
  ASSUME NEW g \in Group
  PROVE  /\ G!Joined(g) \in Group /\ G!Joined(g).forks = g.forks /\ G!Joined(g).consented = g.consented
         /\ G!Joined(g).joined = TRUE
         /\ g.joined => G!Joined(g).size = g.size
         /\ ~g.joined => G!Joined(g).size = g.size + 1
<1>1. CASE g.joined
  <2> DEFINE new == [g EXCEPT !.joined = TRUE, !.size = @]
  <2>1. G!Joined(g) = new
    BY <1>1, Zenon DEF G!Joined
  <2>2. new.forks = g.forks /\ new.consented = g.consented /\ new.joined = TRUE /\ new.size = g.size
    BY DEF Group
  <2>3. new \in Group
    <3>1. g.size \in Int
      BY DEF Group
    <3> QED
      BY <3>1, CountedGroup
  <2> HIDE DEF new
  <2> QED
    BY <1>1, <2>1, <2>2, <2>3, Zenon
<1>2. CASE ~g.joined
  <2> DEFINE new == [g EXCEPT !.joined = TRUE, !.size = @ + 1]
  <2>1. G!Joined(g) = new
    BY <1>2, Zenon DEF G!Joined
  <2>2. new.forks = g.forks /\ new.consented = g.consented /\ new.joined = TRUE /\ new.size = g.size + 1
    BY DEF Group
  <2>3. new \in Group
    <3>1. g.size + 1 \in Int
      BY DEF Group
    <3> QED
      BY <3>1, CountedGroup
  <2> HIDE DEF new
  <2> QED
    BY <1>2, <2>1, <2>2, <2>3, Zenon
<1> QED
  BY <1>1, <1>2

LEMMA JoinedCounts ==
  ASSUME NEW g \in Group, NEW n \in Nat, g.size = n + IF g.joined THEN 1 ELSE 0
  PROVE  G!Joined(g).size = n + IF G!Joined(g).joined THEN 1 ELSE 0
<1>1. G!Joined(g).size = n + 1
  <2>1. CASE g.joined
    BY <2>1, JoinedChanges
  <2>2. CASE ~g.joined
    <3>1. (IF g.joined THEN 1 ELSE 0) = 0
      BY <2>2, Zenon
    <3>2. g.size = n
      BY <3>1
    <3>3. G!Joined(g).size = g.size + 1
      BY <2>2, JoinedChanges, Zenon
    <3> QED
      BY <3>2, <3>3
  <2> QED
    BY <2>1, <2>2
<1>2. (IF G!Joined(g).joined THEN 1 ELSE 0) = 1
  BY JoinedChanges, Zenon
<1> QED
  BY <1>1, <1>2

\* Nor does joining count too many where the group counted too few.
LEMMA JoinedBounded ==
  ASSUME NEW g \in Group, NEW n \in Nat, g.size <= n + IF g.joined THEN 1 ELSE 0
  PROVE  G!Joined(g).size <= n + IF G!Joined(g).joined THEN 1 ELSE 0
<1>0. g.size \in Int
  BY DEF Group
<1>1. G!Joined(g).size <= n + 1
  <2>1. CASE g.joined
    <3>1. G!Joined(g).size = g.size
      BY <2>1, JoinedChanges, Zenon
    <3> QED
      BY <1>0, <2>1, <3>1
  <2>2. CASE ~g.joined
    <3>1. (IF g.joined THEN 1 ELSE 0) = 0
      BY <2>2, Zenon
    <3>2. G!Joined(g).size = g.size + 1
      BY <2>2, JoinedChanges, Zenon
    <3> QED
      BY <1>0, <3>1, <3>2
  <2> QED
    BY <2>1, <2>2
<1>2. (IF G!Joined(g).joined THEN 1 ELSE 0) = 1
  BY JoinedChanges, Zenon
<1> QED
  BY <1>1, <1>2

LEMMA LeftChanges ==
  ASSUME NEW g \in Group
  PROVE  /\ G!Left(g) \in Group /\ G!Left(g).forks = g.forks /\ G!Left(g).consented = g.consented
         /\ G!Left(g).joined = FALSE
         /\ g.joined => G!Left(g).size = g.size - 1
         /\ ~g.joined => G!Left(g).size = g.size
<1>1. CASE g.joined
  <2> DEFINE new == [g EXCEPT !.joined = FALSE, !.size = @ - 1]
  <2>1. G!Left(g) = new
    BY <1>1, Zenon DEF G!Left
  <2>2. new.forks = g.forks /\ new.consented = g.consented /\ new.joined = FALSE /\ new.size = g.size - 1
    BY DEF Group
  <2>3. new \in Group
    <3>1. g.size - 1 \in Int
      BY DEF Group
    <3> QED
      BY <3>1, CountedGroup
  <2> HIDE DEF new
  <2> QED
    BY <1>1, <2>1, <2>2, <2>3, Zenon
<1>2. CASE ~g.joined
  <2> DEFINE new == [g EXCEPT !.joined = FALSE, !.size = @]
  <2>1. G!Left(g) = new
    BY <1>2, Zenon DEF G!Left
  <2>2. new.forks = g.forks /\ new.consented = g.consented /\ new.joined = FALSE /\ new.size = g.size
    BY DEF Group
  <2>3. new \in Group
    <3>1. g.size \in Int
      BY DEF Group
    <3> QED
      BY <3>1, CountedGroup
  <2> HIDE DEF new
  <2> QED
    BY <1>2, <2>1, <2>2, <2>3, Zenon
<1> QED
  BY <1>1, <1>2

LEMMA LeftCounts ==
  ASSUME NEW g \in Group, NEW n \in Nat, g.size = n + IF g.joined THEN 1 ELSE 0
  PROVE  G!Left(g).size = n + IF G!Left(g).joined THEN 1 ELSE 0
<1>1. G!Left(g).size = n
  <2>1. CASE g.joined
    <3>1. g.size = n + 1
      BY <2>1
    <3>2. G!Left(g).size = g.size - 1
      BY <2>1, LeftChanges, Zenon
    <3> QED
      BY <3>1, <3>2
  <2>2. CASE ~g.joined
    <3>1. (IF g.joined THEN 1 ELSE 0) = 0
      BY <2>2, Zenon
    <3>2. g.size = n
      BY <3>1
    <3>3. G!Left(g).size = g.size
      BY <2>2, LeftChanges, Zenon
    <3> QED
      BY <3>2, <3>3
  <2> QED
    BY <2>1, <2>2
<1>2. (IF G!Left(g).joined THEN 1 ELSE 0) = 0
  BY LeftChanges, Zenon
<1> QED
  BY <1>1, <1>2

LEMMA LeftBounded ==
  ASSUME NEW g \in Group, NEW n \in Nat, g.size <= n + IF g.joined THEN 1 ELSE 0
  PROVE  G!Left(g).size <= n + IF G!Left(g).joined THEN 1 ELSE 0
<1>0. g.size \in Int
  BY DEF Group
<1>1. G!Left(g).size <= n
  <2>1. CASE g.joined
    <3>1. (IF g.joined THEN 1 ELSE 0) = 1
      BY <2>1, Zenon
    <3>2. G!Left(g).size = g.size - 1
      BY <2>1, LeftChanges, Zenon
    <3> QED
      BY <1>0, <3>1, <3>2
  <2>2. CASE ~g.joined
    <3>1. (IF g.joined THEN 1 ELSE 0) = 0
      BY <2>2, Zenon
    <3>2. G!Left(g).size = g.size
      BY <2>2, LeftChanges, Zenon
    <3> QED
      BY <1>0, <3>1, <3>2
  <2> QED
    BY <2>1, <2>2
<1>2. (IF G!Left(g).joined THEN 1 ELSE 0) = 0
  BY LeftChanges, Zenon
<1> QED
  BY <1>1, <1>2

\* A group may change in all but its forks, if it goes on counting.
LEMMA PutKeepsClientInv ==
  ASSUME ClientInv, NEW h \in G!Ids, NEW new \in Group,
         new.forks = groups.of[h].forks, new.consented = groups.of[h].consented,
         h \in Seeds => new.size = Others + IF new.joined THEN 1 ELSE 0,
         h \in G!Listed(groups) => new.size <= Others + IF new.joined THEN 1 ELSE 0,
         groups' = G!Put(h, new), parent' = parent
  PROVE  ClientInv'
<1>1. /\ groups'.made = groups.made
      /\ groups'.of = [groups.of EXCEPT ![h] = new]
      /\ groups' \in [made : Seq(G!Forks), of : [G!Ids -> Group]]
  BY DEF G!Put, ClientInv, ClientType
<1>2. /\ G!Listed(groups') = G!Listed(groups)
      /\ \A g \in G!Ids : groups'.of[g].forks = groups.of[g].forks /\ groups'.of[g].consented = groups.of[g].consented
  BY <1>1 DEF G!Listed, ClientInv, ClientType
<1>3. ClientType'
  BY <1>1 DEF ClientInv, ClientType
<1>4. ForksAtParent'
  BY <1>2 DEF ClientInv, ForksAtParent
<1>5. ForksOfGroups'
  BY <1>2 DEF ClientInv, ForksOfGroups, G!Ids
<1>6. G!OneGroupPerFork'
  <2>1. \A f \in G!Forks : parent[f] \in G!Ids
    BY DEF ClientInv, ClientType
  <2> QED
    BY <1>1, <1>2, <2>1 DEF ClientInv, G!OneGroupPerFork
<1>7. G!SeedsCount'
  BY <1>1 DEF ClientInv, ClientType, G!SeedsCount, G!Ids
<1>8. G!NeverTooMany'
  <2>1. /\ groups'.of[h] = new
        /\ \A g \in G!Ids \ {h} : groups'.of[g] = groups.of[g]
    BY <1>1 DEF ClientInv, ClientType
  <2> QED
    BY <1>2, <2>1, ListedAreIds DEF ClientInv, G!NeverTooMany
<1> QED
  BY <1>3, <1>4, <1>5, <1>6, <1>7, <1>8 DEF ClientInv

\* A proposal adds a fork that was not proposed before.
LEMMA ProposeKeepsClientInv ==
  ASSUME ClientInv, NEW h \in G!Listed(groups), NEW f \in G!Forks, parent[f] = f, h # f,
         groups' = G!Put(h, [groups.of[h] EXCEPT !.forks = @ \cup {f}]),
         parent' = [parent EXCEPT ![f] = h]
  PROVE  ClientInv'
<1>1. /\ h \in G!Ids /\ f \in G!Ids /\ f \notin G!Listed(groups)
      /\ \A g \in G!Ids : f \notin groups.of[g].forks /\ f \notin groups.of[g].consented
  <2>1. h \in G!Ids /\ f \in G!Ids
    BY ListedAreIds DEF ClientInv, G!Ids
  <2>2. \A g \in G!Ids : f \notin groups.of[g].forks /\ f \notin groups.of[g].consented
    BY DEF ClientInv, ForksAtParent
  <2>3. f \notin G!Listed(groups)
    BY <2>1, <2>2 DEF ClientInv, G!OneGroupPerFork
  <2> QED
    BY <2>1, <2>2, <2>3
<1>2. /\ groups'.made = groups.made
      /\ groups'.of[h].forks = groups.of[h].forks \cup {f}
      /\ groups'.of[h].consented = groups.of[h].consented
      /\ groups'.of[h].size = groups.of[h].size /\ groups'.of[h].joined = groups.of[h].joined
      /\ \A g \in G!Ids \ {h} : groups'.of[g] = groups.of[g]
  BY <1>1 DEF G!Put, ClientInv, ClientType, Group
<1>3. G!Listed(groups') = G!Listed(groups)
  BY <1>2 DEF G!Listed
<1>4. parent'[f] = h /\ \A e \in G!Forks \ {f} : parent'[e] = parent[e]
  BY DEF ClientInv, ClientType
<1>5. ClientType'
  <2>1. groups.of[h] \in Group
    BY <1>1 DEF ClientInv, ClientType
  <2>2. [groups.of[h] EXCEPT !.forks = @ \cup {f}] \in Group
    BY <2>1 DEF Group
  <2>3. groups' \in [made : Seq(G!Forks), of : [G!Ids -> Group]]
    BY <1>1, <2>2 DEF G!Put, ClientInv, ClientType
  <2> QED
    BY <1>1, <2>3 DEF ClientInv, ClientType
<1>6. ForksAtParent'
  <2>1. ASSUME NEW g \in G!Ids, NEW e \in G!Forks, e # f, e \in groups'.of[g].forks \/ e \in groups'.of[g].consented
        PROVE  parent'[e] = g /\ g # e
    <3>1. e \in groups.of[g].forks \/ e \in groups.of[g].consented
      BY <1>2, <2>1
    <3> QED
      BY <1>4, <2>1, <3>1 DEF ClientInv, ForksAtParent
  <2>2. ASSUME NEW g \in G!Ids, f \in groups'.of[g].forks \/ f \in groups'.of[g].consented
        PROVE  g = h
    BY <1>1, <1>2, <2>2
  <2>3. \A g \in G!Ids, e \in G!Forks :
          e \in groups'.of[g].forks \/ e \in groups'.of[g].consented => parent'[e] = g /\ g # e
    <3>1. \A g \in G!Ids : f \in groups'.of[g].forks \/ f \in groups'.of[g].consented => parent'[f] = g /\ g # f
      BY <1>4, <2>2
    <3> QED
      BY <2>1, <3>1, ZenonT(40)
  <2> QED
    BY <2>3 DEF ForksAtParent
<1>7. ForksOfGroups'
  BY <1>1, <1>2, <1>3 DEF ClientInv, ForksOfGroups, G!Ids
<1>8. G!OneGroupPerFork'
  <2>1. \A e \in G!Forks \ {f} : e \in G!Listed(groups') <=> e \in groups'.of[parent'[e]].consented
    BY <1>1, <1>2, <1>3, <1>4 DEF ClientInv, ClientType, G!OneGroupPerFork
  <2>2. f \notin G!Listed(groups') /\ f \notin groups'.of[parent'[f]].consented
    BY <1>1, <1>2, <1>3, <1>4
  <2>3. \A e \in G!Forks : e \in G!Listed(groups') <=> e \in groups'.of[parent'[e]].consented
    BY <2>1, <2>2
  <2>4. \A i, j \in DOMAIN groups'.made : groups'.made[i] = groups'.made[j] => i = j
    BY <1>2 DEF ClientInv, G!OneGroupPerFork
  <2> QED
    BY <2>3, <2>4 DEF G!OneGroupPerFork
<1>9. G!SeedsCount'
  BY <1>1, <1>2, ZenonT(40) DEF ClientInv, G!SeedsCount, G!Ids
<1>10. G!NeverTooMany'
  BY <1>1, <1>2, <1>3, ListedAreIds, ZenonT(40) DEF ClientInv, G!NeverTooMany
<1> QED
  BY <1>5, <1>6, <1>7, <1>8, <1>9, <1>10 DEF ClientInv

\* The first consent makes a group of a fork.
LEMMA ConsentKeepsClientInv ==
  ASSUME ClientInv, NEW h \in G!Listed(groups), NEW f \in groups.of[h].forks, f \notin G!Listed(groups),
         groups' = [made |-> Append(groups.made, f),
                    of |-> [groups.of EXCEPT ![h].consented = @ \cup {f}, ![f] = G!ForkOf(groups.of[h], f)]],
         parent' = parent
  PROVE  ClientInv'
<1>1. /\ h \in G!Ids /\ f \in G!Forks /\ f \in G!Ids /\ f \notin Seeds /\ h # f /\ parent[f] = h
      /\ groups.of[h] \in Group /\ groups.of[f] \in Group
  <2>1. h \in G!Ids
    BY ListedAreIds DEF ClientInv
  <2>2. groups.of[h] \in Group /\ f \in G!Forks
    BY <2>1 DEF ClientInv, ClientType, Group
  <2> QED
    BY <2>1, <2>2, SeedsAreNoForks DEF ClientInv, ClientType, ForksAtParent, G!Ids
<1>2. /\ groups'.made = Append(groups.made, f)
      /\ groups'.of[h] = [groups.of[h] EXCEPT !.consented = @ \cup {f}]
      /\ groups'.of[f] = G!ForkOf(groups.of[h], f)
      /\ \A g \in G!Ids \ {h, f} : groups'.of[g] = groups.of[g]
      /\ DOMAIN groups'.of = G!Ids
  BY <1>1 DEF ClientInv, ClientType
<1>3. /\ G!ForkOf(groups.of[h], f) \in Group
      /\ G!ForkOf(groups.of[h], f).forks = {} /\ G!ForkOf(groups.of[h], f).consented = {}
      /\ [groups.of[h] EXCEPT !.consented = @ \cup {f}] \in Group
  BY <1>1 DEF G!ForkOf, Group
<1>4. /\ groups'.of[h].forks = groups.of[h].forks
      /\ groups'.of[h].consented = groups.of[h].consented \cup {f}
      /\ groups'.of[h].size = groups.of[h].size /\ groups'.of[h].joined = groups.of[h].joined
      /\ groups'.of[f].forks = {} /\ groups'.of[f].consented = {}
  BY <1>1, <1>2, <1>3 DEF Group
<1>5. ClientType'
  <2>1. groups'.of \in [G!Ids -> Group]
    <3>1. \A g \in G!Ids : groups'.of[g] \in Group
      BY <1>1, <1>2, <1>3 DEF ClientInv, ClientType
    <3> QED
      BY <1>1, <3>1 DEF ClientInv, ClientType
  <2>2. groups' = [made |-> groups'.made, of |-> groups'.of] /\ groups'.made \in Seq(G!Forks)
    BY <1>1, <1>2 DEF ClientInv, ClientType
  <2> QED
    BY <2>1, <2>2 DEF ClientInv, ClientType
<1>6. G!Listed(groups') = G!Listed(groups) \cup {f}
  <2>1. /\ DOMAIN groups'.made = DOMAIN groups.made \cup {Len(groups.made) + 1}
        /\ groups'.made[Len(groups.made) + 1] = f
        /\ \A i \in DOMAIN groups.made : groups'.made[i] = groups.made[i]
    BY <1>1, <1>2 DEF ClientInv, ClientType
  <2> QED
    BY <2>1 DEF G!Listed
<1>7. ForksAtParent'
  <2>1. ASSUME NEW g \in G!Ids, NEW e \in G!Forks, e \in groups'.of[g].forks \/ e \in groups'.of[g].consented
        PROVE  e \in groups.of[g].forks \/ e \in groups.of[g].consented
    BY <1>1, <1>2, <1>4, <2>1
  <2> QED
    BY <2>1 DEF ClientInv, ForksAtParent
<1>8. ForksOfGroups'
  BY <1>1, <1>2, <1>4, <1>6 DEF ClientInv, ForksOfGroups, G!Ids
<1>9. G!OneGroupPerFork'
  <2>1. \A i, j \in DOMAIN groups'.made : groups'.made[i] = groups'.made[j] => i = j
    <3>1. \A i \in DOMAIN groups.made : groups.made[i] # f
      BY DEF G!Listed
    <3> QED
      BY <1>1, <1>2, <3>1 DEF ClientInv, ClientType, G!OneGroupPerFork
  <2>2. ASSUME NEW e \in G!Forks
        PROVE  e \in G!Listed(groups') <=> e \in groups'.of[parent[e]].consented
    <3>1. parent[e] \in G!Ids
      BY DEF ClientInv, ClientType
    <3>2. e \in G!Listed(groups) <=> e \in groups.of[parent[e]].consented
      BY DEF ClientInv, G!OneGroupPerFork
    <3>3. groups.of[f].consented = {}
      BY <1>1 DEF ClientInv, ForksOfGroups
    <3> QED
      BY <1>1, <1>2, <1>4, <1>6, <3>1, <3>2, <3>3
  <2> QED
    BY <2>1, <2>2 DEF G!OneGroupPerFork
<1>10. G!SeedsCount'
  BY <1>1, <1>2, <1>4, SeedsAreNoForks DEF ClientInv, G!SeedsCount, G!Ids
<1>11. G!NeverTooMany'
  <2>1. groups'.of[f].size = groups.of[h].size /\ groups'.of[f].joined = TRUE
    BY <1>1, <1>2 DEF G!ForkOf, Group
  <2>2. groups'.of[f].size <= Others + IF groups'.of[f].joined THEN 1 ELSE 0
    <3> DEFINE k == groups.of[h].size
               i == IF groups.of[h].joined THEN 1 ELSE 0
    <3>1. k \in Int /\ i \in 0..1 /\ k <= Others + i
      BY <1>1 DEF Group, ClientInv, G!NeverTooMany
    <3> HIDE DEF k, i
    <3>2. k <= Others + 1
      BY <3>1, SeedsAreNoForks
    <3>3. groups'.of[f].size = k
      BY <2>1 DEF k
    <3>4. (IF groups'.of[f].joined THEN 1 ELSE 0) = 1
      BY <2>1, Zenon
    <3> QED
      BY <3>2, <3>3, <3>4
  <2>3. \A g \in G!Listed(groups) : groups'.of[g].size = groups.of[g].size /\ groups'.of[g].joined = groups.of[g].joined
    BY <1>1, <1>2, <1>4, ListedAreIds DEF ClientInv
  <2>4. \A g \in G!Listed(groups) : groups'.of[g].size <= Others + IF groups'.of[g].joined THEN 1 ELSE 0
    BY <2>3, Zenon DEF ClientInv, G!NeverTooMany
  <2> QED
    BY <1>6, <2>2, <2>4 DEF G!NeverTooMany
<1> QED
  BY <1>5, <1>7, <1>8, <1>9, <1>10, <1>11 DEF ClientInv

LEMMA ClientInvKept ==
  ASSUME ClientInv, UNCHANGED G!client
  PROVE  ClientInv'
BY DEF G!client, ClientInv, ClientType, ForksAtParent, ForksOfGroups, G!OneGroupPerFork, G!SeedsCount, G!NeverTooMany, G!Listed

\* A call that the client runs.
LEMMA RunCallKeepsClientInv ==
  ASSUME ClientInv, G!RunCall
  PROVE  ClientInv'
<1> DEFINE c == Head(toClient)
           g == groups.of[c.group]
<1>1. CASE G!Allowed(c) /\ ~UNCHANGED G!client
  <2>1. /\ c.group \in G!Listed(groups) /\ c.group \in G!Ids /\ g \in Group
        /\ c.group \in Seeds => g.size = Others + IF g.joined THEN 1 ELSE 0
        /\ g.size <= Others + IF g.joined THEN 1 ELSE 0
    <3>1. c.group \in G!Listed(groups)
      BY <1>1 DEF G!Allowed
    <3>2. c.group \in G!Ids
      BY <3>1, ListedAreIds DEF ClientInv
    <3> QED
      BY <3>1, <3>2 DEF ClientInv, ClientType, G!SeedsCount, G!NeverTooMany
  <2>2. PICK f \in G!Forks :
          /\ c.op = "propose" => f \notin G!Proposed
          /\ groups' = G!After(c, f)
          /\ parent' = IF c.op = "propose" THEN [parent EXCEPT ![f] = c.group] ELSE parent
    BY <1>1 DEF G!RunCall, G!client
  <2>3. CASE c.op = "join"
    <3>1. G!Joined(g) \in Group /\ G!Joined(g).forks = g.forks /\ G!Joined(g).consented = g.consented
      BY <2>1, JoinedChanges, Zenon
    <3>3. c.group \in Seeds => G!Joined(g).size = Others + IF G!Joined(g).joined THEN 1 ELSE 0
      BY <2>1, JoinedCounts, SeedsAreNoForks
    <3>4. G!Joined(g).size <= Others + IF G!Joined(g).joined THEN 1 ELSE 0
      BY <2>1, JoinedBounded, SeedsAreNoForks
    <3>2. groups' = G!Put(c.group, G!Joined(g)) /\ parent' = parent
      BY <2>2, <2>3 DEF G!After
    <3> HIDE DEF c
    <3> QED
      BY <2>1, <3>1, <3>2, <3>3, <3>4, PutKeepsClientInv
  <2>4. CASE c.op = "leave"
    <3>1. G!Left(g) \in Group /\ G!Left(g).forks = g.forks /\ G!Left(g).consented = g.consented
      BY <2>1, LeftChanges, Zenon
    <3>3. c.group \in Seeds => G!Left(g).size = Others + IF G!Left(g).joined THEN 1 ELSE 0
      BY <2>1, LeftCounts, SeedsAreNoForks
    <3>4. G!Left(g).size <= Others + IF G!Left(g).joined THEN 1 ELSE 0
      BY <2>1, LeftBounded, SeedsAreNoForks
    <3>2. groups' = G!Put(c.group, G!Left(g)) /\ parent' = parent
      BY <2>2, <2>4 DEF G!After
    <3> HIDE DEF c
    <3> QED
      BY <2>1, <3>1, <3>2, <3>3, <3>4, PutKeepsClientInv
  <2>5. CASE c.op = "propose"
    <3>1. /\ groups' = G!Put(c.group, [g EXCEPT !.forks = @ \cup {f}])
          /\ parent' = [parent EXCEPT ![f] = c.group]
      BY <2>2, <2>5 DEF G!After
    <3>2. parent[f] = f
      BY <2>2, <2>5 DEF G!Proposed
    <3>3. c.group # f
      BY <2>1, <3>2 DEF ClientInv, G!OneGroupPerFork, ClientType, ForksAtParent
    <3> HIDE DEF c
    <3> QED
      BY <2>1, <3>1, <3>2, <3>3, ProposeKeepsClientInv
  <2>6. CASE c.op = "consent" /\ G!Moves(c.n)
    <3>1. c.n \in g.forks /\ c.n \notin G!Listed(groups)
      BY <1>1, <2>6 DEF G!Allowed, G!Moves
    <3>2. /\ groups' = [made |-> Append(groups.made, c.n),
                        of |-> [groups.of EXCEPT ![c.group].consented = @ \cup {c.n}, ![c.n] = G!ForkOf(g, c.n)]]
          /\ parent' = parent
      BY <2>2, <2>6 DEF G!After
    <3> HIDE DEF c
    <3> QED
      BY <2>1, <3>1, <3>2, ConsentKeepsClientInv
  <2>7. CASE c.op = "dismiss"
    <3> DEFINE new == [g EXCEPT !.suggestion = FALSE]
    <3>1. /\ new \in Group /\ new.forks = g.forks /\ new.consented = g.consented
          /\ new.size = g.size /\ new.joined = g.joined
      BY <2>1 DEF Group
    <3>4. /\ c.group \in Seeds => new.size = Others + IF new.joined THEN 1 ELSE 0
          /\ new.size <= Others + IF new.joined THEN 1 ELSE 0
      BY <2>1, <3>1, Zenon
    <3>2. groups' = G!Put(c.group, new) /\ parent' = parent
      BY <2>2, <2>7 DEF G!After
    <3> HIDE DEF c, new
    <3> QED
      BY <2>1, <3>1, <3>2, <3>4, PutKeepsClientInv
  <2>8. CASE c.op = "send"
    <3> DEFINE new == [g EXCEPT !.texts = @ \cup {c.n}]
    <3>1. c.n \in G!Texts
      BY <1>1, <2>8 DEF G!Allowed
    <3>2. /\ new \in Group /\ new.forks = g.forks /\ new.consented = g.consented
          /\ new.size = g.size /\ new.joined = g.joined
      BY <2>1, <3>1 DEF Group
    <3>4. /\ c.group \in Seeds => new.size = Others + IF new.joined THEN 1 ELSE 0
          /\ new.size <= Others + IF new.joined THEN 1 ELSE 0
      BY <2>1, <3>2, Zenon
    <3>3. groups' = G!Put(c.group, new) /\ parent' = parent
      BY <2>2, <2>8 DEF G!After
    <3> HIDE DEF c, new
    <3> QED
      BY <2>1, <3>2, <3>3, <3>4, PutKeepsClientInv
  <2>9. CASE /\ c.op \notin {"join", "leave", "propose", "dismiss", "send"}
             /\ ~(c.op = "consent" /\ G!Moves(c.n))
    <3>1. groups' = groups /\ parent' = parent
      BY <2>2, <2>9 DEF G!After
    <3> QED
      BY <3>1 DEF ClientInv, ClientType, ForksAtParent, ForksOfGroups, G!OneGroupPerFork, G!SeedsCount, G!NeverTooMany, G!Listed
  <2> QED
    BY <2>3, <2>4, <2>5, <2>6, <2>7, <2>8, <2>9
<1>2. CASE UNCHANGED G!client
  BY <1>2, ClientInvKept
<1>3. G!Allowed(c) \/ UNCHANGED G!client
  BY DEF G!RunCall
<1> QED
  BY <1>1, <1>2, <1>3

-----------------------------------------------------------------------------

LEMMA ClientInvInit ==
  ASSUME G!Init
  PROVE  ClientInv
<1>1. /\ groups = [made |-> <<>>, of |-> [g \in G!Ids |-> IF g \in Seeds THEN G!SeedGroup(g) ELSE G!Blank]]
      /\ parent = [f \in G!Forks |-> f]
  BY DEF G!Init
<1>2. G!Blank \in Group /\ G!Blank.forks = {} /\ G!Blank.consented = {}
  BY DEF G!Blank, Group
<1>3. ASSUME NEW g \in Seeds
      PROVE  /\ G!SeedGroup(g) \in Group /\ G!SeedGroup(g).forks = {} /\ G!SeedGroup(g).consented = {}
             /\ G!SeedGroup(g).size = Others + IF G!SeedGroup(g).joined THEN 1 ELSE 0
  <2>1. G!SeedGroup(g) = [G!Blank EXCEPT !.joined = g \in JoinedSeeds, !.asking = g \in AskingSeeds, !.suggestion = TRUE,
                                     !.size = Others + IF g \in JoinedSeeds THEN 1 ELSE 0]
    BY Zenon DEF G!SeedGroup
  <2>2. (Others + IF g \in JoinedSeeds THEN 1 ELSE 0) \in Int
    BY SeedsAreNoForks
  <2>3. /\ G!SeedGroup(g).joined = (g \in JoinedSeeds) /\ G!SeedGroup(g).asking = (g \in AskingSeeds)
        /\ G!SeedGroup(g).size = Others + IF g \in JoinedSeeds THEN 1 ELSE 0
        /\ G!SeedGroup(g).forks = {} /\ G!SeedGroup(g).consented = {}
    BY <2>1 DEF G!Blank
  <2>4. G!SeedGroup(g) \in Group
    <3> DEFINE in == g \in JoinedSeeds
               asking == g \in AskingSeeds
               n == Others + IF g \in JoinedSeeds THEN 1 ELSE 0
    <3>1. in \in BOOLEAN /\ asking \in BOOLEAN /\ n \in Int
      BY <2>2
    <3>2. G!SeedGroup(g) = [G!Blank EXCEPT !.joined = in, !.asking = asking, !.suggestion = TRUE, !.size = n]
      BY <2>1
    <3> HIDE DEF in, asking, n
    <3> QED
      BY <3>1, <3>2 DEF G!Blank, Group
  <2> QED
    BY <2>3, <2>4, Zenon
<1>4. /\ groups.made = <<>> /\ groups.made \in Seq(G!Forks)
      /\ \A g \in G!Ids : groups.of[g] \in Group /\ groups.of[g].forks = {} /\ groups.of[g].consented = {}
  BY <1>1, <1>2, <1>3
<1>5. G!Listed(groups) = Seeds
  BY <1>4 DEF G!Listed
<1>6. ClientType
  <2>1. groups.of \in [G!Ids -> Group]
    BY <1>1, <1>4
  <2> QED
    BY <1>1, <1>4, <2>1 DEF ClientType, G!Ids
<1>7. ForksAtParent /\ ForksOfGroups
  BY <1>4 DEF ForksAtParent, ForksOfGroups, G!Ids
<1>8. G!OneGroupPerFork
  <2>1. \A f \in G!Forks : f \notin G!Listed(groups) /\ parent[f] = f /\ f \in G!Ids
    BY <1>1, <1>5, SeedsAreNoForks DEF G!Ids
  <2>2. DOMAIN groups.made = {}
    BY <1>4
  <2> QED
    BY <1>4, <2>1, <2>2 DEF G!OneGroupPerFork
<1>9. G!SeedsCount
  BY <1>1, <1>3 DEF G!SeedsCount, G!Ids
<1>10. G!NeverTooMany
  <2>1. \A g \in Seeds : /\ groups.of[g].size \in Int /\ g \in G!Ids
                        /\ groups.of[g].size = Others + IF groups.of[g].joined THEN 1 ELSE 0
    BY <1>4, <1>9 DEF G!SeedsCount, Group, G!Ids
  <2>2. Others \in Nat
    BY PagesAssumption DEF PagesAssumption, G!GroupsAssumption
  <2>3. SUFFICES ASSUME NEW g \in Seeds
                 PROVE  groups.of[g].size <= Others + IF groups.of[g].joined THEN 1 ELSE 0
    BY <1>5, Zenon DEF G!NeverTooMany
  <2>4. CASE groups.of[g].joined
    BY <2>1, <2>2, <2>4
  <2>5. CASE ~groups.of[g].joined
    BY <2>1, <2>2, <2>5
  <2> QED
    BY <2>4, <2>5
<1> QED
  BY <1>6, <1>7, <1>8, <1>9, <1>10 DEF ClientInv

\* Only RunCall changes what the client keeps.
LEMMA ClientInvStep ==
  ASSUME ClientInv, G!Next
  PROVE  ClientInv'
<1>1. G!RunCall \/ UNCHANGED G!client
  <2>1. G!Member => UNCHANGED G!client
    BY DEF G!Member, G!Navigate, G!AskJoin, G!ConfirmJoin, G!Leave, G!Depart, G!Reload, G!TickConsent,
           G!CloseDialog, G!Type, G!Change
  <2>2. G!HearReply \/ G!HearGroups \/ (\E i \in DOMAIN toClient : G!TimeOut(i)) => UNCHANGED G!client
    BY DEF G!HearReply, G!HearGroups, G!TimeOut
  <2> QED
    BY <2>1, <2>2 DEF G!Next
<1>2. CASE UNCHANGED G!client
  BY <1>2, ClientInvKept
<1> QED
  BY <1>1, <1>2, RunCallKeepsClientInv

\* A step of the pages, while they are those of the groups.
LEMMA GroupsSteps ==
  ASSUME [Next]_vars, area' = "groups"
  PROVE  area = "groups" /\ (G!Next \/ UNCHANGED G!vars)
BY DEF Next, GroupsStep, ForumStep, AdminStep, ListsStep, vars, groupsOnly,
       G!vars, G!client, G!mount, G!pageState, G!dialog

\* A group that is no fork of the start has the members and forks that consents
\* and joins gave it, and a fork is consented to only where it was proposed.
THEOREM ClientInvHolds == Spec => [](area = "groups" => ClientInv)
<1> DEFINE Inv == area = "groups" => ClientInv
<1>1. Init => Inv
  BY ClientInvInit DEF Init
<1>2. Inv /\ [Next]_vars => Inv'
  <2> SUFFICES ASSUME Inv, [Next]_vars, area' = "groups"
               PROVE  ClientInv'
    OBVIOUS
  <2>1. ClientInv /\ (G!Next \/ UNCHANGED G!vars)
    BY GroupsSteps
  <2>2. CASE UNCHANGED G!vars
    BY <2>1, <2>2, ClientInvKept DEF G!vars
  <2> QED
    BY <2>1, <2>2, ClientInvStep
<1> QED
  BY <1>1, <1>2, PTL DEF Spec

\* A fork becomes one group however often the client is asked to consent.
THEOREM OneGroupPerForkHolds == Spec => []OneGroupPerFork
<1>1. (area = "groups" => ClientInv) => OneGroupPerFork
  BY DEF ClientInv, OneGroupPerFork
<1> QED
  BY <1>1, ClientInvHolds, PTL

\* A group of the start counts exactly its members, however often it is joined
\* and left, and no group, a branch of a fork included, counts too many.
THEOREM SizeCountsHolds == Spec => []SizeCounts
<1>1. (area = "groups" => ClientInv) => SizeCounts
  BY DEF ClientInv, SizeCounts, G!SizeCounts
<1> QED
  BY <1>1, ClientInvHolds, PTL

-----------------------------------------------------------------------------
(* Queues: where the elements of a set are in them.                        *)

Some(q, X) == \E i \in 1..Len(q) : q[i] \in X
AtMostOne(q, X) == \A i, j \in 1..Len(q) : q[i] \in X /\ q[j] \in X => i = j

LEMMA TailOf ==
  ASSUME NEW S, NEW q \in Seq(S), q # <<>>
  PROVE  /\ Tail(q) \in Seq(S)
         /\ Len(Tail(q)) = Len(q) - 1 /\ Len(q) \in Nat \ {0}
         /\ \A i \in 1..(Len(q) - 1) : i + 1 \in 1..Len(q) /\ Tail(q)[i] = q[i + 1]
         /\ Head(q) = q[1] /\ 1 \in 1..Len(q) /\ Head(q) \in S
  BY HeadTailProperties, LenProperties, ElementOfSeq

LEMMA AppendOf ==
  ASSUME NEW S, NEW q \in Seq(S), NEW e \in S
  PROVE  /\ Append(q, e) \in Seq(S)
         /\ Len(Append(q, e)) = Len(q) + 1 /\ Len(q) \in Nat
         /\ \A i \in 1..Len(q) : i \in 1..(Len(q) + 1) /\ Append(q, e)[i] = q[i]
         /\ Append(q, e)[Len(q) + 1] = e
  BY AppendProperties, LenProperties

LEMMA ConcatOne ==
  ASSUME NEW S, NEW q \in Seq(S), NEW e \in S
  PROVE  q \o <<e>> = Append(q, e) /\ q \o <<>> = q
<1>1. <<e>> \in Seq(S) /\ Len(<<e>>) = 1 /\ <<e>>[1] = e
  OBVIOUS
<1> DEFINE one == <<e>>
<1> HIDE DEF one
<1>2. q \o one = Append(q, e)
  <2>1. /\ q \o one \in Seq(S) /\ Len(q \o one) = Len(q) + 1 /\ Len(q) \in Nat
        /\ \A i \in 1..(Len(q) + 1) : (q \o one)[i] = IF i <= Len(q) THEN q[i] ELSE one[i - Len(q)]
    BY <1>1, ConcatProperties, LenProperties DEF one
  <2>2. \A i \in 1..(Len(q) + 1) : (q \o one)[i] = Append(q, e)[i]
    BY <1>1, <2>1, AppendOf DEF one
  <2> DEFINE a == q \o one
             b == Append(q, e)
  <2>3. a \in Seq(S) /\ b \in Seq(S) /\ Len(a) = Len(b) /\ \A i \in 1..Len(a) : a[i] = b[i]
    BY <2>1, <2>2, AppendOf
  <2> HIDE DEF a, b
  <2>4. a = b
    BY <2>3, SeqEqual
  <2> QED
    BY <2>4 DEF a, b
<1> QED
  BY <1>2, ConcatEmptySeq DEF one

LEMMA TailPlaces ==
  ASSUME NEW S, NEW q \in Seq(S), q # <<>>, NEW X
  PROVE  /\ Some(q, X) <=> Head(q) \in X \/ Some(Tail(q), X)
         /\ AtMostOne(q, X) => AtMostOne(Tail(q), X) /\ (Head(q) \in X => ~Some(Tail(q), X))
<1> DEFINE rest == Tail(q)
<1>1. /\ Len(rest) = Len(q) - 1 /\ Len(q) \in Nat \ {0}
      /\ \A i \in 1..(Len(q) - 1) : i + 1 \in 1..Len(q) /\ rest[i] = q[i + 1]
      /\ Head(q) = q[1] /\ 1 \in 1..Len(q)
  BY TailOf
<1> HIDE DEF rest
<1>2. \A i \in 1..Len(rest) : i + 1 \in 1..Len(q) /\ rest[i] = q[i + 1] /\ i + 1 # 1
  BY <1>1
<1>3. \A i \in 1..Len(q) : i = 1 \/ (i - 1 \in 1..Len(rest) /\ q[i] = rest[i - 1])
  BY <1>1
<1>4. Some(q, X) <=> q[1] \in X \/ Some(rest, X)
  BY <1>1, <1>2, <1>3 DEF Some
<1>5. ASSUME AtMostOne(q, X)
      PROVE  AtMostOne(rest, X) /\ (q[1] \in X => ~Some(rest, X))
  <2>1. \A i, j \in 1..Len(rest) : rest[i] \in X /\ rest[j] \in X => i + 1 = j + 1
    BY <1>2, <1>5 DEF AtMostOne
  <2>2. q[1] \in X => ~Some(rest, X)
    BY <1>1, <1>2, <1>5 DEF AtMostOne, Some
  <2> QED
    BY <2>1, <2>2 DEF AtMostOne
<1> QED
  BY <1>1, <1>4, <1>5 DEF rest

LEMMA AppendPlaces ==
  ASSUME NEW S, NEW q \in Seq(S), NEW e \in S, NEW X
  PROVE  /\ Some(Append(q, e), X) <=> Some(q, X) \/ e \in X
         /\ AtMostOne(q, X) /\ (e \in X => ~Some(q, X)) => AtMostOne(Append(q, e), X)
<1> DEFINE more == Append(q, e)
<1>1. /\ Len(more) = Len(q) + 1 /\ Len(q) \in Nat
      /\ \A i \in 1..Len(q) : i \in 1..Len(more) /\ more[i] = q[i]
      /\ more[Len(q) + 1] = e /\ Len(q) + 1 \in 1..Len(more)
  BY AppendOf
<1> HIDE DEF more
<1>2. \A i \in 1..Len(more) : i \in 1..Len(q) \/ i = Len(q) + 1
  BY <1>1
<1>3. Some(more, X) <=> Some(q, X) \/ e \in X
  BY <1>1, <1>2 DEF Some
<1>4. AtMostOne(q, X) /\ (e \in X => ~Some(q, X)) => AtMostOne(more, X)
  BY <1>1, <1>2 DEF AtMostOne, Some
<1> QED
  BY <1>3, <1>4 DEF more

\* An element that is marked is no longer among those of the set.
LEMMA ExceptPlaces ==
  ASSUME NEW S, NEW q \in Seq(S), NEW i \in 1..Len(q), NEW e \in S, NEW X
  PROVE  /\ (q[i] \in X <=> e \in X) => (Some([q EXCEPT ![i] = e], X) <=> Some(q, X))
         /\ AtMostOne(q, X) /\ (e \in X => q[i] \in X) => AtMostOne([q EXCEPT ![i] = e], X)
         /\ AtMostOne(q, X) /\ q[i] \in X /\ e \notin X => ~Some([q EXCEPT ![i] = e], X)
<1> DEFINE p == [q EXCEPT ![i] = e]
<1>1. Len(p) = Len(q) /\ \A j \in 1..Len(q) : p[j] = IF j = i THEN e ELSE q[j]
  BY ExceptSeq
<1> HIDE DEF p
<1>2. (q[i] \in X <=> e \in X) => (Some(p, X) <=> Some(q, X))
  BY <1>1 DEF Some
<1>3. AtMostOne(q, X) /\ (e \in X => q[i] \in X) => AtMostOne(p, X)
  BY <1>1 DEF AtMostOne
<1>4. AtMostOne(q, X) /\ q[i] \in X /\ e \notin X => ~Some(p, X)
  BY <1>1 DEF AtMostOne, Some
<1> QED
  BY <1>2, <1>3, <1>4 DEF p

LEMMA NonePlaces ==
  ASSUME NEW q, NEW X, NEW M, X \subseteq M
  PROVE  /\ Some(q, X) => Some(q, M)
         /\ AtMostOne(q, M) => AtMostOne(q, X)
         /\ ~Some(q, X) => AtMostOne(q, X)
BY DEF Some, AtMostOne

-----------------------------------------------------------------------------
(* Groups: the one change that is under way.                               *)

Changes == G!DetailOps \cup G!ListOps

GroupCall ==
  [op : Changes \cup {"groups"}, for : Changes \cup {"load"}, group : G!Ids, n : Nat, flag : BOOLEAN,
   visit : Nat, seen : Nat, over : BOOLEAN]
GroupCalls(v) ==
  {c \in GroupCall : c.visit <= v /\ IF c.op = "groups" THEN c.for \in G!Refreshed \cup {"load"} ELSE c.for = c.op}

GroupStates == [made : Seq(G!Forks), of : [G!Ids -> Group]]
GroupReplies(v) == {m \in [type : {"reply"}, call : GroupCalls(v), ok : BOOLEAN, groups : GroupStates] : ~m.call.over}
GroupMessages(v) == GroupReplies(v) \cup [type : {"groups"}, groups : GroupStates]

\* What the page of visit v waits for to end one of these changes.
Live(v, X) == {c \in GroupCalls(v) : c.visit = v /\ ~c.over /\ c.for \in X}
LiveReplies(v, X) == {m \in GroupReplies(v) : m.call \in Live(v, X)}

Lock(tc, tp, b, v) ==
  /\ AtMostOne(tc, Live(v, Changes)) /\ AtMostOne(tp, LiveReplies(v, Changes))
  /\ ~(Some(tc, Live(v, Changes)) /\ Some(tp, LiveReplies(v, Changes)))
  /\ b \subseteq Changes
  /\ \A x \in Changes : x \in b <=> Some(tc, Live(v, {x})) \/ Some(tp, LiveReplies(v, {x}))

Free(tc, tp, v) == ~Some(tc, Live(v, Changes)) /\ ~Some(tp, LiveReplies(v, Changes))

GroupsPage ==
  /\ page \in {"away", "list", "group"} /\ id \in G!Ids /\ visit \in Nat /\ seq \in Nat /\ draft \in Nat
  /\ shown \in GroupStates \cup {G!NotLoaded}
GroupsPort == toClient \in Seq(GroupCalls(visit)) /\ toPage \in Seq(GroupMessages(visit))

GroupsInv == ClientInv /\ GroupsPage /\ GroupsPort /\ (page # "away" => Lock(toClient, toPage, busy, visit))

LEMMA LiveOne ==
  ASSUME NEW v, NEW x \in Changes
  PROVE  Live(v, {x}) \subseteq Live(v, Changes) /\ LiveReplies(v, {x}) \subseteq LiveReplies(v, Changes)
BY DEF Live, LiveReplies

LEMMA FreeIsUnlocked ==
  ASSUME NEW tc, NEW tp, NEW v, Free(tc, tp, v)
  PROVE  Lock(tc, tp, {}, v)
<1>1. \A x \in Changes : ~Some(tc, Live(v, {x})) /\ ~Some(tp, LiveReplies(v, {x}))
  BY LiveOne, NonePlaces DEF Free
<1>2. AtMostOne(tc, Live(v, Changes)) /\ AtMostOne(tp, LiveReplies(v, Changes))
  BY NonePlaces DEF Free
<1> QED
  BY <1>1, <1>2 DEF Lock, Free

\* A page without a lock waits for nothing.
LEMMA UnlockedIsFree ==
  ASSUME NEW v, NEW tc \in Seq(GroupCalls(v)), NEW tp \in Seq(GroupMessages(v)), Lock(tc, tp, {}, v)
  PROVE  Free(tc, tp, v)
<1>1. \A x \in Changes : ~Some(tc, Live(v, {x})) /\ ~Some(tp, LiveReplies(v, {x}))
  BY DEF Lock
<1>2. ~Some(tc, Live(v, Changes))
  BY <1>1 DEF Some, Live
<1>3. ~Some(tp, LiveReplies(v, Changes))
  BY <1>1 DEF Some, LiveReplies, Live
<1> QED
  BY <1>2, <1>3 DEF Free

\* A change is asked for, or refreshes what it changed, where there is no other.
LEMMA LockAsks ==
  ASSUME NEW v, NEW tc \in Seq(GroupCalls(v)), NEW tp, Free(tc, tp, v),
         NEW x \in Changes, NEW c \in Live(v, {x})
  PROVE  Append(tc, c) \in Seq(GroupCalls(v)) /\ Lock(Append(tc, c), tp, {x}, v)
<1> DEFINE S == GroupCalls(v)
<1>1. c \in S /\ c.for = x /\ c \in Live(v, Changes)
  BY DEF Live
<1>2. \A y \in Changes : c \in Live(v, {y}) <=> y = x
  BY <1>1 DEF Live
<1>3. /\ Append(tc, c) \in Seq(S)
      /\ AtMostOne(Append(tc, c), Live(v, Changes))
      /\ \A y \in Changes : Some(Append(tc, c), Live(v, {y})) <=> Some(tc, Live(v, {y})) \/ y = x
  <2>1. AtMostOne(tc, Live(v, Changes))
    BY NonePlaces DEF Free
  <2> HIDE DEF S
  <2> QED
    BY <1>1, <1>2, <2>1, AppendPlaces, AppendOf DEF Free, S
<1>4. \A y \in Changes : ~Some(tc, Live(v, {y})) /\ ~Some(tp, LiveReplies(v, {y}))
  BY LiveOne, NonePlaces DEF Free
<1>5. AtMostOne(tp, LiveReplies(v, Changes)) /\ ~Some(tp, LiveReplies(v, Changes))
  BY NonePlaces DEF Free
<1> QED
  BY <1>3, <1>4, <1>5 DEF Lock

\* Anything else that is asked for leaves the lock as it is.
LEMMA LockReads ==
  ASSUME NEW v, NEW tc \in Seq(GroupCalls(v)), NEW tp, NEW b, Lock(tc, tp, b, v),
         NEW c \in GroupCalls(v), c.for = "load"
  PROVE  Append(tc, c) \in Seq(GroupCalls(v)) /\ Lock(Append(tc, c), tp, b, v)
<1> DEFINE S == GroupCalls(v)
<1>1. c \notin Live(v, Changes) /\ \A x \in Changes : c \notin Live(v, {x})
  BY DEF Live, Changes, G!DetailOps, G!ListOps
<1>2. /\ Append(tc, c) \in Seq(S)
      /\ AtMostOne(Append(tc, c), Live(v, Changes))
      /\ Some(Append(tc, c), Live(v, Changes)) <=> Some(tc, Live(v, Changes))
      /\ \A x \in Changes : Some(Append(tc, c), Live(v, {x})) <=> Some(tc, Live(v, {x}))
  <2>1. AtMostOne(tc, Live(v, Changes))
    BY DEF Lock
  <2> HIDE DEF S
  <2> QED
    BY <1>1, <2>1, AppendPlaces, AppendOf DEF S
<1> QED
  BY <1>2 DEF Lock

\* A new page waits for nothing yet.
LEMMA NothingLiveYet ==
  ASSUME NEW v \in Nat, NEW tc \in Seq(GroupCalls(v)), NEW tp \in Seq(GroupMessages(v))
  PROVE  Free(tc, tp, v + 1)
<1>1. ASSUME NEW c \in GroupCalls(v)
      PROVE  c \notin Live(v + 1, Changes)
  <2>1. c.visit \in Nat /\ c.visit <= v
    BY DEF GroupCalls, GroupCall
  <2> QED
    BY <2>1 DEF Live
<1>2. ASSUME NEW m \in GroupMessages(v)
      PROVE  m \notin LiveReplies(v + 1, Changes)
  <2>1. CASE m \in GroupReplies(v)
    BY <1>1, <2>1 DEF LiveReplies, GroupReplies
  <2>2. CASE m \in [type : {"groups"}, groups : GroupStates]
    BY <2>2 DEF LiveReplies, GroupReplies
  <2> QED
    BY <2>1, <2>2 DEF GroupMessages
<1> QED
  BY <1>1, <1>2 DEF Free, Some

LEMMA GroupCallsLater ==
  ASSUME NEW v \in Nat, NEW w \in Nat, v <= w
  PROVE  GroupCalls(v) \subseteq GroupCalls(w) /\ GroupMessages(v) \subseteq GroupMessages(w)
<1>1. GroupCalls(v) \subseteq GroupCalls(w)
  BY DEF GroupCalls, GroupCall
<1> QED
  BY <1>1 DEF GroupMessages, GroupReplies

LEMMA NewRead ==
  ASSUME NEW for \in G!Refreshed \cup {"load"}, NEW v \in Nat, NEW at \in Nat, NEW g \in G!Ids, id \in G!Ids,
         NEW c, c = G!Read(for, v, at) \/ c = [G!Read(for, v, at) EXCEPT !.group = g]
  PROVE  c \in GroupCalls(v) /\ c.for = for /\ c.visit = v /\ ~c.over
<1> DEFINE no == FALSE
           zero == 0
           op == "groups"
           plain == G!Read(for, v, at)
<1>1. plain = [op |-> op, for |-> for, group |-> id, n |-> zero, flag |-> no, visit |-> v, seen |-> at, over |-> no]
  BY DEF G!Read
<1>2. for \in Changes \cup {"load"} /\ no \in BOOLEAN /\ ~no /\ zero \in Nat /\ op = "groups"
  BY DEF G!Refreshed, Changes, G!DetailOps, G!ListOps
<1>3. c = plain \/ c = [plain EXCEPT !.group = g]
  OBVIOUS
<1> HIDE DEF no, zero, op, plain
<1>4. \E h \in {id, g} :
        c = [op |-> op, for |-> for, group |-> h, n |-> zero, flag |-> no, visit |-> v, seen |-> at, over |-> no]
  BY <1>1, <1>3
<1>5. c \in GroupCall
  BY <1>2, <1>4 DEF GroupCall
<1>6. c.op = "groups" /\ c.for = for /\ c.visit = v /\ ~c.over
  BY <1>2, <1>4
<1> QED
  BY <1>5, <1>6 DEF GroupCalls

LEMMA NewChange ==
  ASSUME NEW op \in Changes, NEW g \in G!Ids, NEW n \in Nat, NEW flag \in BOOLEAN, visit \in Nat, seq \in Nat
  PROVE  G!Call(op, g, n, flag) \in Live(visit, {op})
<1> DEFINE no == FALSE
           c == G!Call(op, g, n, flag)
<1>1. c = [op |-> op, for |-> op, group |-> g, n |-> n, flag |-> flag, visit |-> visit, seen |-> seq, over |-> no]
  BY DEF G!Call
<1>2. no \in BOOLEAN /\ ~no /\ op # "groups"
  BY DEF Changes, G!DetailOps, G!ListOps
<1> HIDE DEF no, c
<1>3. c \in GroupCall
  BY <1>1, <1>2 DEF GroupCall
<1>4. c.op = op /\ c.for = op /\ c.visit = visit /\ ~c.over
  BY <1>1, <1>2
<1> QED
  BY <1>2, <1>3, <1>4 DEF GroupCalls, Live, c

\* What is left in the port once call c was answered, or given up.
Awaits(c, q, tp) ==
  IF G!RouteLive(c) /\ c.for # "load" THEN busy = {c.for} /\ Free(q, tp, visit)
  ELSE page # "away" => Lock(q, tp, busy, visit)

Locked(tp) == GroupsPage' /\ toClient' \in Seq(GroupCalls(visit')) /\ visit' \in Nat /\ visit <= visit'
                /\ (page' # "away" => Lock(toClient', tp, busy', visit'))

LEMMA MountLocks ==
  ASSUME GroupsPage, NEW p \in {"list", "group"}, NEW g \in G!Ids,
         NEW q \in Seq(GroupCalls(visit)), NEW tp \in Seq(GroupMessages(visit)), G!Mount(p, g, q)
  PROVE  Locked(tp)
<1> DEFINE c == [G!Read("load", visit + 1, 0) EXCEPT !.group = g]
           v == visit + 1
<1>1. /\ page' = p /\ id' = g /\ visit' = v /\ seq' = 0 /\ shown' = G!NotLoaded /\ busy' = {} /\ draft' = 0
      /\ toClient' = Append(q, c)
  BY DEF G!Mount, G!NoText
<1>2. v \in Nat /\ visit \in Nat /\ visit <= v
  BY DEF GroupsPage
<1>3. c \in GroupCalls(v) /\ c.for = "load"
  <2> DEFINE zero == 0
             for == "load"
  <2>1. zero \in Nat /\ for \in G!Refreshed \cup {"load"} /\ id \in G!Ids /\ c = [G!Read(for, v, zero) EXCEPT !.group = g]
    BY DEF GroupsPage
  <2> HIDE DEF v, zero, for, c
  <2>2. c \in GroupCalls(v) /\ c.for = for
    BY <1>2, <2>1, NewRead
  <2> QED
    BY <2>2 DEF for
<1>4. Free(q, tp, v)
  BY NothingLiveYet DEF GroupsPage
<1>5. q \in Seq(GroupCalls(v))
  BY <1>2, GroupCallsLater, SeqMonotonic
<1> HIDE DEF c, v
<1>6. Append(q, c) \in Seq(GroupCalls(v)) /\ Lock(Append(q, c), tp, {}, v)
  BY <1>3, <1>4, <1>5, FreeIsUnlocked, LockReads
<1> QED
  BY <1>1, <1>2, <1>6 DEF Locked, GroupsPage

LEMMA ReadAnsweredLocks ==
  ASSUME GroupsPage, NEW c \in GroupCalls(visit), c.op = "groups", G!RouteLive(c), NEW ok \in BOOLEAN, NEW s,
         ok => s \in GroupStates,
         NEW q \in Seq(GroupCalls(visit)), NEW tp \in Seq(GroupMessages(visit)), Awaits(c, q, tp),
         G!ReadAnswered(c, ok, s, q)
  PROVE  Locked(tp)
<1>1. c.group \in G!Ids /\ c.for \in G!Refreshed \cup {"load"} /\ visit \in Nat
  BY DEF GroupCalls, GroupCall, GroupsPage
<1>2. CASE c.for = "join"
  BY <1>1, <1>2, MountLocks DEF G!ReadAnswered
<1>3. CASE c.for # "join"
  <2>1. /\ toClient' = q /\ visit' = visit /\ page' = page /\ id' = id /\ seq' = seq /\ draft' = draft
        /\ busy' = busy \ {c.for} /\ (shown' = shown \/ shown' \in GroupStates)
    BY <1>3 DEF G!ReadAnswered, G!mount
  <2>2. page # "away"
    BY DEF G!RouteLive
  <2>3. GroupsPage'
    BY <2>1 DEF GroupsPage
  <2>4. Lock(q, tp, busy \ {c.for}, visit)
    <3>1. CASE c.for = "load"
      <4>1. Lock(q, tp, busy, visit)
        BY <2>2, <3>1 DEF Awaits
      <4>2. busy \ {"load"} = busy
        BY <4>1 DEF Lock, Changes, G!DetailOps, G!ListOps
      <4> QED
        BY <3>1, <4>1, <4>2
    <3>2. CASE c.for # "load"
      <4>1. busy \ {c.for} = {} /\ Free(q, tp, visit)
        BY <3>2 DEF Awaits
      <4> QED
        BY <4>1, FreeIsUnlocked
    <3> QED
      BY <3>1, <3>2
  <2> QED
    BY <1>1, <2>1, <2>3, <2>4 DEF Locked
<1> QED
  BY <1>2, <1>3

\* A proposal brings its group back.
LEMMA ProposedIsShown ==
  ASSUME shown \in GroupStates \cup {G!NotLoaded}, id \in G!Ids, NEW s \in GroupStates
  PROVE  /\ [shown EXCEPT !.of[id] = s.of[id]] \in GroupStates \cup {G!NotLoaded}
         /\ shown = G!NotLoaded => [shown EXCEPT !.of[id] = s.of[id]] = G!NotLoaded
<1>1. CASE shown \in GroupStates
  <2>1. s.of[id] \in Group
    BY DEF GroupStates
  <2> DEFINE g == s.of[id]
  <2> HIDE DEF g
  <2>2. [shown EXCEPT !.of[id] = g] \in GroupStates
    BY <1>1, <2>1 DEF GroupStates, g
  <2>3. shown # G!NotLoaded
    <3>1. DOMAIN shown.of = G!Ids /\ G!Ids # {}
      BY <1>1 DEF GroupStates
    <3>2. DOMAIN G!NotLoaded.of = {}
      BY DEF G!NotLoaded
    <3> QED
      BY <3>1, <3>2
  <2> QED
    BY <2>2, <2>3 DEF g
<1>2. CASE shown = G!NotLoaded
  <2> DEFINE none == <<>>
             g == s.of[id]
  <2>1. shown = [made |-> none, of |-> none] /\ DOMAIN none = {}
    BY <1>2 DEF G!NotLoaded
  <2>2. [none EXCEPT ![id] = g] = none
    OBVIOUS
  <2> HIDE DEF none, g
  <2>3. [shown EXCEPT !.of = [none EXCEPT ![id] = g]] = [made |-> none, of |-> none]
    BY <2>1, <2>2
  <2>4. [shown EXCEPT !.of[id] = g] = [shown EXCEPT !.of = [none EXCEPT ![id] = g]]
    BY <2>1
  <2> QED
    BY <1>2, <2>1, <2>3, <2>4 DEF g
<1> QED
  BY <1>1, <1>2

LEMMA ChangeDoneLocks ==
  ASSUME GroupsPage, NEW c \in GroupCalls(visit), c.op # "groups", G!RouteLive(c), NEW s \in GroupStates,
         NEW q \in Seq(GroupCalls(visit)), NEW tp \in Seq(GroupMessages(visit)), Awaits(c, q, tp),
         G!ChangeDone(c, s, q)
  PROVE  Locked(tp)
<1>1. c.group \in G!Ids /\ c.op \in Changes /\ c.for = c.op /\ visit \in Nat /\ c.for # "load"
  BY DEF GroupCalls, GroupCall, GroupsPage, Changes, G!DetailOps, G!ListOps
<1>2. busy = {c.for} /\ Free(q, tp, visit)
  BY <1>1 DEF Awaits
<1>3. visit' = visit /\ page' = page /\ id' = id /\ (draft' = draft \/ draft' = 0) /\ (seq' = seq \/ seq' = seq + 1)
  BY DEF G!ChangeDone, G!mount, G!NoText
<1>4. shown' = shown \/ shown' = [shown EXCEPT !.of[id] = s.of[id]]
  BY DEF G!ChangeDone
<1>5. GroupsPage'
  <2>1. /\ page \in {"away", "list", "group"} /\ id \in G!Ids /\ visit \in Nat /\ seq \in Nat /\ draft \in Nat
        /\ shown \in GroupStates \cup {G!NotLoaded}
    BY DEF GroupsPage
  <2>2. [shown EXCEPT !.of[id] = s.of[id]] \in GroupStates \cup {G!NotLoaded}
    BY <2>1, ProposedIsShown
  <2> DEFINE new == [shown EXCEPT !.of[id] = s.of[id]]
             states == GroupStates \cup {G!NotLoaded}
  <2>3. shown \in states /\ new \in states /\ (shown' = shown \/ shown' = new)
    BY <1>4, <2>1, <2>2
  <2> HIDE DEF new, states
  <2>4. shown' \in states
    BY <2>3
  <2>5. page' \in {"away", "list", "group"} /\ id' \in G!Ids /\ visit' \in Nat /\ seq' \in Nat /\ draft' \in Nat
    BY <1>3, <2>1
  <2> QED
    BY <2>4, <2>5 DEF GroupsPage, states
<1>6. CASE c.op \in G!Refreshed
  <2> DEFINE d == [G!Read(c.op, visit, seq') EXCEPT !.group = c.group]
  <2>1. toClient' = Append(q, d) /\ busy' = busy
    BY <1>6 DEF G!ChangeDone
  <2>2. d \in GroupCalls(visit) /\ d.for = c.op /\ d.visit = visit /\ ~d.over
    <3> DEFINE at == seq'
               g == c.group
               for == c.op
    <3>1. at \in Nat /\ g \in G!Ids /\ for \in G!Refreshed
      BY <1>1, <1>5, <1>6 DEF GroupsPage
    <3>2. d = [G!Read(for, visit, at) EXCEPT !.group = g] /\ id \in G!Ids
      BY DEF GroupsPage
    <3> HIDE DEF at, g, for, d
    <3>3. d \in GroupCalls(visit) /\ d.for = for /\ d.visit = visit /\ ~d.over
      BY <1>1, <3>1, <3>2, NewRead
    <3> QED
      BY <3>3 DEF for
  <2> HIDE DEF d
  <2>3. d \in Live(visit, {c.op})
    BY <2>2 DEF Live
  <2>4. Append(q, d) \in Seq(GroupCalls(visit)) /\ Lock(Append(q, d), tp, busy, visit)
    BY <1>1, <1>2, <2>3, LockAsks
  <2> QED
    BY <1>1, <1>3, <1>5, <2>1, <2>4 DEF Locked
<1>7. CASE c.op \notin G!Refreshed
  <2>1. toClient' = q /\ busy' = {}
    BY <1>1, <1>2, <1>7 DEF G!ChangeDone
  <2> QED
    BY <1>1, <1>2, <1>3, <1>5, <2>1, FreeIsUnlocked DEF Locked
<1> QED
  BY <1>6, <1>7

LEMMA ContinueLocks ==
  ASSUME GroupsPage, NEW c \in GroupCalls(visit), NEW ok \in BOOLEAN, NEW s, ok => s \in GroupStates,
         NEW q \in Seq(GroupCalls(visit)), NEW tp \in Seq(GroupMessages(visit)), Awaits(c, q, tp),
         G!Continue(c, ok, s, q)
  PROVE  Locked(tp)
<1>1. CASE ~G!RouteLive(c)
  <2>1. toClient' = q /\ UNCHANGED <<page, id, visit, seq, shown, busy, draft>>
    BY <1>1 DEF G!Continue, G!mount, G!pageState
  <2> QED
    BY <1>1, <2>1 DEF Locked, Awaits, GroupsPage
<1>2. CASE G!RouteLive(c) /\ c.op = "groups"
  BY <1>2, ReadAnsweredLocks DEF G!Continue
<1>3. CASE G!RouteLive(c) /\ c.op # "groups" /\ ok
  BY <1>3, ChangeDoneLocks DEF G!Continue
<1>4. CASE G!RouteLive(c) /\ c.op # "groups" /\ ~ok
  <2>1. c.for = c.op /\ c.for # "load"
    BY <1>4 DEF GroupCalls, GroupCall, Changes, G!DetailOps, G!ListOps
  <2>2. toClient' = q /\ UNCHANGED <<page, id, visit, seq, shown, draft>> /\ busy' = busy \ {c.op}
    BY <1>4 DEF G!Continue, G!ChangeFailed, G!mount
  <2>3. busy' = {} /\ Free(q, tp, visit)
    BY <1>4, <2>1, <2>2 DEF Awaits
  <2>4. Lock(q, tp, busy', visit)
    <3> DEFINE b == busy'
    <3>1. b = {} /\ Lock(q, tp, {}, visit)
      BY <2>3, FreeIsUnlocked
    <3> QED
      BY <3>1
  <2>5. GroupsPage' /\ visit \in Nat
    BY <2>2 DEF GroupsPage
  <2> QED
    BY <2>2, <2>4, <2>5 DEF Locked
<1> QED
  BY <1>1, <1>2, <1>3, <1>4

LEMMA HearReplyLocks ==
  ASSUME GroupsInv, G!HearReply
  PROVE  GroupsInv'
<1> DEFINE m == Head(toPage)
           rest == Tail(toPage)
           c == m.call
<1>1. toPage # <<>> /\ m.type = "reply" /\ toPage' = rest /\ UNCHANGED G!client
      /\ G!Continue(c, m.ok, m.groups, toClient)
  BY DEF G!HearReply
<1>2. toPage \in Seq(GroupMessages(visit)) /\ rest \in Seq(GroupMessages(visit)) /\ m \in GroupMessages(visit)
  BY <1>1, TailOf DEF GroupsInv, GroupsPort
<1>3. m \in GroupReplies(visit)
  <2> HIDE DEF m
  <2> QED
    BY <1>1, <1>2 DEF GroupMessages
<1>4. c \in GroupCalls(visit) /\ ~c.over /\ m.ok \in BOOLEAN /\ m.groups \in GroupStates
  <2> HIDE DEF m
  <2> QED
    BY <1>3 DEF GroupReplies
<1>5. \A X : /\ Some(toPage, X) <=> m \in X \/ Some(rest, X)
             /\ AtMostOne(toPage, X) => AtMostOne(rest, X) /\ (m \in X => ~Some(rest, X))
  BY <1>1, <1>2, TailPlaces
<1>6. \A X : m \in LiveReplies(visit, X) <=> c.visit = visit /\ c.for \in X
  <2> HIDE DEF m
  <2> QED
    BY <1>3, <1>4 DEF LiveReplies, Live
<1> HIDE DEF c, rest, m
<1>7. Awaits(c, toClient, rest)
  <2>1. CASE G!RouteLive(c) /\ c.for # "load"
    <3>1. Lock(toClient, toPage, busy, visit)
      BY <2>1 DEF GroupsInv, G!RouteLive
    <3>2. c.for \in Changes
      BY <1>4, <2>1 DEF GroupCalls, GroupCall
    <3>3. m \in LiveReplies(visit, Changes) /\ c.visit = visit
      BY <1>6, <2>1, <3>2 DEF G!RouteLive
    <3>4. Free(toClient, rest, visit)
      BY <1>5, <3>1, <3>3 DEF Lock, Free
    <3>5. \A x \in Changes : ~Some(toClient, Live(visit, {x})) /\ ~Some(rest, LiveReplies(visit, {x}))
      BY <3>4, LiveOne, NonePlaces DEF Free
    <3>6. \A x \in Changes : x \in busy <=> m \in LiveReplies(visit, {x})
      BY <1>5, <3>1, <3>5 DEF Lock
    <3>7. busy = {c.for}
      BY <1>6, <3>1, <3>2, <3>3, <3>6, ZenonT(40) DEF Lock
    <3> QED
      BY <2>1, <3>4, <3>7 DEF Awaits
  <2>2. CASE ~(G!RouteLive(c) /\ c.for # "load")
    <3> SUFFICES ASSUME page # "away"
                 PROVE  Lock(toClient, rest, busy, visit)
      BY <2>2 DEF Awaits
    <3>1. Lock(toClient, toPage, busy, visit)
      BY DEF GroupsInv
    <3>2. m \notin LiveReplies(visit, Changes) /\ \A x \in Changes : m \notin LiveReplies(visit, {x})
      BY <1>6, <2>2 DEF G!RouteLive, Changes, G!DetailOps, G!ListOps
    <3> QED
      BY <1>5, <3>1, <3>2 DEF Lock
  <2> QED
    BY <2>1, <2>2
<1>8. Locked(rest)
  BY <1>1, <1>2, <1>4, <1>7, ContinueLocks DEF GroupsInv, GroupsPort, m, c
<1>9. toPage' \in Seq(GroupMessages(visit'))
  BY <1>1, <1>2, <1>8, GroupCallsLater, SeqMonotonic DEF Locked, GroupsInv, GroupsPage, rest
<1>10. ClientInv'
  BY <1>1, ClientInvKept DEF GroupsInv
<1>11. toPage' = rest
  BY <1>1 DEF rest
<1> QED
  BY <1>8, <1>9, <1>10, <1>11 DEF GroupsInv, GroupsPort, Locked

LEMMA EventLocks ==
  ASSUME NEW v, NEW tc, NEW tp \in Seq(GroupMessages(v)), NEW b, NEW s \in GroupStates, NEW ev,
         ev = [type |-> "groups", groups |-> s]
  PROVE  /\ Append(tp, ev) \in Seq(GroupMessages(v))
         /\ Lock(tc, tp, b, v) => Lock(tc, Append(tp, ev), b, v)
<1>1. ev \in GroupMessages(v)
  BY DEF GroupMessages
<1>2. \A X : ev \notin LiveReplies(v, X)
  BY DEF LiveReplies, GroupReplies
<1>3. Append(tp, ev) \in Seq(GroupMessages(v))
  BY <1>1, AppendOf
<1>4. \A X : /\ Some(Append(tp, ev), LiveReplies(v, X)) <=> Some(tp, LiveReplies(v, X))
             /\ AtMostOne(tp, LiveReplies(v, X)) => AtMostOne(Append(tp, ev), LiveReplies(v, X))
  BY <1>1, <1>2, AppendPlaces
<1> QED
  BY <1>3, <1>4 DEF Lock

LEMMA AnsweredLocks ==
  ASSUME NEW v, NEW tc \in Seq(GroupCalls(v)), tc # <<>>, NEW tp \in Seq(GroupMessages(v)), NEW b,
         NEW m \in GroupReplies(v), m.call = Head(tc)
  PROVE  /\ Append(tp, m) \in Seq(GroupMessages(v))
         /\ Lock(tc, tp, b, v) => Lock(Tail(tc), Append(tp, m), b, v)
<1> DEFINE rest == Tail(tc)
           more == Append(tp, m)
<1>1. m \in GroupMessages(v)
  BY DEF GroupMessages
<1>2. \A X : m \in LiveReplies(v, X) <=> Head(tc) \in Live(v, X)
  BY DEF LiveReplies
<1>3. more \in Seq(GroupMessages(v))
  BY <1>1, AppendOf
<1>4. \A X : /\ Some(more, X) <=> Some(tp, X) \/ m \in X
             /\ AtMostOne(tp, X) /\ (m \in X => ~Some(tp, X)) => AtMostOne(more, X)
  BY <1>1, AppendPlaces
<1>5. \A X : /\ Some(tc, X) <=> Head(tc) \in X \/ Some(rest, X)
             /\ AtMostOne(tc, X) => AtMostOne(rest, X) /\ (Head(tc) \in X => ~Some(rest, X))
  BY TailPlaces
<1> HIDE DEF rest, more
<1>6. ASSUME Lock(tc, tp, b, v)
      PROVE  Lock(rest, more, b, v)
  <2>1. AtMostOne(rest, Live(v, Changes)) /\ AtMostOne(more, LiveReplies(v, Changes))
    BY <1>2, <1>4, <1>5, <1>6 DEF Lock
  <2>2. ~(Some(rest, Live(v, Changes)) /\ Some(more, LiveReplies(v, Changes)))
    BY <1>2, <1>4, <1>5, <1>6 DEF Lock
  <2>3. \A x \in Changes : x \in b <=> Some(rest, Live(v, {x})) \/ Some(more, LiveReplies(v, {x}))
    BY <1>2, <1>4, <1>5, <1>6 DEF Lock
  <2> QED
    BY <1>6, <2>1, <2>2, <2>3 DEF Lock
<1> QED
  BY <1>3, <1>6 DEF rest, more

LEMMA DroppedLocks ==
  ASSUME NEW v, NEW tc \in Seq(GroupCalls(v)), tc # <<>>, Head(tc).over, NEW tp, NEW b
  PROVE  Lock(tc, tp, b, v) => Lock(Tail(tc), tp, b, v)
<1>1. \A X : Head(tc) \notin Live(v, X)
  BY DEF Live
<1>2. \A X : /\ Some(tc, X) <=> Head(tc) \in X \/ Some(Tail(tc), X)
             /\ AtMostOne(tc, X) => AtMostOne(Tail(tc), X)
  BY TailPlaces
<1> QED
  BY <1>1, <1>2 DEF Lock

LEMMA GroupsAreStates ==
  ASSUME ClientInv
  PROVE  groups \in GroupStates
BY DEF ClientInv, ClientType, GroupStates

\* What the client sends when it runs a call: an event if the call changes what
\* other pages show, and then the answer, unless nobody waits for it.
Sends(c, announced, ok, ev, m) ==
  /\ ev = [type |-> "groups", groups |-> groups']
  /\ m = [type |-> "reply", call |-> c, ok |-> ok, groups |-> groups']
  /\ LET told == IF announced THEN Append(toPage, ev) ELSE toPage IN
     toPage' = IF c.over THEN told ELSE Append(told, m)

LEMMA RunCallSends ==
  ASSUME GroupsInv, G!RunCall
  PROVE  \E announced, ok \in BOOLEAN : \E ev, m :
           /\ Sends(Head(toClient), announced, ok, ev, m)
           /\ ~announced => \/ UNCHANGED G!client
                            \/ \E f \in G!Forks : /\ groups' = G!After(Head(toClient), f)
                                                  /\ ~G!Announced(Head(toClient))
<1> DEFINE c == Head(toClient)
           ev == [type |-> "groups", groups |-> groups']
           m(ok) == [type |-> "reply", call |-> c, ok |-> ok, groups |-> groups']
           S == GroupMessages(visit) \cup {ev} \cup {m(TRUE), m(FALSE)}
           told == IF G!Announced(c) THEN Append(toPage, ev) ELSE toPage
<1>1. toPage \in Seq(S)
  <2>1. toPage \in Seq(GroupMessages(visit))
    BY DEF GroupsInv, GroupsPort
  <2> HIDE DEF m, ev
  <2> QED
    BY <2>1, SeqMonotonic
<1>2. told \in Seq(S) /\ ev \in S /\ m(TRUE) \in S /\ m(FALSE) \in S
  <2> HIDE DEF m, ev, c
  <2> QED
    BY <1>1, AppendOf
<1>3. \A ok \in BOOLEAN : G!Reply(c, ok) = IF c.over THEN <<>> ELSE <<m(ok)>>
  BY DEF G!Reply
<1> HIDE DEF S
<1>4. \A ok \in BOOLEAN, q \in Seq(S) : q \o G!Reply(c, ok) = IF c.over THEN q ELSE Append(q, m(ok))
  <2> SUFFICES ASSUME NEW ok \in BOOLEAN, NEW q \in Seq(S)
               PROVE  q \o G!Reply(c, ok) = IF c.over THEN q ELSE Append(q, m(ok))
    OBVIOUS
  <2>1. m(ok) \in S
    BY <1>2
  <2> DEFINE e == m(ok)
  <2> HIDE DEF e
  <2>2. q \o <<e>> = Append(q, e) /\ q \o <<>> = q
    BY <2>1, ConcatOne DEF e
  <2>3. G!Reply(c, ok) = IF c.over THEN <<>> ELSE <<e>>
    BY <1>3 DEF e
  <2> HIDE DEF m, c
  <2> QED
    BY <2>2, <2>3 DEF e
<1>5. \/ \E f \in G!Forks : groups' = G!After(c, f) /\ toPage' = told \o G!Reply(c, TRUE)
      \/ UNCHANGED G!client /\ toPage' = toPage \o G!Reply(c, FALSE)
  BY DEF G!RunCall
<1> DEFINE announced == G!Announced(c)
<1>6. announced \in BOOLEAN
  BY DEF G!Announced, G!Moves
<1>7. CASE \E f \in G!Forks : groups' = G!After(c, f) /\ toPage' = told \o G!Reply(c, TRUE)
  <2>1. Sends(c, announced, TRUE, ev, m(TRUE))
    <3>1. toPage' = IF c.over THEN told ELSE Append(told, m(TRUE))
      BY <1>2, <1>4, <1>7
    <3> QED
      BY <3>1 DEF Sends
  <2> HIDE DEF m, ev
  <2> QED
    BY <1>6, <1>7, <2>1
<1>8. CASE UNCHANGED G!client /\ toPage' = toPage \o G!Reply(c, FALSE)
  <2>1. Sends(c, FALSE, FALSE, ev, m(FALSE))
    <3>1. toPage' = IF c.over THEN toPage ELSE Append(toPage, m(FALSE))
      BY <1>1, <1>4, <1>8
    <3> QED
      BY <3>1 DEF Sends
  <2> HIDE DEF m, ev, told, c
  <2> QED
    BY <1>8, <2>1 DEF c
<1> QED
  BY <1>5, <1>7, <1>8

LEMMA RunCallLocks ==
  ASSUME GroupsInv, G!RunCall
  PROVE  GroupsInv'
<1>1. /\ toClient # <<>> /\ toClient' = Tail(toClient)
      /\ UNCHANGED <<page, id, visit, seq, shown, busy, draft>>
  BY DEF G!RunCall, G!mount, G!pageState
<1>2. ClientInv' /\ groups' \in GroupStates
  <2>1. ClientInv'
    BY RunCallKeepsClientInv DEF GroupsInv
  <2> DEFINE s == groups'
  <2>2. s \in GroupStates
    BY <2>1 DEF ClientInv, ClientType, GroupStates
  <2> QED
    BY <2>1, <2>2
<1> DEFINE c == Head(toClient)
<1>3. /\ toClient \in Seq(GroupCalls(visit)) /\ toPage \in Seq(GroupMessages(visit)) /\ c \in GroupCalls(visit)
      /\ Tail(toClient) \in Seq(GroupCalls(visit))
  BY <1>1, TailOf DEF GroupsInv, GroupsPort
<1>40. PICK announced, ok \in BOOLEAN : \E ev, m : Sends(c, announced, ok, ev, m)
  BY RunCallSends
<1>4. PICK ev, m : Sends(c, announced, ok, ev, m)
  BY <1>40
<1> DEFINE told == IF announced THEN Append(toPage, ev) ELSE toPage
           s == groups'
<1>5. /\ told \in Seq(GroupMessages(visit))
      /\ Lock(toClient, toPage, busy, visit) => Lock(toClient, told, busy, visit)
  <2>1. ev = [type |-> "groups", groups |-> s] /\ s \in GroupStates
    BY <1>2, <1>4 DEF Sends
  <2> HIDE DEF s
  <2> QED
    BY <1>3, <2>1, EventLocks
<1>6. toPage' = IF c.over THEN told ELSE Append(told, m)
  BY <1>4 DEF Sends
<1>7. /\ toPage' \in Seq(GroupMessages(visit))
      /\ Lock(toClient, toPage, busy, visit) => Lock(Tail(toClient), toPage', busy, visit)
  <2>1. CASE c.over
    BY <1>1, <1>3, <1>5, <1>6, <2>1, DroppedLocks
  <2>2. CASE ~c.over
    <3>1. m = [type |-> "reply", call |-> c, ok |-> ok, groups |-> s] /\ s \in GroupStates
      BY <1>2, <1>4 DEF Sends
    <3> HIDE DEF s, told, c
    <3>2. m \in GroupReplies(visit) /\ m.call = c
      BY <1>3, <2>2, <3>1 DEF GroupReplies
    <3> QED
      BY <1>1, <1>3, <1>5, <1>6, <2>2, <3>2, AnsweredLocks DEF c
  <2> QED
    BY <2>1, <2>2
<1> QED
  BY <1>1, <1>2, <1>3, <1>7 DEF GroupsInv, GroupsPage, GroupsPort

LEMMA HearGroupsLocks ==
  ASSUME GroupsInv, G!HearGroups
  PROVE  GroupsInv'
<1> DEFINE m == Head(toPage)
           rest == Tail(toPage)
           s == m.groups
<1>1. toPage # <<>> /\ m.type = "groups" /\ toPage' = rest /\ UNCHANGED G!client /\ toClient' = toClient
  BY DEF G!HearGroups
<1>2. /\ toPage \in Seq(GroupMessages(visit)) /\ rest \in Seq(GroupMessages(visit)) /\ m \in GroupMessages(visit)
      /\ toClient \in Seq(GroupCalls(visit)) /\ visit \in Nat
  BY <1>1, TailOf DEF GroupsInv, GroupsPort, GroupsPage
<1>3. s \in GroupStates /\ \A X : m \notin LiveReplies(visit, X)
  <2> HIDE DEF m
  <2> QED
    BY <1>1, <1>2 DEF GroupMessages, GroupReplies, LiveReplies
<1>4. \A X : /\ Some(toPage, X) <=> m \in X \/ Some(rest, X)
             /\ AtMostOne(toPage, X) => AtMostOne(rest, X)
  BY <1>1, <1>2, TailPlaces
<1>5. ClientInv'
  BY <1>1, ClientInvKept DEF GroupsInv
<1>6. Lock(toClient, toPage, busy, visit) => Lock(toClient, rest, busy, visit)
  <2> HIDE DEF m, rest
  <2> QED
    BY <1>3, <1>4 DEF Lock
<1>7. CASE page = "away" \/ ~(page = "group" /\ id \notin G!Listed(s))
  <2>1. /\ UNCHANGED <<page, id, visit, busy, draft>>
        /\ (shown' = shown /\ seq' = seq) \/ (shown' = s /\ seq' = seq + 1)
    BY <1>7 DEF G!HearGroups, G!mount, G!pageState
  <2>2. GroupsPage'
    BY <1>3, <2>1 DEF GroupsInv, GroupsPage
  <2> QED
    BY <1>1, <1>2, <1>5, <1>6, <2>1, <2>2 DEF GroupsInv, GroupsPort
<1>8. CASE page = "group" /\ id \notin G!Listed(s)
  <2>1. /\ UNCHANGED <<page, id, draft>> /\ visit' = visit + 1 /\ busy' = {} /\ shown' = s /\ seq' = seq + 1
    BY <1>8 DEF G!HearGroups
  <2>2. GroupsPage'
    BY <1>3, <2>1 DEF GroupsInv, GroupsPage
  <2>3. Lock(toClient, rest, {}, visit + 1)
    BY <1>2, NothingLiveYet, FreeIsUnlocked
  <2>4. toClient \in Seq(GroupCalls(visit + 1)) /\ rest \in Seq(GroupMessages(visit + 1))
    BY <1>2, GroupCallsLater, SeqMonotonic
  <2> QED
    BY <1>1, <1>5, <2>1, <2>2, <2>3, <2>4 DEF GroupsInv, GroupsPort
<1> QED
  BY <1>7, <1>8

LEMMA TimeOutLocks ==
  ASSUME GroupsInv, NEW i \in DOMAIN toClient, G!TimeOut(i)
  PROVE  GroupsInv'
<1> DEFINE c == toClient[i]
           late == [c EXCEPT !.over = TRUE]
           q == [toClient EXCEPT ![i] = late]
<1>1. /\ G!RouteLive(c) /\ ~c.over /\ UNCHANGED G!client /\ toPage' = toPage
      /\ G!Continue(c, FALSE, G!NotLoaded, q)
  BY DEF G!TimeOut
<1>2. /\ toClient \in Seq(GroupCalls(visit)) /\ i \in 1..Len(toClient) /\ c \in GroupCalls(visit)
      /\ toPage \in Seq(GroupMessages(visit)) /\ GroupsPage
  BY DEF GroupsInv, GroupsPort
<1>3. late \in GroupCalls(visit) /\ late.over
  <2> HIDE DEF c
  <2>1. late \in GroupCall
    BY <1>2 DEF GroupCalls, GroupCall
  <2>2. late.op = c.op /\ late.for = c.for /\ late.visit = c.visit /\ late.over
    BY <1>2 DEF GroupCalls, GroupCall
  <2> QED
    BY <1>2, <2>1, <2>2 DEF GroupCalls
<1>4. \A X : late \notin Live(visit, X)
  BY <1>3 DEF Live
<1>5. q \in Seq(GroupCalls(visit))
  <2> HIDE DEF c, late
  <2> QED
    BY <1>2, <1>3, ExceptSeq
<1>6. \A X : /\ (toClient[i] \in X <=> late \in X) => (Some(q, X) <=> Some(toClient, X))
             /\ AtMostOne(toClient, X) /\ (late \in X => toClient[i] \in X) => AtMostOne(q, X)
             /\ AtMostOne(toClient, X) /\ toClient[i] \in X /\ late \notin X => ~Some(q, X)
  <2> HIDE DEF late
  <2> QED
    BY <1>2, <1>3, ExceptPlaces
<1>7. \A X : c \in Live(visit, X) <=> c.for \in X
  BY <1>1, <1>2 DEF Live, G!RouteLive
<1> HIDE DEF late, q
<1>8. Lock(toClient, toPage, busy, visit)
  BY <1>1 DEF GroupsInv, G!RouteLive
<1>9. c.for \in Changes \cup {"load"}
  BY <1>2 DEF GroupCalls, GroupCall
<1>10. Awaits(c, q, toPage)
  <2>1. CASE c.for # "load"
    <3>1. toClient[i] \in Live(visit, Changes)
      BY <1>7, <1>9, <2>1
    <3>2. Some(toClient, Live(visit, Changes))
      BY <1>2, <3>1 DEF Some
    <3>3. Free(q, toPage, visit)
      BY <1>4, <1>6, <1>8, <3>1, <3>2 DEF Lock, Free
    <3>4. \A x \in Changes : Some(toClient, Live(visit, {x})) <=> x = c.for
      <4> SUFFICES ASSUME NEW x \in Changes
                   PROVE  Some(toClient, Live(visit, {x})) <=> x = c.for
        OBVIOUS
      <4>1. ~Some(q, Live(visit, {x}))
        BY <3>3, LiveOne, NonePlaces DEF Free
      <4>2. CASE x = c.for
        <5>1. toClient[i] \in Live(visit, {x})
          BY <1>7, <4>2
        <5> QED
          BY <1>2, <4>2, <5>1 DEF Some
      <4>3. CASE x # c.for
        <5>1. toClient[i] \notin Live(visit, {x}) /\ late \notin Live(visit, {x})
          BY <1>4, <1>7, <4>3
        <5> QED
          BY <1>6, <4>1, <4>3, <5>1
      <4> QED
        BY <4>2, <4>3
    <3>5. \A x \in Changes : ~Some(toPage, LiveReplies(visit, {x}))
      BY <3>3, LiveOne, NonePlaces DEF Free
    <3>6. busy = {c.for}
      BY <1>8, <1>9, <2>1, <3>4, <3>5 DEF Lock
    <3> HIDE DEF c
    <3> QED
      BY <1>1, <2>1, <3>3, <3>6 DEF Awaits
  <2>2. CASE c.for = "load"
    <3>1. /\ toClient[i] \notin Live(visit, Changes)
          /\ \A x \in Changes : toClient[i] \notin Live(visit, {x})
      BY <1>7, <2>2 DEF Changes, G!DetailOps, G!ListOps
    <3>2. AtMostOne(q, Live(visit, Changes)) /\ (Some(q, Live(visit, Changes)) <=> Some(toClient, Live(visit, Changes)))
      BY <1>4, <1>6, <1>8, <3>1 DEF Lock
    <3>3. \A x \in Changes : Some(q, Live(visit, {x})) <=> Some(toClient, Live(visit, {x}))
      BY <1>4, <1>6, <3>1
    <3>4. Lock(q, toPage, busy, visit)
      BY <1>8, <3>2, <3>3 DEF Lock
    <3> QED
      BY <2>2, <3>4 DEF Awaits
  <2> QED
    BY <2>1, <2>2
<1>11. Locked(toPage)
  <2> DEFINE nothing == G!NotLoaded
  <2>1. G!Continue(c, FALSE, nothing, q)
    BY <1>1 DEF q, late
  <2> HIDE DEF nothing, c
  <2> QED
    BY <1>2, <1>5, <1>10, <2>1, ContinueLocks
<1>12. toPage' \in Seq(GroupMessages(visit'))
  BY <1>1, <1>2, <1>11, GroupCallsLater, SeqMonotonic DEF Locked, GroupsPage
<1>13. ClientInv'
  BY <1>1, ClientInvKept DEF GroupsInv
<1> QED
  BY <1>1, <1>11, <1>12, <1>13 DEF GroupsInv, GroupsPort, Locked

LEMMA PageKeepsInv ==
  ASSUME GroupsInv, UNCHANGED G!client, toPage' = toPage, Locked(toPage)
  PROVE  GroupsInv'
<1>1. toPage' \in Seq(GroupMessages(visit'))
  BY GroupCallsLater, SeqMonotonic DEF Locked, GroupsPage, GroupsInv, GroupsPort
<1>2. ClientInv'
  BY ClientInvKept DEF GroupsInv
<1> QED
  BY <1>1, <1>2 DEF GroupsInv, GroupsPort, Locked

\* A change is asked for while the page is not busy.
LEMMA AskLocks ==
  ASSUME GroupsInv, busy = {}, NEW op \in Changes, NEW g \in G!Ids, NEW n \in Nat, NEW flag \in BOOLEAN,
         toClient' = Append(toClient, G!Call(op, g, n, flag)), busy' = {op},
         UNCHANGED <<G!client, toPage, page, id, visit, seq, shown, draft>>
  PROVE  GroupsInv'
<1> DEFINE c == G!Call(op, g, n, flag)
<1>1. /\ toClient \in Seq(GroupCalls(visit)) /\ toPage \in Seq(GroupMessages(visit)) /\ visit \in Nat /\ seq \in Nat
      /\ page # "away" => Lock(toClient, toPage, {}, visit)
  BY DEF GroupsInv, GroupsPort, GroupsPage
<1>2. c \in Live(visit, {op})
  BY <1>1, NewChange
<1>3. page # "away" => Free(toClient, toPage, visit)
  BY <1>1, UnlockedIsFree
<1> HIDE DEF c
<1>4. /\ Append(toClient, c) \in Seq(GroupCalls(visit))
      /\ page # "away" => Lock(Append(toClient, c), toPage, {op}, visit)
  <2>1. Append(toClient, c) \in Seq(GroupCalls(visit))
    <3>1. c \in GroupCalls(visit)
      BY <1>2 DEF Live
    <3> QED
      BY <1>1, <3>1, AppendOf
  <2> QED
    BY <1>1, <1>2, <1>3, <2>1, LockAsks
<1>5. Locked(toPage)
  BY <1>1, <1>4 DEF Locked, c, GroupsInv, GroupsPage
<1> QED
  BY <1>5, PageKeepsInv DEF G!client

\* What changes neither the port nor the lock.
LEMMA QuietLocks ==
  ASSUME GroupsInv, UNCHANGED <<G!client, toClient, toPage, page, id, visit, seq, shown, busy>>, draft' \in Nat
  PROVE  GroupsInv'
<1>1. Locked(toPage)
  BY DEF Locked, GroupsInv, GroupsPage, GroupsPort
<1> QED
  BY <1>1, PageKeepsInv DEF G!client

LEMMA ReloadLocks ==
  ASSUME GroupsInv, G!Reload
  PROVE  GroupsInv'
<1> DEFINE for == "load"
           at == seq + 1
           c == G!Read(for, visit, at)
<1>1. /\ toClient' = Append(toClient, c) /\ seq' = at /\ page # "away"
      /\ UNCHANGED <<G!client, toPage, page, id, visit, shown, busy, draft>>
  BY DEF G!Reload, G!mount, G!client
<1>2. /\ toClient \in Seq(GroupCalls(visit)) /\ toPage \in Seq(GroupMessages(visit)) /\ visit \in Nat /\ at \in Nat
      /\ Lock(toClient, toPage, busy, visit) /\ id \in G!Ids /\ for \in G!Refreshed \cup {"load"} /\ for = "load"
  BY <1>1 DEF GroupsInv, GroupsPort, GroupsPage
<1> HIDE DEF for, at
<1> HIDE DEF c
<1>3. c \in GroupCalls(visit) /\ c.for = for
  <2>1. visit \in Nat /\ at \in Nat /\ id \in G!Ids /\ for \in G!Refreshed \cup {"load"}
    BY <1>2
  <2>2. c = G!Read(for, visit, at)
    BY DEF c
  <2> QED
    BY <2>1, <2>2, NewRead
<1>4. Append(toClient, c) \in Seq(GroupCalls(visit)) /\ Lock(Append(toClient, c), toPage, busy, visit)
  BY <1>2, <1>3, LockReads
<1>5. Locked(toPage)
  BY <1>1, <1>2, <1>4 DEF Locked, GroupsInv, GroupsPage
<1> QED
  BY <1>1, <1>5, PageKeepsInv

LEMMA DepartLocks ==
  ASSUME GroupsInv, G!Depart
  PROVE  GroupsInv'
<1>1. /\ page' = "away" /\ seq' = 0 /\ shown' = G!NotLoaded /\ draft' = 0
      /\ UNCHANGED <<G!client, toClient, toPage, id, visit>>
  BY DEF G!Depart, G!NoText
<1>2. Locked(toPage)
  BY <1>1 DEF Locked, GroupsInv, GroupsPage, GroupsPort
<1> QED
  BY <1>1, <1>2, PageKeepsInv

LEMMA NavigateLocks ==
  ASSUME GroupsInv, NEW p \in {"list", "group"}, NEW g \in G!Ids, G!Navigate(p, g)
  PROVE  GroupsInv'
<1>1. G!Mount(p, g, toClient) /\ UNCHANGED <<G!client, toPage>>
  BY DEF G!Navigate
<1>2. Locked(toPage)
  BY <1>1, MountLocks DEF GroupsInv, GroupsPort
<1> QED
  BY <1>1, <1>2, PageKeepsInv

LEMMA MemberLocks ==
  ASSUME GroupsInv, G!Member
  PROVE  GroupsInv'
<1> DEFINE same == UNCHANGED <<G!client, toPage, page, id, visit, seq, shown, draft>>
<1>1. draft \in Nat /\ id \in G!Ids /\ G!Forks \subseteq Nat /\ {0} \cup G!Forks \cup G!Texts \subseteq Nat
  <2>1. G!Forks \subseteq Nat /\ G!Texts \subseteq Nat
    BY DEF G!Forks, G!Texts
  <2> QED
    BY <2>1 DEF GroupsInv, GroupsPage
<1>2. ASSUME NEW g \in G!Ids, G!Navigate("group", g)
      PROVE  GroupsInv'
  BY <1>2, NavigateLocks
<1>3. ASSUME NEW g \in G!Ids, G!AskJoin(g)
      PROVE  GroupsInv'
  <2>1. CASE shown.of[g].asking
    <3>1. UNCHANGED <<G!client, toClient, toPage, page, id, visit, seq, shown, busy, draft>>
      BY <1>3, <2>1 DEF G!AskJoin, G!mount, G!client
    <3> QED
      BY <1>1, <3>1, QuietLocks
  <2>2. CASE ~shown.of[g].asking
    <3> DEFINE op == "join"
               n == 0
               flag == FALSE
    <3>1. same /\ busy = {} /\ busy' = {op} /\ toClient' = Append(toClient, G!Call(op, g, n, flag))
      BY <1>3, <2>2 DEF G!AskJoin, G!mount, G!client, G!cardsLocked
    <3>2. op \in Changes /\ n \in Nat /\ flag \in BOOLEAN
      BY DEF Changes, G!ListOps
    <3> HIDE DEF op, n, flag
    <3> QED
      BY <3>1, <3>2, AskLocks
  <2> QED
    BY <2>1, <2>2
<1>4. ASSUME NEW g \in G!Ids, G!ConfirmJoin(g)
      PROVE  GroupsInv'
  <2> DEFINE op == "join"
             n == 0
             flag == TRUE
  <2>1. same /\ busy = {} /\ busy' = {op} /\ toClient' = Append(toClient, G!Call(op, g, n, flag))
    BY <1>4 DEF G!ConfirmJoin, G!mount, G!client
  <2>2. op \in Changes /\ n \in Nat /\ flag \in BOOLEAN
    BY DEF Changes, G!ListOps
  <2> HIDE DEF op, n, flag
  <2> QED
    BY <2>1, <2>2, AskLocks
<1>5. ASSUME NEW g \in G!Ids, G!Leave(g)
      PROVE  GroupsInv'
  <2> DEFINE op == "leave"
             n == 0
             flag == FALSE
  <2>1. same /\ busy = {} /\ busy' = {op} /\ toClient' = Append(toClient, G!Call(op, g, n, flag))
    BY <1>5 DEF G!Leave, G!mount, G!client, G!cardsLocked
  <2>2. op \in Changes /\ n \in Nat /\ flag \in BOOLEAN
    BY DEF Changes, G!ListOps
  <2> HIDE DEF op, n, flag
  <2> QED
    BY <2>1, <2>2, AskLocks
<1>6. CASE G!Navigate("list", id)
  BY <1>1, <1>6, NavigateLocks
<1>7. CASE G!TickConsent \/ G!CloseDialog
  <2>1. UNCHANGED <<G!client, toClient, toPage, page, id, visit, seq, shown, busy, draft>>
    BY <1>7 DEF G!TickConsent, G!CloseDialog, G!mount, G!client
  <2> QED
    BY <1>1, <2>1, QuietLocks
<1>8. ASSUME NEW text \in G!Texts, G!Type(text)
      PROVE  GroupsInv'
  <2>1. UNCHANGED <<G!client, toClient, toPage, page, id, visit, seq, shown, busy>> /\ draft' = text
    BY <1>8 DEF G!Type, G!mount, G!client
  <2> QED
    BY <1>1, <2>1, QuietLocks
<1>9. ASSUME NEW op \in G!DetailOps, NEW n \in {0} \cup G!Forks \cup G!Texts, NEW flag \in BOOLEAN,
             G!Change(op, n, flag)
      PROVE  GroupsInv'
  <2>1. same /\ busy = {} /\ busy' = {op} /\ toClient' = Append(toClient, G!Call(op, id, n, flag))
    BY <1>9 DEF G!Change, G!mount, G!client
  <2>2. op \in Changes /\ n \in Nat
    BY <1>1 DEF Changes
  <2> QED
    BY <1>1, <2>1, <2>2, AskLocks
<1> QED
  BY <1>2, <1>3, <1>4, <1>5, <1>6, <1>7, <1>8, <1>9, ReloadLocks, DepartLocks DEF G!Member

LEMMA GroupsInvStep ==
  ASSUME GroupsInv, G!Next \/ UNCHANGED G!vars
  PROVE  GroupsInv'
<1>1. CASE UNCHANGED G!vars
  <2>1. UNCHANGED <<G!client, toClient, toPage, page, id, visit, seq, shown, busy, draft>>
    BY <1>1 DEF G!vars, G!client, G!mount, G!pageState
  <2>2. draft' \in Nat
    BY <2>1 DEF GroupsInv, GroupsPage
  <2> QED
    BY <2>1, <2>2, QuietLocks
<1> QED
  BY <1>1, MemberLocks, RunCallLocks, HearReplyLocks, HearGroupsLocks, TimeOutLocks DEF G!Next

LEMMA GroupsInvInit ==
  ASSUME G!Init
  PROVE  GroupsInv
<1>1. ClientInv
  BY ClientInvInit
<1>2. GroupsPage /\ page = "away"
  BY DEF GroupsPage, G!Init, G!NoText
<1>3. GroupsPort
  <2> DEFINE none == <<>>
  <2>1. toClient = none /\ toPage = none
    BY DEF G!Init
  <2>2. none \in Seq(GroupCalls(visit)) /\ none \in Seq(GroupMessages(visit))
    OBVIOUS
  <2> HIDE DEF none
  <2> QED
    BY <2>1, <2>2 DEF GroupsPort
<1> QED
  BY <1>1, <1>2, <1>3 DEF GroupsInv

\* The pages of groups and the port hold what can be there: every call and
\* every answer is of a visit made so far, and at most one of a page's changes
\* is under way (Lock), whatever was left, given up or heard late.
THEOREM GroupsInvHolds == Spec => [](area = "groups" => GroupsInv)
<1> DEFINE Inv == area = "groups" => GroupsInv
<1>1. Init => Inv
  BY GroupsInvInit DEF Init
<1>2. Inv /\ [Next]_vars => Inv'
  BY GroupsSteps, GroupsInvStep
<1> QED
  BY <1>1, <1>2, PTL DEF Spec

\* What the lock says of the calls that are awaited.
LEMMA LockIsAwaited ==
  ASSUME GroupsInv
  PROVE  G!OneChangeAtATime
<1> SUFFICES ASSUME page # "away"
             PROVE  LET changes == {c \in G!Awaited : c.for # "load"} IN
                    /\ busy = {c.for : c \in changes}
                    /\ \A c, d \in changes : c = d
  BY DEF G!OneChangeAtATime
<1> DEFINE changes == {c \in G!Awaited : c.for # "load"}
           tc == toClient
           tp == toPage
<1>1. /\ tc \in Seq(GroupCalls(visit)) /\ tp \in Seq(GroupMessages(visit))
      /\ Lock(tc, tp, busy, visit)
  BY DEF GroupsInv, GroupsPort
<1>2. DOMAIN tc = 1..Len(tc) /\ DOMAIN tp = 1..Len(tp)
  BY <1>1
<1>3. \A i \in 1..Len(tc) : tc[i] \in GroupCalls(visit)
  BY <1>1, ElementOfSeq
<1>4. \A j \in 1..Len(tp) : tp[j] \in GroupMessages(visit)
  BY <1>1, ElementOfSeq
<1>5. \A j \in 1..Len(tp) : tp[j].type = "reply" => tp[j] \in GroupReplies(visit)
  BY <1>4 DEF GroupMessages
<1>6. \A c \in GroupCalls(visit) : c.for \in Changes \cup {"load"} /\ "load" \notin Changes
  BY DEF GroupCalls, GroupCall, Changes, G!DetailOps, G!ListOps
<1>7. \A c : c \in G!Awaited <=>
        /\ \/ \E i \in 1..Len(tc) : c = tc[i]
           \/ \E j \in 1..Len(tp) : tp[j].type = "reply" /\ c = tp[j].call
        /\ G!RouteLive(c) /\ ~c.over
  BY <1>2, Zenon DEF G!Awaited
<1>8. \A c \in GroupCalls(visit) : G!RouteLive(c) <=> c.visit = visit
  BY DEF G!RouteLive
<1> HIDE DEF tc, tp
<1>9. ASSUME NEW c \in changes
      PROVE  /\ c \in GroupCalls(visit) /\ c.for \in Changes /\ c \in Live(visit, Changes)
             /\ \/ \E i \in 1..Len(tc) : c = tc[i]
                \/ \E j \in 1..Len(tp) : tp[j] \in LiveReplies(visit, Changes) /\ c = tp[j].call
  <2>1. /\ \/ \E i \in 1..Len(tc) : c = tc[i]
           \/ \E j \in 1..Len(tp) : tp[j] \in GroupReplies(visit) /\ c = tp[j].call
        /\ G!RouteLive(c) /\ ~c.over /\ c.for # "load"
    BY <1>5, <1>7
  <2>2. c \in GroupCalls(visit)
    BY <1>3, <2>1 DEF GroupReplies
  <2>3. c \in Live(visit, Changes) /\ c.for \in Changes
    BY <1>6, <1>8, <2>1, <2>2 DEF Live
  <2> QED
    BY <2>1, <2>2, <2>3 DEF LiveReplies
<1>10. \A i \in 1..Len(tc) : tc[i] \in Live(visit, Changes) => tc[i] \in changes
  BY <1>3, <1>6, <1>7, <1>8 DEF Live
<1>11. \A j \in 1..Len(tp) : tp[j] \in LiveReplies(visit, Changes) => tp[j].call \in changes
  <2>1. \A m \in LiveReplies(visit, Changes) : m.type = "reply" /\ m.call \in Live(visit, Changes)
    BY DEF LiveReplies, GroupReplies
  <2>2. \A c \in Live(visit, Changes) : c \in GroupCalls(visit) /\ c.visit = visit /\ ~c.over /\ c.for # "load"
    BY <1>6 DEF Live
  <2> QED
    BY <1>7, <1>8, <2>1, <2>2
<1> HIDE DEF changes
<1>12. busy \subseteq {c.for : c \in changes}
  <2> SUFFICES ASSUME NEW x \in busy
               PROVE  \E c \in changes : x = c.for
    OBVIOUS
  <2>1. x \in Changes /\ (Some(tc, Live(visit, {x})) \/ Some(tp, LiveReplies(visit, {x})))
    BY <1>1 DEF Lock, tc, tp
  <2>2. CASE Some(tc, Live(visit, {x}))
    <3>1. PICK i \in 1..Len(tc) : tc[i] \in Live(visit, {x})
      BY <2>2 DEF Some
    <3> QED
      BY <1>10, <2>1, <3>1 DEF Live
  <2>3. CASE Some(tp, LiveReplies(visit, {x}))
    <3>1. PICK j \in 1..Len(tp) : tp[j] \in LiveReplies(visit, {x})
      BY <2>3 DEF Some
    <3>2. tp[j] \in LiveReplies(visit, Changes) /\ tp[j].call.for = x
      BY <2>1, <3>1 DEF LiveReplies, Live
    <3> QED
      BY <1>11, <3>2
  <2> QED
    BY <2>1, <2>2, <2>3
<1>13. {c.for : c \in changes} \subseteq busy
  <2> SUFFICES ASSUME NEW c \in changes
               PROVE  c.for \in busy
    OBVIOUS
  <2>1. c \in Live(visit, {c.for}) /\ c.for \in Changes
    BY <1>9 DEF Live
  <2>2. Some(tc, Live(visit, {c.for})) \/ Some(tp, LiveReplies(visit, {c.for}))
    <3>1. CASE \E i \in 1..Len(tc) : c = tc[i]
      BY <2>1, <3>1 DEF Some
    <3>2. CASE \E j \in 1..Len(tp) : tp[j] \in LiveReplies(visit, Changes) /\ c = tp[j].call
      <4>1. PICK j \in 1..Len(tp) : tp[j] \in LiveReplies(visit, Changes) /\ c = tp[j].call
        BY <3>2
      <4>2. tp[j] \in LiveReplies(visit, {c.for})
        BY <2>1, <4>1 DEF LiveReplies
      <4> QED
        BY <4>2 DEF Some
    <3> QED
      BY <1>9, <3>1, <3>2
  <2> QED
    BY <1>1, <2>1, <2>2 DEF Lock, tc, tp
<1>14. \A c, d \in changes : c = d
  <2> DEFINE K == Live(visit, Changes)
             R == LiveReplies(visit, Changes)
  <2>1. AtMostOne(tc, K) /\ AtMostOne(tp, R) /\ ~(Some(tc, K) /\ Some(tp, R))
    BY <1>1 DEF Lock, tc, tp
  <2>2. \A c \in changes : /\ c \in K
                           /\ \/ \E i \in 1..Len(tc) : c = tc[i]
                              \/ \E j \in 1..Len(tp) : tp[j] \in R /\ c = tp[j].call
    BY <1>9
  <2> HIDE DEF K, R
  <2> QED
    BY <2>1, <2>2 DEF AtMostOne, Some
<1> QED
  BY <1>12, <1>13, <1>14 DEF changes

\* A page has one change under way and is locked as long, whatever was asked
\* for, heard of, left or given up before.
THEOREM OneChangeAtATimeHolds == Spec => []OneChangeAtATime
<1>1. (area = "groups" => GroupsInv) => OneChangeAtATime
  BY LockIsAwaited DEF OneChangeAtATime
<1> QED
  BY <1>1, GroupsInvHolds, PTL

-----------------------------------------------------------------------------
(* Queues: elements of R that hold until an event of E is appended.        *)

Fresh(q, E, R) == \A j \in 1..Len(q) : (\A k \in 1..Len(q) : j < k => q[k] \notin E) => q[j] \in R

LEMMA TailFresh ==
  ASSUME NEW S, NEW q \in Seq(S), q # <<>>, NEW E, NEW R, Fresh(q, E, R)
  PROVE  /\ Fresh(Tail(q), E, R)
         /\ ~Some(Tail(q), E) => Head(q) \in R
<1> DEFINE rest == Tail(q)
<1>1. /\ Len(rest) = Len(q) - 1 /\ Len(q) \in Nat \ {0}
      /\ \A i \in 1..(Len(q) - 1) : i + 1 \in 1..Len(q) /\ rest[i] = q[i + 1]
      /\ Head(q) = q[1] /\ 1 \in 1..Len(q)
  BY TailOf
<1> HIDE DEF rest
<1>2. \A k \in 1..Len(q) : k = 1 \/ (k - 1 \in 1..Len(rest) /\ q[k] = rest[k - 1])
  BY <1>1
<1>3. Fresh(rest, E, R)
  <2> SUFFICES ASSUME NEW j \in 1..Len(rest), \A k \in 1..Len(rest) : j < k => rest[k] \notin E
               PROVE  rest[j] \in R
    BY DEF Fresh
  <2>1. j + 1 \in 1..Len(q) /\ rest[j] = q[j + 1]
    BY <1>1
  <2>2. \A k \in 1..Len(q) : j + 1 < k => q[k] \notin E
    BY <1>1, <1>2
  <2> QED
    BY <2>1, <2>2 DEF Fresh
<1>4. ~Some(rest, E) => q[1] \in R
  <2> SUFFICES ASSUME ~Some(rest, E)
               PROVE  q[1] \in R
    OBVIOUS
  <2>1. \A k \in 1..Len(q) : 1 < k => q[k] \notin E
    BY <1>1, <1>2 DEF Some
  <2> QED
    BY <1>1, <2>1 DEF Fresh
<1> QED
  BY <1>1, <1>3, <1>4 DEF rest

LEMMA AppendFresh ==
  ASSUME NEW S, NEW q \in Seq(S), NEW e \in S, NEW E, NEW R, e \in R, e \in E \/ Fresh(q, E, R)
  PROVE  Fresh(Append(q, e), E, R)
<1> DEFINE more == Append(q, e)
<1>1. /\ Len(more) = Len(q) + 1 /\ Len(q) \in Nat
      /\ \A i \in 1..Len(q) : i \in 1..Len(more) /\ more[i] = q[i]
      /\ more[Len(q) + 1] = e /\ Len(q) + 1 \in 1..Len(more)
  BY AppendOf
<1> HIDE DEF more
<1> SUFFICES ASSUME NEW j \in 1..Len(more), \A k \in 1..Len(more) : j < k => more[k] \notin E
             PROVE  more[j] \in R
  BY DEF Fresh, more
<1>2. CASE j = Len(q) + 1
  BY <1>1, <1>2
<1>3. CASE j # Len(q) + 1
  <2>1. j \in 1..Len(q) /\ j < Len(q) + 1
    BY <1>1, <1>3
  <2>2. e \notin E
    BY <1>1, <2>1
  <2>3. \A k \in 1..Len(q) : j < k => q[k] \notin E
    BY <1>1
  <2> QED
    BY <1>1, <2>1, <2>2, <2>3 DEF Fresh
<1> QED
  BY <1>2, <1>3

-----------------------------------------------------------------------------
(* Groups: what a page shows is what the client holds, or was told of it.  *)

GroupEvents == [type : {"groups"}, groups : GroupStates]
Telling(s) == {m \in UNION {GroupMessages(v) : v \in Nat} : G!Untold(m.groups) = G!Untold(s)}

GroupsFresh ==
  /\ Fresh(toPage, GroupEvents, Telling(groups))
  /\ page # "away" /\ shown # G!NotLoaded /\ ~Some(toPage, GroupEvents) => G!Untold(shown) = G!Untold(groups)

\* Only texts change without a word to the pages.
LEMMA UnannouncedIsUntold ==
  ASSUME GroupsInv, NEW c \in GroupCalls(visit), NEW f, groups' = G!After(c, f), ~G!Announced(c)
  PROVE  G!Untold(groups') = G!Untold(groups)
<1>1. groups \in GroupStates /\ c.group \in G!Ids
  BY GroupsAreStates DEF GroupsInv, GroupCalls, GroupCall
<1>2. CASE c.op = "send"
  <2> DEFINE g == c.group
             old == groups.of[g]
             ts == old.texts \cup {c.n}
             new == [old EXCEPT !.texts = ts]
  <2>1. groups' = [groups EXCEPT !.of[g] = new]
    <3>1. groups' = G!Put(c.group, [groups.of[c.group] EXCEPT !.texts = @ \cup {c.n}])
      BY <1>2 DEF G!After
    <3> QED
      BY <3>1 DEF G!Put
  <2>2. groups = [made |-> groups.made, of |-> groups.of] /\ groups.of \in [G!Ids -> Group] /\ g \in G!Ids /\ old \in Group
    BY <1>1 DEF GroupStates
  <2>3. [new EXCEPT !.texts = {}] = [old EXCEPT !.texts = {}]
    <3> DEFINE none == {}
    <3> HIDE DEF ts, old, none
    <3>1. [new EXCEPT !.texts = none] = [old EXCEPT !.texts = none]
      BY <2>2 DEF Group
    <3> QED
      BY <3>1 DEF none
  <2> HIDE DEF new, g
  <2>4. groups'.made = groups.made /\ \A h \in G!Ids : groups'.of[h] = IF h = g THEN new ELSE groups.of[h]
    BY <2>1, <2>2
  <2>5. \A h \in G!Ids : [groups'.of[h] EXCEPT !.texts = {}] = [groups.of[h] EXCEPT !.texts = {}]
    BY <2>3, <2>4, Zenon DEF old
  <2> QED
    BY <2>4, <2>5, Zenon DEF G!Untold
<1>3. CASE c.op # "send"
  <2>1. groups' = groups
    BY <1>3 DEF G!After, G!Announced
  <2> QED
    BY <2>1, Zenon
<1> QED
  BY <1>2, <1>3

\* Two ways to bring what is shown up to date.
LEMMA ProposedIsFresh ==
  ASSUME shown \in GroupStates, id \in G!Ids, NEW s \in GroupStates, groups \in GroupStates,
         G!Untold(shown) = G!Untold(groups), G!Untold(s) = G!Untold(groups),
         NEW new, new = [shown EXCEPT !.of[id] = s.of[id]]
  PROVE  G!Untold(new) = G!Untold(groups)
<1>1. new.made = shown.made /\ \A g \in G!Ids : new.of[g] = IF g = id THEN s.of[id] ELSE shown.of[g]
  <2> DEFINE g1 == s.of[id]
  <2>1. shown = [made |-> shown.made, of |-> shown.of] /\ shown.of \in [G!Ids -> Group]
    BY DEF GroupStates
  <2>2. new = [shown EXCEPT !.of[id] = g1]
    OBVIOUS
  <2> HIDE DEF g1
  <2>3. new.made = shown.made /\ \A g \in G!Ids : new.of[g] = IF g = id THEN g1 ELSE shown.of[g]
    BY <2>1, <2>2
  <2> QED
    BY <2>3 DEF g1
<1>2. \A t : G!Untold(t) = [made |-> t.made, of |-> [g \in G!Ids |-> [t.of[g] EXCEPT !.texts = {}]]]
  BY DEF G!Untold
<1>3. ASSUME NEW t, G!Untold(t) = G!Untold(groups)
      PROVE  t.made = groups.made /\ \A g \in G!Ids : [t.of[g] EXCEPT !.texts = {}] = [groups.of[g] EXCEPT !.texts = {}]
  <2> DEFINE a == [g \in G!Ids |-> [t.of[g] EXCEPT !.texts = {}]]
             b == [g \in G!Ids |-> [groups.of[g] EXCEPT !.texts = {}]]
  <2>1. [made |-> t.made, of |-> a] = [made |-> groups.made, of |-> b]
    BY <1>2, <1>3, Zenon
  <2>2. (\A g \in G!Ids : a[g] = [t.of[g] EXCEPT !.texts = {}]) /\ \A g \in G!Ids : b[g] = [groups.of[g] EXCEPT !.texts = {}]
    BY Zenon
  <2> HIDE DEF a, b
  <2>3. t.made = groups.made /\ a = b
    BY <2>1
  <2> QED
    BY <2>2, <2>3, Zenon
<1>4. shown.made = groups.made /\ \A g \in G!Ids : [shown.of[g] EXCEPT !.texts = {}] = [groups.of[g] EXCEPT !.texts = {}]
  BY <1>3, Zenon
<1>5. [s.of[id] EXCEPT !.texts = {}] = [groups.of[id] EXCEPT !.texts = {}]
  BY <1>3, Zenon
<1>6. new.made = groups.made /\ \A g \in G!Ids : [new.of[g] EXCEPT !.texts = {}] = [groups.of[g] EXCEPT !.texts = {}]
  BY <1>1, <1>4, <1>5, Zenon
<1> QED
  BY <1>2, <1>6, Zenon

\* What an answer, or its absence, makes a page show.
LEMMA ContinueShows ==
  ASSUME GroupsPage, NEW c, NEW ok \in BOOLEAN, NEW s, ok => s \in GroupStates, NEW q, G!Continue(c, ok, s, q)
  PROVE  \/ shown' = G!NotLoaded
         \/ page' = page /\ shown' = shown
         \/ page' = page /\ ok /\ shown' = s
         \/ page' = page /\ ok /\ shown # G!NotLoaded /\ shown' = [shown EXCEPT !.of[id] = s.of[id]]
<1>1. CASE ~G!RouteLive(c)
  BY <1>1 DEF G!Continue, G!mount, G!pageState
<1>2. CASE G!RouteLive(c) /\ c.op = "groups"
  <2>1. G!ReadAnswered(c, ok, s, q)
    BY <1>2 DEF G!Continue
  <2> QED
    BY <2>1 DEF G!ReadAnswered, G!Mount, G!mount
<1>3. CASE G!RouteLive(c) /\ c.op # "groups"
  <2>1. IF ok THEN G!ChangeDone(c, s, q) ELSE G!ChangeFailed(c, q)
    BY <1>3 DEF G!Continue
  <2>2. CASE ~ok
    BY <2>1, <2>2 DEF G!ChangeFailed, G!mount
  <2>3. CASE ok
    <3>1. /\ page' = page
          /\ shown' = IF c.op = "propose" /\ G!DataLive(c) THEN [shown EXCEPT !.of[id] = s.of[id]] ELSE shown
      BY <2>1, <2>3 DEF G!ChangeDone, G!mount
    <3>2. shown = G!NotLoaded => [shown EXCEPT !.of[id] = s.of[id]] = G!NotLoaded
      BY <2>3, ProposedIsShown DEF GroupsPage
    <3> QED
      BY <2>3, <3>1, <3>2
  <2> QED
    BY <2>2, <2>3
<1> QED
  BY <1>1, <1>2, <1>3

LEMMA RunCallFresh ==
  ASSUME GroupsInv, GroupsFresh, G!RunCall
  PROVE  GroupsFresh'
<1> DEFINE c == Head(toClient)
<1>1. c \in GroupCalls(visit) /\ toClient # <<>> /\ UNCHANGED <<page, shown>> /\ toPage \in Seq(GroupMessages(visit))
  <2>1. toClient # <<>> /\ UNCHANGED <<page, shown>>
    BY DEF G!RunCall, G!mount, G!pageState
  <2> QED
    BY <2>1, TailOf DEF GroupsInv, GroupsPort
<1>20. PICK announced \in BOOLEAN, ok \in BOOLEAN : \E ev, m :
        /\ Sends(c, announced, ok, ev, m)
        /\ ~announced => UNCHANGED G!client \/ \E f \in G!Forks : groups' = G!After(c, f) /\ ~G!Announced(c)
  BY RunCallSends
<1>2. PICK ev, m :
        /\ Sends(c, announced, ok, ev, m)
        /\ ~announced => UNCHANGED G!client \/ \E f \in G!Forks : groups' = G!After(c, f) /\ ~G!Announced(c)
  BY <1>20
<1>3. groups' \in GroupStates
  <2>1. GroupsInv'
    BY RunCallLocks
  <2> QED
    BY <2>1 DEF GroupsInv, ClientInv, ClientType, GroupStates
<1> HIDE DEF c
<1>4. ~announced => G!Untold(groups') = G!Untold(groups)
  <2>1. UNCHANGED G!client => G!Untold(groups') = G!Untold(groups)
    BY Zenon DEF G!client
  <2>2. \A f : groups' = G!After(c, f) /\ ~G!Announced(c) => G!Untold(groups') = G!Untold(groups)
    BY <1>1, UnannouncedIsUntold
  <2> QED
    BY <1>2, <2>1, <2>2, Zenon
<1> DEFINE u == G!Untold(groups)
           R == Telling(groups)
           u2 == G!Untold(groups')
           R2 == Telling(groups')
           told == IF announced THEN Append(toPage, ev) ELSE toPage
           M == GroupMessages(visit)
<1>5. /\ ev = [type |-> "groups", groups |-> groups'] /\ m = [type |-> "reply", call |-> c, ok |-> ok, groups |-> groups']
      /\ toPage' = IF c.over THEN told ELSE Append(told, m)
  BY <1>2 DEF Sends
<1>6. ev \in GroupEvents /\ ev \in M /\ ev.groups = groups'
  BY <1>3, <1>5 DEF GroupEvents, GroupMessages
<1>7. ~c.over => m \in M /\ m \notin GroupEvents /\ m.groups = groups'
  BY <1>1, <1>3, <1>5 DEF GroupMessages, GroupReplies, GroupEvents
<1>8. visit \in Nat
  BY DEF GroupsInv, GroupsPage
<1>9. ev \in R2 /\ (~c.over => m \in R2)
  BY <1>6, <1>7, <1>8 DEF Telling
<1>10. ~announced => R2 = R
  BY <1>4, Zenon DEF Telling
<1> HIDE DEF u, R, u2, R2, M, told
<1>11. Fresh(toPage, GroupEvents, R)
  BY DEF GroupsFresh, R
<1>12. /\ told \in Seq(M) /\ Fresh(told, GroupEvents, R2)
       /\ Some(told, GroupEvents) <=> announced \/ Some(toPage, GroupEvents)
  <2>1. toPage \in Seq(M)
    BY <1>1 DEF M
  <2>2. CASE announced
    <3>1. Append(toPage, ev) \in Seq(M)
      BY <1>6, <2>1, AppendOf
    <3>2. Fresh(Append(toPage, ev), GroupEvents, R2)
      BY <1>6, <1>9, <2>1, AppendFresh
    <3>3. Some(Append(toPage, ev), GroupEvents)
      BY <1>6, <2>1, AppendPlaces
    <3> QED
      BY <2>2, <3>1, <3>2, <3>3 DEF told
  <2>3. CASE ~announced
    BY <1>10, <1>11, <2>1, <2>3 DEF told
  <2> QED
    BY <2>2, <2>3
<1>13. /\ Fresh(toPage', GroupEvents, R2)
       /\ Some(toPage', GroupEvents) <=> Some(told, GroupEvents)
  <2>1. CASE c.over
    BY <1>5, <1>12, <2>1
  <2>2. CASE ~c.over
    <3>1. Fresh(Append(told, m), GroupEvents, R2)
      BY <1>7, <1>9, <1>12, <2>2, AppendFresh
    <3>2. Some(Append(told, m), GroupEvents) <=> Some(told, GroupEvents)
      BY <1>7, <1>12, <2>2, AppendPlaces
    <3> QED
      BY <1>5, <2>2, <3>1, <3>2
  <2> QED
    BY <2>1, <2>2
<1>14. page' # "away" /\ shown' # G!NotLoaded /\ ~Some(toPage', GroupEvents) => G!Untold(shown') = G!Untold(groups')
  <2> SUFFICES ASSUME page' # "away", shown' # G!NotLoaded, ~Some(toPage', GroupEvents)
               PROVE  G!Untold(shown') = G!Untold(groups')
    OBVIOUS
  <2>1. ~announced /\ ~Some(toPage, GroupEvents) /\ page # "away" /\ shown # G!NotLoaded
    BY <1>1, <1>12, <1>13
  <2>2. G!Untold(shown) = G!Untold(groups)
    BY <2>1 DEF GroupsFresh
  <2> QED
    BY <1>1, <1>4, <2>1, <2>2, Zenon
<1> QED
  BY <1>13, <1>14 DEF GroupsFresh, R2

\* A page that shows what it showed, or nothing yet.
LEMMA QuietFresh ==
  ASSUME GroupsFresh, groups' = groups, toPage' = toPage, (page' = page /\ shown' = shown) \/ shown' = G!NotLoaded
  PROVE  GroupsFresh'
<1>1. page' # "away" /\ shown' # G!NotLoaded => page # "away" /\ shown # G!NotLoaded /\ shown' = shown
  OBVIOUS
<1>2. page' # "away" /\ shown' # G!NotLoaded /\ ~Some(toPage, GroupEvents) => G!Untold(shown') = G!Untold(groups)
  BY <1>1, Zenon DEF GroupsFresh
<1> QED
  BY <1>2, Zenon DEF GroupsFresh

LEMMA HearReplyFresh ==
  ASSUME GroupsInv, GroupsFresh, G!HearReply
  PROVE  GroupsFresh'
<1> DEFINE m == Head(toPage)
           rest == Tail(toPage)
<1>1. toPage # <<>> /\ m.type = "reply" /\ toPage' = rest /\ groups' = groups /\ G!Continue(m.call, m.ok, m.groups, toClient)
  BY DEF G!HearReply, G!client
<1>2. toPage \in Seq(GroupMessages(visit)) /\ m \in GroupMessages(visit)
  BY <1>1, TailOf DEF GroupsInv, GroupsPort
<1>3. m.groups \in GroupStates /\ m.ok \in BOOLEAN /\ m \notin GroupEvents
  <2> HIDE DEF m
  <2> QED
    BY <1>1, <1>2 DEF GroupMessages, GroupReplies, GroupEvents
<1>4. /\ Fresh(rest, GroupEvents, Telling(groups))
      /\ ~Some(rest, GroupEvents) => m \in Telling(groups)
      /\ Some(toPage, GroupEvents) <=> Some(rest, GroupEvents)
  <2> DEFINE R == Telling(groups)
  <2>1. Fresh(toPage, GroupEvents, R)
    BY DEF GroupsFresh
  <2> HIDE DEF R
  <2>2. Fresh(rest, GroupEvents, R) /\ (~Some(rest, GroupEvents) => m \in R)
    BY <1>1, <1>2, <2>1, TailFresh
  <2>3. Some(toPage, GroupEvents) <=> m \in GroupEvents \/ Some(rest, GroupEvents)
    BY <1>1, <1>2, TailPlaces
  <2> QED
    BY <1>3, <2>2, <2>3 DEF R
<1>5. m \in Telling(groups) => G!Untold(m.groups) = G!Untold(groups)
  BY Zenon DEF Telling
<1>6. shown \in GroupStates \cup {G!NotLoaded} /\ id \in G!Ids /\ groups \in GroupStates /\ GroupsPage
  BY GroupsAreStates DEF GroupsInv, GroupsPage
<1>7. /\ shown' # G!NotLoaded => page' = page
      /\ \/ shown' = G!NotLoaded \/ shown' = shown \/ shown' = m.groups
         \/ shown # G!NotLoaded /\ shown' = [shown EXCEPT !.of[id] = m.groups.of[id]]
  <2> DEFINE c == m.call
             ok == m.ok
             s == m.groups
  <2>1. G!Continue(c, ok, s, toClient) /\ ok \in BOOLEAN /\ s \in GroupStates
    BY <1>1, <1>3
  <2> HIDE DEF c, ok, s
  <2>2. \/ shown' = G!NotLoaded
        \/ page' = page /\ shown' = shown
        \/ page' = page /\ ok /\ shown' = s
        \/ page' = page /\ ok /\ shown # G!NotLoaded /\ shown' = [shown EXCEPT !.of[id] = s.of[id]]
    BY <1>6, <2>1, ContinueShows
  <2> QED
    BY <2>2 DEF s
<1> HIDE DEF m, rest
<1>8. ASSUME page' # "away", shown' # G!NotLoaded, ~Some(rest, GroupEvents)
      PROVE  G!Untold(shown') = G!Untold(groups)
  <2>1. G!Untold(m.groups) = G!Untold(groups)
    BY <1>4, <1>5, <1>8
  <2>2. shown # G!NotLoaded => G!Untold(shown) = G!Untold(groups)
    BY <1>4, <1>7, <1>8 DEF GroupsFresh
  <2>3. CASE shown' = shown
    BY <1>8, <2>2, <2>3, Zenon
  <2>4. CASE shown' = m.groups
    BY <2>1, <2>4, Zenon
  <2>5. CASE shown # G!NotLoaded /\ shown' = [shown EXCEPT !.of[id] = m.groups.of[id]]
    <3> DEFINE s == m.groups
    <3>1. shown \in GroupStates /\ s \in GroupStates /\ G!Untold(shown) = G!Untold(groups) /\ G!Untold(s) = G!Untold(groups)
          /\ shown' = [shown EXCEPT !.of[id] = s.of[id]]
      BY <1>3, <1>6, <2>1, <2>2, <2>5
    <3> HIDE DEF s
    <3> QED
      BY <1>6, <3>1, ProposedIsFresh
  <2> QED
    BY <1>7, <1>8, <2>3, <2>4, <2>5
<1> QED
  BY <1>1, <1>4, <1>8 DEF GroupsFresh

LEMMA HearGroupsFresh ==
  ASSUME GroupsInv, GroupsFresh, G!HearGroups
  PROVE  GroupsFresh'
<1> DEFINE m == Head(toPage)
           rest == Tail(toPage)
<1>1. toPage # <<>> /\ toPage' = rest /\ groups' = groups /\ page' = page /\ (page # "away" => shown' = m.groups)
  BY DEF G!HearGroups, G!client, G!mount
<1>2. toPage \in Seq(GroupMessages(visit))
  BY DEF GroupsInv, GroupsPort
<1>3. Fresh(rest, GroupEvents, Telling(groups)) /\ (~Some(rest, GroupEvents) => m \in Telling(groups))
  <2> DEFINE R == Telling(groups)
  <2>1. Fresh(toPage, GroupEvents, R)
    BY DEF GroupsFresh
  <2> HIDE DEF R
  <2>2. Fresh(rest, GroupEvents, R) /\ (~Some(rest, GroupEvents) => m \in R)
    BY <1>1, <1>2, <2>1, TailFresh
  <2> QED
    BY <2>2 DEF R
<1>4. m \in Telling(groups) => G!Untold(m.groups) = G!Untold(groups)
  BY Zenon DEF Telling
<1> HIDE DEF m, rest
<1>5. page' # "away" /\ ~Some(rest, GroupEvents) => G!Untold(shown') = G!Untold(groups)
  BY <1>1, <1>3, <1>4, Zenon
<1> QED
  BY <1>1, <1>3, <1>5 DEF GroupsFresh

LEMMA GroupsFreshStep ==
  ASSUME GroupsInv, GroupsFresh, G!Next \/ UNCHANGED G!vars
  PROVE  GroupsFresh'
<1>1. ASSUME NEW i \in DOMAIN toClient, G!TimeOut(i)
      PROVE  GroupsFresh'
  <2> DEFINE q == [toClient EXCEPT ![i].over = TRUE]
             c == toClient[i]
             no == FALSE
             s == G!NotLoaded
  <2>1. groups' = groups /\ toPage' = toPage /\ G!Continue(c, no, s, q) /\ no \in BOOLEAN /\ ~no
    BY <1>1 DEF G!TimeOut, G!client
  <2> HIDE DEF q, c, no, s
  <2>2. (page' = page /\ shown' = shown) \/ shown' = G!NotLoaded
    BY <2>1, ContinueShows DEF GroupsInv
  <2> QED
    BY <2>1, <2>2, QuietFresh
<1>2. CASE G!Member \/ UNCHANGED G!vars
  <2>1. groups' = groups /\ toPage' = toPage /\ ((page' = page /\ shown' = shown) \/ shown' = G!NotLoaded)
    BY <1>2 DEF G!Member, G!Navigate, G!Mount, G!AskJoin, G!ConfirmJoin, G!Leave, G!Depart, G!Reload, G!TickConsent,
           G!CloseDialog, G!Type, G!Change, G!vars, G!client, G!mount, G!pageState
  <2> QED
    BY <2>1, QuietFresh
<1> QED
  BY <1>1, <1>2, RunCallFresh, HearReplyFresh, HearGroupsFresh DEF G!Next

\* What a page shows of the groups, and what the last answer on its way tells,
\* is as they are, or an event that says otherwise is still to be heard.
THEOREM GroupsFreshHolds == Spec => [](area = "groups" => GroupsInv /\ GroupsFresh)
<1> DEFINE Inv == area = "groups" => GroupsInv /\ GroupsFresh
<1>1. Init => Inv
  <2>1. G!Init => GroupsFresh
    BY DEF G!Init, GroupsFresh, Fresh
  <2> QED
    BY <2>1, GroupsInvInit DEF Init
<1>2. Inv /\ [Next]_vars => Inv'
  BY GroupsSteps, GroupsInvStep, GroupsFreshStep
<1> QED
  BY <1>1, <1>2, PTL DEF Spec

\* Once all is heard, a page shows the groups as they are, however its reads
\* and the events overtook each other.
THEOREM GroupsShownHolds == Spec => []GroupsShown
<1>1. (area = "groups" => GroupsInv /\ GroupsFresh) => GroupsShown
  <2> SUFFICES ASSUME GroupsFresh, page # "away", toPage = <<>>, shown # G!NotLoaded
               PROVE  G!Untold(shown) = G!Untold(groups)
    BY DEF GroupsShown, G!GroupsShown
  <2>1. ~Some(toPage, GroupEvents)
    BY DEF Some
  <2> QED
    BY <2>1 DEF GroupsFresh
<1> QED
  BY <1>1, GroupsFreshHolds, PTL

-----------------------------------------------------------------------------
(* Admin: what is in the queues and on the pages.                          *)

SchemaOps == {"adminSchema", "adminSaveSchema"}
RootOps == {"rootCommunity", "rootSetSetting", "rootSetAdmin"}
ControlOps == {"adminAccess", "adminSetRole"}
AdminOps == SchemaOps \cup RootOps \cup ControlOps \cup {"signInRole", "rootCommunities"}
Whats == A!Modes \cup A!Role \cup {"add", "remove", "load", "back", ""}

\* A schema that a page was told is not newer than the client's, and if it is
\* as new, it was edited from it.
Fields == [version : Nat, fields : Nat, base : Nat]
EditedFields(s) == {e \in Fields : e.version <= s.version /\ (e.version = s.version => e.base = s.fields)}

RootView == [of : Communities, setting : A!Modes, admins : SUBSET People]
RootDraft == [of : Communities, mode : A!Modes]
ControlsView == [of : Communities, members : [People -> A!Role]]

SchemaStates == [version : Nat, fields : Nat]
RootStates ==
  [selected : Communities \cup {A!NoCommunity}, view : {A!None} \cup RootView, draft : {A!None} \cup RootDraft,
   loading : BOOLEAN, saving : BOOLEAN, adminBusy : BOOLEAN, seq : Nat]
ControlsStates ==
  [scope : Communities \cup {A!NoCommunity}, view : {A!None} \cup ControlsView, busy : BOOLEAN, generation : Nat]
EditorStates(s) == [schema : Seq(EditedFields(s)), saving : BOOLEAN, error : BOOLEAN]

AdminCall(s) ==
  [op : AdminOps, of : Communities, what : Whats, who : SUBSET People, seq : Nat,
   draft : Seq(EditedFields(s)), visit : Nat, over : BOOLEAN]

\* A call of this visit that asks for what is selected now asks for that, and
\* changes it only if it was shown.
RootCallFits(c, v, r) ==
  c.op \in RootOps /\ c.visit = v =>
    /\ c.seq <= r.seq
    /\ c.seq = r.seq => c.of = r.selected /\ (c.op # "rootCommunity" => r.view # A!None)
ControlCallFits(c, v, k) ==
  c.op \in ControlOps /\ c.visit = v =>
    c.seq <= k.generation /\ (c.seq = k.generation => c.of = k.scope)

\* The calls there may be of schema s, visit v, communities' page r, controls k.
AdminCalls(s, v, r, k) ==
  {c \in AdminCall(s) :
     /\ c.visit <= v
     /\ c.op = "rootSetSetting" => c.what \in A!Modes
     /\ c.op = "adminSetRole" => c.what \in A!Role
     /\ c.op = "adminSaveSchema" => c.draft # <<>>
     /\ RootCallFits(c, v, r) /\ ControlCallFits(c, v, k)}

\* Those that it may make now.
Current(c, v, n) == c.visit = v /\ c.seq = n
NewCalls(s, v, r, k) ==
  {c \in AdminCalls(s, v, r, k) :
     ~c.over /\ (c.op \in RootOps => Current(c, v, r.seq)) /\ (c.op \in ControlOps => Current(c, v, k.generation))}
MoreCalls(q, new) == {q} \cup {Append(q, c) : c \in new} \cup {Append(Append(q, c), d) : c \in new, d \in new}

SignIns(s, v, r, k) == {c \in AdminCalls(s, v, r, k) : c.op = "signInRole"}

AdminTold(s) == {A!None} \cup RootView \cup ControlsView \cup EditedFields(s)

\* What is told is what the call was about.
AnswersIt(c, told, s) ==
  /\ c.op \in RootOps => told \in RootView /\ told.of = c.of
  /\ c.op \in ControlOps => told \in ControlsView /\ told.of = c.of
  /\ c.op \in SchemaOps => told \in EditedFields(s)

AdminReplies(s, v, r, k) ==
  {m \in [call : AdminCalls(s, v, r, k), ok : BOOLEAN, told : AdminTold(s)] : m.ok => AnswersIt(m.call, m.told, s)}

AdminClientType ==
  /\ views \in [Communities -> [setting : A!Modes, admins : SUBSET People]]
  /\ members \in [Communities -> [People -> A!Role]]
  /\ schema \in SchemaStates

\* What is shown, and would be saved, is of what is selected.
RootFits(r) == r.view # A!None => r.draft # A!None /\ r.view.of = r.selected /\ r.draft.of = r.selected
ControlsFit(k) == k.view # A!None => k.view.of = k.scope

AdminPage ==
  /\ visit \in Nat /\ asks \in Nat
  /\ sign \in [done : BOOLEAN, busy : BOOLEAN]
  /\ root \in RootStates /\ RootFits(root)
  /\ controls \in ControlsStates /\ ControlsFit(controls)
  /\ page = "root" => controls.scope = root.selected
  /\ editor \in EditorStates(schema)

AdminPort ==
  /\ toClient \in Seq(AdminCalls(schema, visit, root, controls))
  /\ toPage \in Seq(AdminReplies(schema, visit, root, controls))
  /\ waiting \in Seq(SignIns(schema, visit, root, controls))

AdminInv == AdminClientType /\ AdminPage /\ AdminPort

-----------------------------------------------------------------------------

LEMMA OwnIsCommunity == Own \in Communities
BY PagesAssumption DEF A!AdminAssumption

\* What is selected stays, and is shown as it was told if an answer was heard;
\* or another is selected.
RootGoesOn(r, r2, heard, told) ==
  \/ r2.seq = r.seq /\ r2.selected = r.selected /\ r2.view = IF heard THEN told ELSE r.view
  \/ r2.seq = r.seq + 1 /\ r2.view = A!None
ControlsGoOn(k, k2, heard, told) ==
  \/ k2.generation = k.generation /\ k2.scope = k.scope /\ k2.view = IF heard THEN told ELSE k.view
  \/ k2.generation = k.generation + 1 /\ k2.view = A!None

RootHeard(c, ok) == ok /\ c.op \in RootOps /\ Current(c, visit, root.seq)
ControlsHeard(c, ok) == ok /\ c.op \in ControlOps /\ Current(c, visit, controls.generation)

\* A page goes on, or is left.
GoesOn(v, r, k, w, r2, k2) ==
  \/ w = v + 1
  \/ /\ w = v
     /\ \/ r2.seq = r.seq /\ r2.selected = r.selected /\ (r.view # A!None => r2.view # A!None)
        \/ r2.seq = r.seq + 1
     /\ \/ k2.generation = k.generation /\ k2.scope = k.scope
        \/ k2.generation = k.generation + 1

LEMMA FieldsGoOnFitting ==
  ASSUME NEW s \in SchemaStates, NEW s2 \in SchemaStates, s2 = s \/ s2.version = s.version + 1
  PROVE  EditedFields(s) \subseteq EditedFields(s2)
BY DEF EditedFields, SchemaStates, Fields

\* What fits goes on fitting.
LEMMA CallsGoOnFitting ==
  ASSUME NEW s \in SchemaStates, NEW s2 \in SchemaStates, s2 = s \/ s2.version = s.version + 1,
         NEW v \in Nat, NEW w \in Nat, NEW r \in RootStates, NEW r2 \in RootStates,
         NEW k \in ControlsStates, NEW k2 \in ControlsStates, GoesOn(v, r, k, w, r2, k2)
  PROVE  /\ EditedFields(s) \subseteq EditedFields(s2)
         /\ AdminCalls(s, v, r, k) \subseteq AdminCalls(s2, w, r2, k2)
         /\ AdminReplies(s, v, r, k) \subseteq AdminReplies(s2, w, r2, k2)
         /\ SignIns(s, v, r, k) \subseteq SignIns(s2, w, r2, k2)
<1>1. EditedFields(s) \subseteq EditedFields(s2)
  BY FieldsGoOnFitting
<1>2. AdminCall(s) \subseteq AdminCall(s2)
  <2>1. Seq(EditedFields(s)) \subseteq Seq(EditedFields(s2))
    BY <1>1, SeqMonotonic
  <2> QED
    BY <2>1 DEF AdminCall
<1>3. ASSUME NEW c \in AdminCalls(s, v, r, k)
      PROVE  c \in AdminCalls(s2, w, r2, k2)
  <2>1. c \in AdminCall(s) /\ c.visit \in Nat /\ c.seq \in Nat
    BY DEF AdminCalls, AdminCall
  <2>2. c.visit <= v /\ RootCallFits(c, v, r) /\ ControlCallFits(c, v, k)
    BY DEF AdminCalls
  <2>3. r.seq \in Nat /\ r2.seq \in Nat /\ k.generation \in Nat /\ k2.generation \in Nat
    BY DEF RootStates, ControlsStates
  <2>4. c.visit <= w
    BY <2>1, <2>2 DEF GoesOn
  <2>5. RootCallFits(c, w, r2)
    BY <2>1, <2>2, <2>3 DEF RootCallFits, GoesOn
  <2>6. ControlCallFits(c, w, k2)
    BY <2>1, <2>2, <2>3 DEF ControlCallFits, GoesOn
  <2> QED
    BY <1>2, <2>1, <2>4, <2>5, <2>6 DEF AdminCalls
<1>4. ASSUME NEW m \in AdminReplies(s, v, r, k)
      PROVE  m \in AdminReplies(s2, w, r2, k2)
  <2>1. /\ m \in [call : AdminCalls(s, v, r, k), ok : BOOLEAN, told : AdminTold(s)]
        /\ m.ok => AnswersIt(m.call, m.told, s)
    BY DEF AdminReplies
  <2>2. m \in [call : AdminCalls(s2, w, r2, k2), ok : BOOLEAN, told : AdminTold(s2)]
    BY <1>1, <1>3, <2>1 DEF AdminTold
  <2>3. m.ok => AnswersIt(m.call, m.told, s2)
    BY <1>1, <2>1 DEF AnswersIt
  <2> QED
    BY <2>2, <2>3 DEF AdminReplies
<1>5. SignIns(s, v, r, k) \subseteq SignIns(s2, w, r2, k2)
  BY <1>3 DEF SignIns
<1> QED
  BY <1>1, <1>3, <1>4, <1>5

LEMMA Numbered ==
  ASSUME NEW o, NEW c, NEW w, NEW h, NEW d, NEW v, NEW x, NEW z, NEW n
  PROVE  [[op |-> o, of |-> c, what |-> w, who |-> h, seq |-> z, draft |-> d, visit |-> v, over |-> x] EXCEPT !.seq = n]
           = [op |-> o, of |-> c, what |-> w, who |-> h, seq |-> n, draft |-> d, visit |-> v, over |-> x]
OBVIOUS

\* A call of the page, with what it shows once the call is made.
LEMMA NewCall ==
  ASSUME visit \in Nat, NEW s, NEW r \in RootStates, NEW k \in ControlsStates,
         NEW op \in AdminOps, NEW c \in Communities, NEW w \in Whats, NEW who \in SUBSET People, NEW n \in Nat,
         op = "rootSetSetting" => w \in A!Modes,
         op = "adminSetRole" => w \in A!Role,
         op # "adminSaveSchema",
         op \in RootOps => n = r.seq /\ c = r.selected /\ (op # "rootCommunity" => r.view # A!None),
         op \in ControlOps => n = k.generation /\ c = k.scope
  PROVE  LET call == [A!Call(op, c, w, who) EXCEPT !.seq = n] IN
         call \in NewCalls(s, visit, r, k)
<1> DEFINE none == <<>>
           zero == 0
           no == FALSE
           plain == A!Call(op, c, w, who)
           call == [plain EXCEPT !.seq = n]
<1>1. none \in Seq(EditedFields(s))
  BY EmptySeq
<1>2. plain = [op |-> op, of |-> c, what |-> w, who |-> who, seq |-> zero, draft |-> none, visit |-> visit, over |-> no]
  BY DEF A!Call
<1> HIDE DEF none, zero, no, plain
<1>3. call = [op |-> op, of |-> c, what |-> w, who |-> who, seq |-> n, draft |-> none, visit |-> visit, over |-> no]
  BY <1>2, Numbered
<1> HIDE DEF call
<1>4. call \in AdminCall(s) /\ no = FALSE
  BY <1>1, <1>3 DEF AdminCall, no
<1>5. r.seq \in Nat /\ k.generation \in Nat
  BY DEF RootStates, ControlsStates
<1>6. call \in AdminCalls(s, visit, r, k)
  BY <1>3, <1>4, <1>5 DEF AdminCalls, RootCallFits, ControlCallFits
<1>7. call.op = op /\ call.visit = visit /\ call.seq = n /\ ~call.over
  BY <1>3, <1>4
<1>8. call \in NewCalls(s, visit, r, k)
  BY <1>6, <1>7 DEF NewCalls, Current
<1> QED
  BY <1>8 DEF call, plain

LEMMA NewPlainCall ==
  ASSUME visit \in Nat, NEW s, NEW r \in RootStates, NEW k \in ControlsStates,
         NEW op \in {"signInRole", "rootCommunities", "adminSchema"}, NEW w \in Whats
  PROVE  LET call == A!Call(op, Own, w, {}) IN
         call \in NewCalls(s, visit, r, k)
<1> DEFINE none == <<>>
           call == A!Call(op, Own, w, {})
<1>1. none \in Seq(EditedFields(s))
  BY EmptySeq
<1>2. call =
        [op |-> op, of |-> Own, what |-> w, who |-> {}, seq |-> 0, draft |-> none, visit |-> visit, over |-> FALSE]
  BY DEF A!Call
<1> HIDE DEF none, call
<1>3. op \in AdminOps /\ op \notin RootOps \cup ControlOps
  BY DEF AdminOps, SchemaOps, RootOps, ControlOps
<1>4. call \in AdminCall(s)
  BY <1>1, <1>2, <1>3, OwnIsCommunity DEF AdminCall
<1>5. call \in AdminCalls(s, visit, r, k)
  BY <1>2, <1>3, <1>4 DEF AdminCalls, RootCallFits, ControlCallFits
<1>6. call.op = op /\ call.visit = visit /\ ~call.over
  BY <1>2
<1>7. call \in NewCalls(s, visit, r, k)
  BY <1>3, <1>5, <1>6 DEF NewCalls, Current
<1> QED
  BY <1>7 DEF call

\* A call that took too long fits as before.
LEMMA OverCall ==
  ASSUME NEW s, NEW v, NEW r, NEW k, NEW c \in AdminCalls(s, v, r, k)
  PROVE  /\ [c EXCEPT !.over = TRUE] \in AdminCalls(s, v, r, k)
         /\ [c EXCEPT !.over = TRUE].op = c.op
<1>1. c \in AdminCall(s)
  BY DEF AdminCalls
<1>2. [c EXCEPT !.over = TRUE] \in AdminCall(s)
  BY <1>1 DEF AdminCall
<1>3. /\ [c EXCEPT !.over = TRUE].op = c.op /\ [c EXCEPT !.over = TRUE].visit = c.visit
      /\ [c EXCEPT !.over = TRUE].seq = c.seq /\ [c EXCEPT !.over = TRUE].of = c.of
      /\ [c EXCEPT !.over = TRUE].what = c.what /\ [c EXCEPT !.over = TRUE].draft = c.draft
  BY <1>1 DEF AdminCall
<1> QED
  BY <1>2, <1>3 DEF AdminCalls, RootCallFits, ControlCallFits

LEMMA MoreCallsOf ==
  ASSUME NEW S, NEW q \in Seq(S), NEW new, new \subseteq S, NEW q2 \in MoreCalls(q, new)
  PROVE  q2 \in Seq(S)
<1>1. \A c \in new : Append(q, c) \in Seq(S)
  BY AppendProperties
<1>2. \A c \in new, d \in new : Append(Append(q, c), d) \in Seq(S)
  BY <1>1, AppendProperties
<1> QED
  BY <1>1, <1>2, SMTT(30) DEF MoreCalls

\* Whatever a step does to the page, what is in the port goes on fitting.
LEMMA PortKept ==
  ASSUME AdminInv, AdminClientType', AdminPage', schema' = schema \/ schema'.version = schema.version + 1,
         GoesOn(visit, root, controls, visit', root', controls'),
         NEW q \in Seq(AdminCalls(schema, visit, root, controls)),
         toClient' \in MoreCalls(q, NewCalls(schema', visit', root', controls')),
         \/ toPage' \in Seq(AdminReplies(schema, visit, root, controls))
         \/ toPage' \in Seq(AdminReplies(schema', visit', root', controls')),
         \/ waiting' \in Seq(SignIns(schema, visit, root, controls))
         \/ waiting' \in Seq(SignIns(schema', visit', root', controls'))
  PROVE  AdminInv'
<1>1. /\ schema \in SchemaStates /\ schema' \in SchemaStates /\ visit \in Nat /\ visit' \in Nat
      /\ root \in RootStates /\ root' \in RootStates /\ controls \in ControlsStates /\ controls' \in ControlsStates
  BY DEF AdminInv, AdminClientType, AdminPage
<1>2. /\ AdminCalls(schema, visit, root, controls) \subseteq AdminCalls(schema', visit', root', controls')
      /\ AdminReplies(schema, visit, root, controls) \subseteq AdminReplies(schema', visit', root', controls')
      /\ SignIns(schema, visit, root, controls) \subseteq SignIns(schema', visit', root', controls')
  BY <1>1, CallsGoOnFitting
<1>3. q \in Seq(AdminCalls(schema', visit', root', controls'))
  BY <1>2, SeqMonotonic
<1>4. toClient' \in Seq(AdminCalls(schema', visit', root', controls'))
  <2>1. NewCalls(schema', visit', root', controls') \subseteq AdminCalls(schema', visit', root', controls')
    BY DEF NewCalls
  <2> QED
    BY <1>3, <2>1, MoreCallsOf
<1>5. /\ toPage' \in Seq(AdminReplies(schema', visit', root', controls'))
      /\ waiting' \in Seq(SignIns(schema', visit', root', controls'))
  BY <1>2, SeqMonotonic
<1> QED
  BY <1>4, <1>5 DEF AdminInv, AdminPort

\* The controls fit, and read of community c after the calls of q, if they must.
ControlsScoped(s, r, c, q) ==
  /\ controls' \in ControlsStates /\ ControlsFit(controls') /\ controls'.scope = c
  /\ ControlsGoOn(controls, controls', FALSE, A!None)
  /\ toClient' = q \/ \E d \in NewCalls(s, visit, r, controls') : toClient' = Append(q, d)

LEMMA ScopeToKeeps ==
  ASSUME visit \in Nat, NEW s, NEW r \in RootStates, controls \in ControlsStates, ControlsFit(controls),
         NEW c \in Communities, NEW q, A!ScopeTo(c, q)
  PROVE  ControlsScoped(s, r, c, q)
<1>1. CASE controls.scope = c
  BY <1>1 DEF A!ScopeTo, ControlsGoOn, ControlsScoped
<1>2. CASE controls.scope # c
  <2> DEFINE g == controls.generation + 1
             k == [A!NewControls EXCEPT !.scope = c, !.generation = g]
             call == [A!Call("adminAccess", c, "", {}) EXCEPT !.seq = g]
  <2>1. controls' = k /\ toClient' = Append(q, call)
    BY <1>2 DEF A!ScopeTo
  <2>2. g \in Nat
    BY DEF ControlsStates
  <2>3. k \in ControlsStates /\ k.view = A!None /\ k.scope = c /\ k.generation = g
    <3> HIDE DEF g
    <3> QED
      BY <2>2 DEF ControlsStates, A!NewControls, A!None
  <2>4. call \in NewCalls(s, visit, r, k)
    <3> HIDE DEF g, k
    <3> QED
      BY <2>2, <2>3, NewCall DEF AdminOps, SchemaOps, RootOps, ControlOps, Whats
  <2> HIDE DEF k, call
  <2> QED
    BY <2>1, <2>3, <2>4 DEF ControlsFit, ControlsGoOn, ControlsScoped, g
<1> QED
  BY <1>1, <1>2

LEMMA SelectKeeps ==
  ASSUME visit \in Nat, NEW s, root \in RootStates, controls \in ControlsStates, ControlsFit(controls),
         NEW c \in Communities, NEW q, A!Select(c, q)
  PROVE  /\ root' \in RootStates /\ RootFits(root') /\ root'.selected = c
         /\ controls' \in ControlsStates /\ ControlsFit(controls') /\ controls'.scope = c
         /\ RootGoesOn(root, root', FALSE, A!None) /\ ControlsGoOn(controls, controls', FALSE, A!None)
         /\ toClient' \in MoreCalls(q, NewCalls(s, visit, root', controls'))
<1> DEFINE call == [A!Call("rootCommunity", c, "", {}) EXCEPT !.seq = root'.seq]
<1>1. root' = [root EXCEPT !.selected = c, !.view = A!None, !.loading = TRUE, !.seq = @ + 1]
  BY DEF A!Select, A!Opens
<1>2. /\ root' \in RootStates /\ root'.selected = c /\ root'.view = A!None /\ root'.seq = root.seq + 1
      /\ root'.seq \in Nat
  <2> DEFINE n == root.seq + 1
             none == A!None
  <2>1. n \in Nat
    BY DEF RootStates
  <2>2. root' = [root EXCEPT !.selected = c, !.view = none, !.loading = TRUE, !.seq = n]
    BY <1>1
  <2> HIDE DEF n, none
  <2>3. root' \in RootStates /\ root'.selected = c /\ root'.view = none /\ root'.seq = n
    BY <2>1, <2>2 DEF RootStates, none
  <2> QED
    BY <2>1, <2>3 DEF n, none
<1>3. A!ScopeTo(c, Append(q, call))
  BY DEF A!Select
<1>4. /\ controls' \in ControlsStates /\ ControlsFit(controls') /\ controls'.scope = c
      /\ ControlsGoOn(controls, controls', FALSE, A!None)
      /\ \/ toClient' = Append(q, call)
         \/ \E d \in NewCalls(s, visit, root', controls') : toClient' = Append(Append(q, call), d)
  <2> DEFINE more == Append(q, call)
             r == root'
  <2>1. A!ScopeTo(c, more)
    BY <1>3
  <2>2. r \in RootStates
    BY <1>2
  <2> HIDE DEF more, r, call
  <2>3. ControlsScoped(s, r, c, more)
    BY <2>1, <2>2, ScopeToKeeps
  <2> QED
    BY <2>3 DEF ControlsScoped, more, r
<1>5. call \in NewCalls(s, visit, root', controls')
  BY <1>2, <1>4, NewCall DEF AdminOps, SchemaOps, RootOps, ControlOps, Whats
<1>6. toClient' \in MoreCalls(q, NewCalls(s, visit, root', controls'))
  <2> HIDE DEF call
  <2> QED
    BY <1>4, <1>5 DEF MoreCalls
<1> QED
  BY <1>2, <1>4, <1>6 DEF RootFits, RootGoesOn

\* What the page does about an answer, or for want of one.
Effect(c, ok, told, q) ==
  /\ AdminPage'
  /\ RootGoesOn(root, root', RootHeard(c, ok), told)
  /\ ControlsGoOn(controls, controls', ControlsHeard(c, ok), told)
  /\ toClient' \in MoreCalls(q, NewCalls(schema, visit, root', controls'))

SameForAll == UNCHANGED <<views, members, schema, page, visit, asks>>

LEMMA SignedInKeeps ==
  ASSUME AdminPage, SameForAll, NEW c, c.op = "signInRole", NEW ok \in BOOLEAN, NEW told, NEW q,
         A!SignedIn(c, ok, q)
  PROVE  Effect(c, ok, told, q)
<1>1. sign' \in [done : BOOLEAN, busy : BOOLEAN]
  BY DEF A!SignedIn, AdminPage
<1>2. ~RootHeard(c, ok) /\ ~ControlsHeard(c, ok)
  BY DEF RootHeard, ControlsHeard, RootOps, ControlOps
<1>3. root' = root /\ editor' = editor /\ RootGoesOn(root, root', FALSE, told)
  BY DEF A!SignedIn, RootGoesOn
<1>4. CASE ok /\ page = "admin"
  <2>1. A!ScopeTo(Own, q)
    BY <1>4 DEF A!SignedIn
  <2>2. /\ controls' \in ControlsStates /\ ControlsFit(controls')
        /\ ControlsGoOn(controls, controls', FALSE, A!None)
        /\ (toClient' = q \/ \E d \in NewCalls(schema, visit, root, controls') : toClient' = Append(q, d))
    <3>1. ControlsScoped(schema, root, Own, q)
      BY <2>1, ScopeToKeeps, OwnIsCommunity DEF AdminPage
    <3> QED
      BY <3>1 DEF ControlsScoped
  <2>3. AdminPage'
    BY <1>1, <1>3, <1>4, <2>2 DEF AdminPage, SameForAll
  <2>4. toClient' \in MoreCalls(q, NewCalls(schema, visit, root', controls'))
    BY <1>3, <2>2 DEF MoreCalls
  <2>5. ControlsGoOn(controls, controls', FALSE, told)
    BY <2>2 DEF ControlsGoOn
  <2> QED
    BY <1>2, <1>3, <2>3, <2>4, <2>5 DEF Effect, RootGoesOn, ControlsGoOn
<1>5. CASE ~(ok /\ page = "admin")
  <2>1. /\ controls' = controls
        /\ \/ toClient' = q
           \/ \E op \in {"rootCommunities", "adminSchema"} : toClient' = Append(q, A!Call(op, Own, "load", {}))
    BY <1>5 DEF A!SignedIn
  <2>2. \A op \in {"rootCommunities", "adminSchema"} :
          A!Call(op, Own, "load", {}) \in NewCalls(schema, visit, root, controls)
    BY NewPlainCall DEF AdminPage, Whats
  <2>3. AdminPage'
    BY <1>1, <1>3, <2>1 DEF AdminPage, SameForAll
  <2>4. toClient' \in MoreCalls(q, NewCalls(schema, visit, root', controls'))
    BY <1>3, <2>1, <2>2 DEF MoreCalls
  <2>5. ControlsGoOn(controls, controls', FALSE, told)
    BY <2>1 DEF ControlsGoOn
  <2> QED
    BY <1>2, <1>3, <2>3, <2>4, <2>5 DEF Effect, RootGoesOn, ControlsGoOn
<1> QED
  BY <1>4, <1>5

LEMMA CommunitiesAnsweredKeeps ==
  ASSUME AdminPage, SameForAll, NEW c, c.op = "rootCommunities", NEW ok \in BOOLEAN, NEW told, NEW q,
         A!CommunitiesAnswered(ok, q)
  PROVE  Effect(c, ok, told, q)
<1>1. sign' \in [done : BOOLEAN, busy : BOOLEAN] /\ editor' = editor
  BY DEF A!CommunitiesAnswered, AdminPage
<1>2. ~RootHeard(c, ok) /\ ~ControlsHeard(c, ok)
  BY DEF RootHeard, ControlsHeard, RootOps, ControlOps
<1>3. CASE ok
  <2>1. A!Select(Own, q)
    BY <1>3 DEF A!CommunitiesAnswered
  <2>2. /\ root' \in RootStates /\ RootFits(root') /\ root'.selected = Own
        /\ controls' \in ControlsStates /\ ControlsFit(controls') /\ controls'.scope = Own
        /\ RootGoesOn(root, root', FALSE, A!None) /\ ControlsGoOn(controls, controls', FALSE, A!None)
        /\ toClient' \in MoreCalls(q, NewCalls(schema, visit, root', controls'))
    BY <2>1, SelectKeeps, OwnIsCommunity DEF AdminPage
  <2> QED
    BY <1>1, <1>2, <2>2 DEF Effect, AdminPage, SameForAll, RootGoesOn, ControlsGoOn
<1>4. CASE ~ok
  BY <1>1, <1>2, <1>4 DEF A!CommunitiesAnswered, Effect, AdminPage, SameForAll, RootGoesOn, ControlsGoOn, MoreCalls
<1> QED
  BY <1>3, <1>4

\* What an answer makes of the communities' page.
LEMMA RootAnswered ==
  ASSUME AdminPage, NEW c \in AdminCalls(schema, visit, root, controls), c.op \in RootOps, c.visit = visit,
         NEW ok \in BOOLEAN, NEW told, ok => AnswersIt(c, told, schema)
  PROVE  /\ ok => told \in RootView /\ told # A!None /\ A!Draft(told) \in RootDraft /\ A!Draft(told) # A!None
                  /\ A!Draft(told).of = told.of
         /\ ok /\ A!Newest(c) => told.of = root.selected
         /\ A!Newest(c) /\ c.op # "rootCommunity" => root.view # A!None
         /\ RootHeard(c, ok) <=> ok /\ A!Newest(c)
         /\ ~ControlsHeard(c, ok)
<1>1. ASSUME ok
      PROVE  told \in RootView /\ told # A!None /\ A!Draft(told) \in RootDraft /\ A!Draft(told) # A!None
             /\ A!Draft(told).of = told.of
  <2>1. told \in RootView
    BY <1>1 DEF AnswersIt
  <2>2. told # A!None
    BY <2>1 DEF RootView, A!None
  <2>3. A!Draft(told) \in RootDraft /\ A!Draft(told).of = told.of
    BY <2>1 DEF RootView, RootDraft, A!Draft
  <2>4. A!Draft(told) # A!None
    BY <2>3 DEF RootDraft, A!None
  <2> QED
    BY <2>1, <2>2, <2>3, <2>4
<1>2. ~ControlsHeard(c, ok)
  BY DEF ControlsHeard, ControlOps, RootOps
<1>3. RootCallFits(c, visit, root)
  BY DEF AdminCalls
<1>4. RootHeard(c, ok) <=> ok /\ A!Newest(c)
  BY DEF RootHeard, Current, A!Newest
<1> QED
  BY <1>1, <1>2, <1>3, <1>4 DEF RootCallFits, A!Newest, AnswersIt

LEMMA CommunityAnsweredKeeps ==
  ASSUME AdminPage, SameForAll, NEW c \in AdminCalls(schema, visit, root, controls),
         c.op = "rootCommunity", c.visit = visit,
         NEW ok \in BOOLEAN, NEW told, ok => AnswersIt(c, told, schema), NEW q, A!CommunityAnswered(c, ok, told, q)
  PROVE  Effect(c, ok, told, q)
<1>1. /\ ok => told \in RootView /\ told # A!None /\ A!Draft(told) \in RootDraft /\ A!Draft(told) # A!None
               /\ A!Draft(told).of = told.of
      /\ ok /\ A!Newest(c) => told.of = root.selected
      /\ RootHeard(c, ok) <=> ok /\ A!Newest(c)
      /\ ~ControlsHeard(c, ok)
  BY RootAnswered DEF RootOps
<1>2. sign' \in [done : BOOLEAN, busy : BOOLEAN] /\ controls' = controls /\ editor' = editor /\ toClient' = q
  BY DEF A!CommunityAnswered, AdminPage
<1>3. CASE ok /\ A!Newest(c)
  <2> DEFINE draft0 == A!Draft(told)
  <2>1. root' = [root EXCEPT !.view = told, !.draft = draft0, !.loading = FALSE]
    BY <1>3 DEF A!CommunityAnswered
  <2>2. draft0 \in RootDraft /\ draft0 # A!None /\ draft0.of = told.of
    BY <1>1, <1>3
  <2> HIDE DEF draft0
  <2>3. /\ root' \in RootStates /\ root'.selected = root.selected /\ root'.seq = root.seq /\ root'.view = told
        /\ root'.draft = draft0
    BY <1>1, <1>3, <2>1, <2>2 DEF AdminPage, RootStates
  <2> QED
    BY <1>1, <1>2, <1>3, <2>2, <2>3
    DEF Effect, AdminPage, SameForAll, RootFits, RootGoesOn, ControlsGoOn, MoreCalls
<1>4. CASE ~(ok /\ A!Newest(c))
  <2>1. root' = root \/ root' = [root EXCEPT !.loading = FALSE]
    BY <1>4 DEF A!CommunityAnswered
  <2>2. /\ root' \in RootStates /\ root'.selected = root.selected /\ root'.seq = root.seq
        /\ root'.view = root.view /\ root'.draft = root.draft
    BY <2>1 DEF AdminPage, RootStates
  <2> QED
    BY <1>1, <1>2, <1>4, <2>2 DEF Effect, AdminPage, SameForAll, RootFits, RootGoesOn, ControlsGoOn, MoreCalls
<1> QED
  BY <1>3, <1>4

LEMMA ChangeAnsweredKeeps ==
  ASSUME AdminPage, SameForAll, NEW c \in AdminCalls(schema, visit, root, controls),
         c.op \in {"rootSetSetting", "rootSetAdmin"}, c.visit = visit,
         NEW ok \in BOOLEAN, NEW told, ok => AnswersIt(c, told, schema), NEW q, A!ChangeAnswered(c, ok, told, q)
  PROVE  Effect(c, ok, told, q)
<1>1. /\ ok => told \in RootView /\ told # A!None /\ A!Draft(told) \in RootDraft /\ A!Draft(told) # A!None
               /\ A!Draft(told).of = told.of
      /\ ok /\ A!Newest(c) => told.of = root.selected
      /\ A!Newest(c) => root.view # A!None
      /\ RootHeard(c, ok) <=> ok /\ A!Newest(c)
      /\ ~ControlsHeard(c, ok)
  BY RootAnswered DEF RootOps
<1>2. sign' = sign /\ controls' = controls /\ editor' = editor /\ toClient' = q
  BY DEF A!ChangeAnswered
<1>3. CASE ok /\ A!Newest(c)
  <2> DEFINE draft0 == IF c.op = "rootSetSetting" THEN A!Draft(told) ELSE root.draft
  <2>1. \E saving, adminBusy \in BOOLEAN :
          root' = [root EXCEPT !.view = told, !.draft = draft0, !.saving = saving, !.adminBusy = adminBusy]
    <3>1. root' = IF c.op = "rootSetSetting"
                  THEN [[root EXCEPT !.view = told] EXCEPT !.saving = FALSE, !.draft = A!Draft(told)]
                  ELSE [[root EXCEPT !.view = told] EXCEPT !.adminBusy = FALSE]
      BY <1>3 DEF A!ChangeAnswered
    <3>2. root.saving \in BOOLEAN /\ root.adminBusy \in BOOLEAN
      BY DEF AdminPage, RootStates
    <3>3. CASE c.op = "rootSetSetting"
      <4>1. root' = [root EXCEPT !.view = told, !.draft = draft0, !.saving = FALSE, !.adminBusy = root.adminBusy]
        BY <3>1, <3>3 DEF AdminPage, RootStates
      <4> QED
        BY <3>2, <4>1
    <3>4. CASE c.op # "rootSetSetting"
      <4>1. root' = [root EXCEPT !.view = told, !.draft = draft0, !.saving = root.saving, !.adminBusy = FALSE]
        BY <3>1, <3>4 DEF AdminPage, RootStates
      <4> QED
        BY <3>2, <4>1
    <3> QED
      BY <3>3, <3>4
  <2>2. draft0 \in RootDraft /\ draft0 # A!None /\ draft0.of = told.of
    BY <1>1, <1>3 DEF AdminPage, RootFits, RootStates
  <2> HIDE DEF draft0
  <2>3. /\ root' \in RootStates /\ root'.selected = root.selected /\ root'.seq = root.seq /\ root'.view = told
        /\ root'.draft = draft0
    BY <1>1, <1>3, <2>1, <2>2 DEF AdminPage, RootStates
  <2> QED
    BY <1>1, <1>2, <1>3, <2>2, <2>3
    DEF Effect, AdminPage, SameForAll, RootFits, RootGoesOn, ControlsGoOn, MoreCalls
<1>4. CASE ~(ok /\ A!Newest(c))
  <2>1. root' = [root EXCEPT !.saving = FALSE, !.draft = root.draft] \/ root' = [root EXCEPT !.adminBusy = FALSE]
    BY <1>4 DEF A!ChangeAnswered
  <2>2. /\ root' \in RootStates /\ root'.selected = root.selected /\ root'.seq = root.seq
        /\ root'.view = root.view /\ root'.draft = root.draft
    BY <2>1 DEF AdminPage, RootStates
  <2> QED
    BY <1>1, <1>2, <1>4, <2>2 DEF Effect, AdminPage, SameForAll, RootFits, RootGoesOn, ControlsGoOn, MoreCalls
<1> QED
  BY <1>3, <1>4

LEMMA ControlsAnsweredKeeps ==
  ASSUME AdminPage, SameForAll, NEW c \in AdminCalls(schema, visit, root, controls),
         c.op \in ControlOps, c.visit = visit,
         NEW ok \in BOOLEAN, NEW told, ok => AnswersIt(c, told, schema), NEW q, A!ControlsAnswered(c, ok, told, q)
  PROVE  Effect(c, ok, told, q)
<1>1. sign' = sign /\ root' = root /\ editor' = editor /\ toClient' = q
  BY DEF A!ControlsAnswered
<1>2. ~RootHeard(c, ok) /\ (ControlsHeard(c, ok) <=> ok /\ c.seq = controls.generation)
  BY DEF RootHeard, ControlsHeard, Current, RootOps, ControlOps
<1>3. ok => told \in ControlsView /\ told.of = c.of
  BY DEF AnswersIt
<1>4. /\ controls' \in ControlsStates /\ controls'.scope = controls.scope /\ controls'.generation = controls.generation
      /\ controls'.view = IF ok /\ c.seq = controls.generation THEN told ELSE controls.view
  BY <1>3 DEF A!ControlsAnswered, AdminPage, ControlsStates
<1>5. ControlsFit(controls')
  BY <1>3, <1>4 DEF AdminPage, ControlsFit, AdminCalls, ControlCallFits
<1> QED
  BY <1>1, <1>2, <1>4, <1>5 DEF Effect, AdminPage, SameForAll, RootGoesOn, ControlsGoOn, MoreCalls

LEMMA SchemaAnsweredKeeps ==
  ASSUME AdminPage, SameForAll, NEW c, c.op \in SchemaOps,
         NEW ok \in BOOLEAN, NEW told, ok => AnswersIt(c, told, schema), NEW q, A!SchemaAnswered(c, ok, told, q)
  PROVE  Effect(c, ok, told, q)
<1>1. ~RootHeard(c, ok) /\ ~ControlsHeard(c, ok)
  BY DEF RootHeard, ControlsHeard, RootOps, ControlOps, SchemaOps
<1>2. root' = root /\ controls' = controls
  BY DEF A!SchemaAnswered
<1>3. toClient' \in MoreCalls(q, NewCalls(schema, visit, root, controls))
  <2>1. A!Call("adminSchema", Own, "back", {}) \in NewCalls(schema, visit, root, controls)
    BY NewPlainCall DEF AdminPage, Whats
  <2>2. toClient' = q \/ toClient' = Append(q, A!Call("adminSchema", Own, "back", {}))
    BY DEF A!SchemaAnswered
  <2> QED
    BY <2>1, <2>2 DEF MoreCalls
<1>4. sign' \in [done : BOOLEAN, busy : BOOLEAN]
  BY DEF A!SchemaAnswered, AdminPage
<1>5. editor' \in EditorStates(schema)
  <2>1. ok => told \in EditedFields(schema)
    BY DEF AnswersIt
  <2>2. ok => <<told>> \in Seq(EditedFields(schema))
    BY <2>1
  <2> DEFINE next == IF ok THEN <<told>> ELSE editor.schema
             saving == IF c.what = "load" THEN editor.saving ELSE FALSE
             failed == ~ok
  <2>3. editor \in EditorStates(schema)
    BY DEF AdminPage
  <2>4. next \in Seq(EditedFields(schema)) /\ saving \in BOOLEAN /\ failed \in BOOLEAN
    BY <2>2, <2>3 DEF EditorStates
  <2>5. editor' = editor \/ editor' = [schema |-> next, error |-> failed, saving |-> saving]
    BY DEF A!SchemaAnswered
  <2> HIDE DEF next, saving, failed
  <2> QED
    BY <2>3, <2>4, <2>5 DEF EditorStates
<1> QED
  BY <1>1, <1>2, <1>3, <1>4, <1>5 DEF Effect, AdminPage, SameForAll, RootGoesOn, ControlsGoOn

\* An answer, or the want of one.
LEMMA ContinueKeeps ==
  ASSUME AdminPage, SameForAll, NEW c \in AdminCalls(schema, visit, root, controls),
         NEW ok \in BOOLEAN, NEW told, ok => AnswersIt(c, told, schema), NEW q, A!Continue(c, ok, told, q)
  PROVE  Effect(c, ok, told, q)
<1>1. CASE c.visit # visit
  <2>1. ~RootHeard(c, ok) /\ ~ControlsHeard(c, ok)
    BY <1>1 DEF RootHeard, ControlsHeard, Current
  <2>2. sign' = sign /\ root' = root /\ controls' = controls /\ editor' = editor /\ toClient' = q
    BY <1>1 DEF A!Continue, A!state
  <2> QED
    BY <2>1, <2>2 DEF Effect, AdminPage, SameForAll, RootGoesOn, ControlsGoOn, MoreCalls
<1>2. CASE c.visit = visit
  <2>1. c.op \in AdminOps
    BY DEF AdminCalls, AdminCall
  <2>2. CASE c.op = "signInRole"
    BY <1>2, <2>2, SignedInKeeps DEF A!Continue
  <2>3. CASE c.op = "rootCommunities"
    BY <1>2, <2>3, CommunitiesAnsweredKeeps DEF A!Continue
  <2>4. CASE c.op = "rootCommunity"
    BY <1>2, <2>4, CommunityAnsweredKeeps DEF A!Continue
  <2>5. CASE c.op \in {"rootSetSetting", "rootSetAdmin"}
    BY <1>2, <2>5, ChangeAnsweredKeeps DEF A!Continue
  <2>6. CASE c.op \in ControlOps
    BY <1>2, <2>6, ControlsAnsweredKeeps DEF A!Continue, ControlOps
  <2>7. CASE c.op \in SchemaOps
    BY <1>2, <2>7, SchemaAnsweredKeeps DEF A!Continue, SchemaOps
  <2> QED
    BY <2>1, <2>2, <2>3, <2>4, <2>5, <2>6, <2>7 DEF AdminOps, RootOps
<1> QED
  BY <1>1, <1>2

-----------------------------------------------------------------------------
(* Admin: each step keeps the invariant.                                   *)

\* Someone at the page does something, and it may ask for something.
AskedStep ==
  /\ UNCHANGED <<views, members, schema, toPage, waiting, page, visit, timeouts>>
  /\ AdminPage'
  /\ RootGoesOn(root, root', FALSE, A!None) /\ ControlsGoOn(controls, controls', FALSE, A!None)
  /\ toClient' \in MoreCalls(toClient, NewCalls(schema, visit, root', controls'))

LEMMA GoesOnIfShown ==
  ASSUME visit' = visit, NEW heard \in BOOLEAN, NEW told, heard => told # A!None, NEW heard2 \in BOOLEAN,
         RootGoesOn(root, root', heard, told), ControlsGoOn(controls, controls', heard2, told)
  PROVE  GoesOn(visit, root, controls, visit', root', controls')
BY DEF GoesOn, RootGoesOn, ControlsGoOn

LEMMA AskedKeeps ==
  ASSUME AdminInv, AskedStep
  PROVE  AdminInv'
<1>1. AdminClientType' /\ AdminPage' /\ schema' = schema /\ visit' = visit
  BY DEF AdminInv, AdminClientType, AskedStep
<1>2. GoesOn(visit, root, controls, visit', root', controls')
  BY GoesOnIfShown DEF AskedStep
<1>3. /\ toClient' \in MoreCalls(toClient, NewCalls(schema', visit', root', controls'))
      /\ toPage' = toPage /\ waiting' = waiting
  BY <1>1 DEF AskedStep
<1> QED
  BY <1>1, <1>2, <1>3, PortKept DEF AdminInv, AdminPort

LEMMA SignInAsks ==
  ASSUME AdminInv, A!SignIn
  PROVE  AskedStep
<1>1. \A w \in Whats : A!Call("signInRole", Own, w, {}) \in NewCalls(schema, visit, root, controls)
  BY NewPlainCall DEF AdminInv, AdminPage
<1>2. \E w \in Whats : toClient' = Append(toClient, A!Call("signInRole", Own, w, {}))
  BY DEF A!SignIn, Whats, A!Role
<1>3. sign' \in [done : BOOLEAN, busy : BOOLEAN] /\ asks' \in Nat
  <2>1. sign' = [sign EXCEPT !.busy = TRUE] /\ asks' = asks + 1
    BY DEF A!SignIn, A!Asks
  <2>2. sign \in [done : BOOLEAN, busy : BOOLEAN] /\ asks \in Nat
    BY DEF AdminInv, AdminPage
  <2>3. asks' \in Nat
    BY <2>1, <2>2
  <2>4. sign' \in [done : BOOLEAN, busy : BOOLEAN]
    BY <2>1, <2>2
  <2> QED
    BY <2>3, <2>4
<1>4. UNCHANGED <<views, members, schema, toPage, waiting, page, visit, timeouts, root, controls, editor>>
  BY DEF A!SignIn, A!client
<1> QED
  BY <1>1, <1>2, <1>3, <1>4 DEF AskedStep, AdminInv, AdminPage, RootGoesOn, ControlsGoOn, MoreCalls

LEMMA SelectCommunityAsks ==
  ASSUME AdminInv, NEW c \in Communities, A!SelectCommunity(c)
  PROVE  AskedStep
<1>1. /\ A!Select(c, toClient) /\ asks' \in Nat
      /\ UNCHANGED <<views, members, schema, toPage, waiting, page, visit, timeouts, sign, editor>>
  BY DEF A!SelectCommunity, A!client, A!Asks, AdminInv, AdminPage
<1>2. /\ root' \in RootStates /\ RootFits(root') /\ root'.selected = c
      /\ controls' \in ControlsStates /\ ControlsFit(controls') /\ controls'.scope = c
      /\ RootGoesOn(root, root', FALSE, A!None) /\ ControlsGoOn(controls, controls', FALSE, A!None)
      /\ toClient' \in MoreCalls(toClient, NewCalls(schema, visit, root', controls'))
  BY <1>1, SelectKeeps DEF AdminInv, AdminPage
<1> QED
  BY <1>1, <1>2 DEF AskedStep, AdminInv, AdminPage

LEMMA ChooseModeAsks ==
  ASSUME AdminInv, NEW mode \in A!Modes, A!ChooseMode(mode)
  PROVE  AskedStep
<1>1. root.view # A!None /\ root.draft \in RootDraft /\ root.draft.of = root.selected /\ root \in RootStates
  BY DEF A!ChooseMode, A!Shows, AdminInv, AdminPage, RootFits, RootStates
<1>2. root' = [root EXCEPT !.draft.mode = mode]
  BY DEF A!ChooseMode
<1>3. [root.draft EXCEPT !.mode = mode] \in RootDraft /\ [root.draft EXCEPT !.mode = mode].of = root.draft.of
  BY <1>1 DEF RootDraft
<1>4. root' = [root EXCEPT !.draft = [root.draft EXCEPT !.mode = mode]]
  BY <1>2
<1>5. /\ root' \in RootStates /\ root'.selected = root.selected /\ root'.seq = root.seq /\ root'.view = root.view
      /\ root'.draft \in RootDraft /\ root'.draft.of = root.selected
  <2> DEFINE draft0 == [root.draft EXCEPT !.mode = mode]
  <2>1. draft0 \in RootDraft /\ draft0.of = root.selected /\ root' = [root EXCEPT !.draft = draft0]
    BY <1>1, <1>3, <1>4
  <2> HIDE DEF draft0
  <2> QED
    BY <1>1, <2>1 DEF RootStates
<1>6. RootFits(root')
  BY <1>5 DEF RootFits, RootDraft, A!None, AdminInv, AdminPage
<1>7. UNCHANGED <<views, members, schema, toClient, toPage, waiting, page, visit, timeouts, sign, controls, editor, asks>>
  BY DEF A!ChooseMode, A!client, A!port
<1> QED
  BY <1>5, <1>6, <1>7 DEF AskedStep, AdminInv, AdminPage, RootGoesOn, ControlsGoOn, MoreCalls

\* What a page that shows a community would change.
LEMMA ShownIsSelected ==
  ASSUME AdminInv, A!Shows
  PROVE  /\ root.view # A!None /\ root.selected \in Communities /\ root.seq \in Nat
         /\ root.draft.mode \in A!Modes
BY DEF A!Shows, AdminInv, AdminPage, RootFits, RootStates, RootView, RootDraft

LEMMA SaveSettingAsks ==
  ASSUME AdminInv, A!SaveSetting
  PROVE  AskedStep
<1> DEFINE call == [A!Call("rootSetSetting", root.selected, root.draft.mode, {}) EXCEPT !.seq = root.seq]
<1>1. /\ root.view # A!None /\ root.selected \in Communities /\ root.seq \in Nat
      /\ root.draft.mode \in A!Modes
  BY ShownIsSelected DEF A!SaveSetting
<1>2. root' = [root EXCEPT !.saving = TRUE] /\ toClient' = Append(toClient, call) /\ asks' \in Nat
  BY DEF A!SaveSetting, A!Asks, AdminInv, AdminPage
<1>3. /\ root' \in RootStates /\ root'.selected = root.selected /\ root'.seq = root.seq /\ root'.view = root.view
      /\ root'.draft = root.draft
  BY <1>2 DEF AdminInv, AdminPage, RootStates
<1>4. call \in NewCalls(schema, visit, root', controls)
  <2> DEFINE mode == root.draft.mode
             n == root.seq
  <2>1. mode \in Whats /\ mode \in A!Modes /\ n \in Nat
    BY <1>1 DEF Whats
  <2> HIDE DEF mode
  <2> QED
    BY <1>1, <1>3, <2>1, NewCall DEF AdminOps, SchemaOps, RootOps, ControlOps, AdminInv, AdminPage, mode
<1>5. UNCHANGED <<views, members, schema, toPage, waiting, page, visit, timeouts, sign, controls, editor>>
  BY DEF A!SaveSetting, A!client
<1> HIDE DEF call
<1>6. AdminPage'
  BY <1>2, <1>3, <1>5 DEF AdminInv, AdminPage, RootFits
<1>7. toClient' \in MoreCalls(toClient, NewCalls(schema, visit, root', controls'))
  BY <1>2, <1>4, <1>5 DEF MoreCalls
<1> QED
  BY <1>3, <1>5, <1>6, <1>7 DEF AskedStep, RootGoesOn, ControlsGoOn

LEMMA SetAdminAsks ==
  ASSUME AdminInv, NEW p \in People, A!SetAdmin(p)
  PROVE  AskedStep
<1> DEFINE what == IF p \in root.view.admins THEN "remove" ELSE "add"
           call == [A!Call("rootSetAdmin", root.selected, what, {p}) EXCEPT !.seq = root.seq]
<1>1. root.view # A!None /\ root.selected \in Communities /\ root.seq \in Nat
  BY ShownIsSelected DEF A!SetAdmin
<1>2. root' = [root EXCEPT !.adminBusy = TRUE] /\ toClient' = Append(toClient, call) /\ asks' \in Nat
  BY DEF A!SetAdmin, A!Asks, AdminInv, AdminPage
<1>3. /\ root' \in RootStates /\ root'.selected = root.selected /\ root'.seq = root.seq /\ root'.view = root.view
      /\ root'.draft = root.draft
  BY <1>2 DEF AdminInv, AdminPage, RootStates
<1>4. call \in NewCalls(schema, visit, root', controls)
  <2>1. what \in Whats /\ {p} \in SUBSET People
    BY DEF Whats
  <2> HIDE DEF what
  <2> QED
    BY <1>1, <1>3, <2>1, NewCall DEF AdminOps, SchemaOps, RootOps, ControlOps, AdminInv, AdminPage
<1>5. UNCHANGED <<views, members, schema, toPage, waiting, page, visit, timeouts, sign, controls, editor>>
  BY DEF A!SetAdmin, A!client
<1> HIDE DEF call
<1>6. AdminPage'
  BY <1>2, <1>3, <1>5 DEF AdminInv, AdminPage, RootFits
<1>7. toClient' \in MoreCalls(toClient, NewCalls(schema, visit, root', controls'))
  BY <1>2, <1>4, <1>5 DEF MoreCalls
<1> QED
  BY <1>3, <1>5, <1>6, <1>7 DEF AskedStep, RootGoesOn, ControlsGoOn

LEMMA ApplyAsks ==
  ASSUME AdminInv, NEW p \in People, NEW role \in A!Role, A!Apply(p, role)
  PROVE  AskedStep
<1> DEFINE call == [A!Call("adminSetRole", controls.scope, role, {p}) EXCEPT !.seq = controls.generation]
<1>1. controls.scope \in Communities /\ controls.generation \in Nat
  BY DEF A!Apply, AdminInv, AdminPage, ControlsFit, ControlsStates, ControlsView
<1>2. controls' = [controls EXCEPT !.busy = TRUE] /\ toClient' = Append(toClient, call) /\ asks' \in Nat
  BY DEF A!Apply, A!Asks, AdminInv, AdminPage
<1>3. /\ controls' \in ControlsStates /\ controls'.scope = controls.scope /\ controls'.view = controls.view
      /\ controls'.generation = controls.generation
  BY <1>2 DEF AdminInv, AdminPage, ControlsStates
<1>4. call \in NewCalls(schema, visit, root, controls')
  <2>1. role \in Whats /\ {p} \in SUBSET People
    BY DEF Whats
  <2> QED
    BY <1>1, <1>3, <2>1, NewCall DEF AdminOps, SchemaOps, RootOps, ControlOps, AdminInv, AdminPage
<1>5. UNCHANGED <<views, members, schema, toPage, waiting, page, visit, timeouts, sign, root, editor>>
  BY DEF A!Apply, A!client
<1> HIDE DEF call
<1>6. AdminPage'
  BY <1>2, <1>3, <1>5 DEF AdminInv, AdminPage, ControlsFit
<1>7. toClient' \in MoreCalls(toClient, NewCalls(schema, visit, root', controls'))
  BY <1>2, <1>4, <1>5 DEF MoreCalls
<1> QED
  BY <1>3, <1>5, <1>6, <1>7 DEF AskedStep, RootGoesOn, ControlsGoOn

LEMMA RetrySchemaAsks ==
  ASSUME AdminInv, A!RetrySchema
  PROVE  AskedStep
<1> DEFINE call == A!Call("adminSchema", Own, "load", {})
<1>1. editor' = [editor EXCEPT !.error = FALSE] /\ toClient' = Append(toClient, call) /\ asks' = asks + 1
  BY DEF A!RetrySchema, A!Asks
<1>2. editor' \in EditorStates(schema) /\ asks' \in Nat
  <2>1. editor \in EditorStates(schema) /\ asks \in Nat
    BY DEF AdminInv, AdminPage
  <2>2. editor' \in EditorStates(schema)
    BY <1>1, <2>1 DEF EditorStates
  <2> QED
    BY <1>1, <2>1, <2>2
<1>3. call \in NewCalls(schema, visit, root, controls)
  BY NewPlainCall DEF AdminInv, AdminPage, Whats
<1>4. UNCHANGED <<views, members, schema, toPage, waiting, page, visit, timeouts, sign, root, controls>>
  BY DEF A!RetrySchema, A!client
<1> HIDE DEF call
<1>5. AdminPage'
  BY <1>2, <1>4 DEF AdminInv, AdminPage
<1>6. toClient' \in MoreCalls(toClient, NewCalls(schema, visit, root', controls'))
  BY <1>1, <1>3, <1>4 DEF MoreCalls
<1> QED
  BY <1>4, <1>5, <1>6 DEF AskedStep, RootGoesOn, ControlsGoOn

LEMMA EditSchemaAsks ==
  ASSUME AdminInv, A!EditSchema
  PROVE  AskedStep
<1> DEFINE s == editor.schema
           e == s[1]
           n == asks + 1
<1>1. editor' = [editor EXCEPT !.schema = [s EXCEPT ![1] = [e EXCEPT !.fields = n]]] /\ asks' = n
  BY DEF A!EditSchema, A!Asks
<1>2. s \in Seq(EditedFields(schema)) /\ s # <<>> /\ n \in Nat /\ editor \in EditorStates(schema)
  BY DEF A!EditSchema, AdminInv, AdminPage, EditorStates
<1>3. e \in EditedFields(schema) /\ 1 \in 1..Len(s)
  <2> HIDE DEF s
  <2> QED
    BY <1>2
<1>4. [e EXCEPT !.fields = n] \in EditedFields(schema)
  <2> HIDE DEF e, n
  <2> QED
    BY <1>2, <1>3 DEF EditedFields, Fields
<1>5. [s EXCEPT ![1] = [e EXCEPT !.fields = n]] \in Seq(EditedFields(schema))
  <2> HIDE DEF s, e, n
  <2> QED
    BY <1>2, <1>3, <1>4, ExceptSeq
<1>6. editor' \in EditorStates(schema)
  <2> DEFINE t == [s EXCEPT ![1] = [e EXCEPT !.fields = n]]
  <2>1. t \in Seq(EditedFields(schema)) /\ editor' = [editor EXCEPT !.schema = t]
    BY <1>1, <1>5
  <2> HIDE DEF t
  <2> QED
    BY <1>2, <2>1 DEF EditorStates
<1>7. UNCHANGED <<views, members, schema, toClient, toPage, waiting, page, visit, timeouts, sign, root, controls>>
  BY DEF A!EditSchema, A!client, A!port
<1>8. AdminPage'
  BY <1>1, <1>2, <1>6, <1>7 DEF AdminInv, AdminPage
<1> QED
  BY <1>7, <1>8 DEF AskedStep, RootGoesOn, ControlsGoOn, MoreCalls

LEMMA SaveSchemaAsks ==
  ASSUME AdminInv, A!SaveSchema
  PROVE  AskedStep
<1> DEFINE call == [A!Call("adminSaveSchema", Own, "", {}) EXCEPT !.draft = editor.schema]
           s == editor.schema
<1>1. s \in Seq(EditedFields(schema)) /\ s # <<>> /\ visit \in Nat
  BY DEF A!SaveSchema, AdminInv, AdminPage, EditorStates
<1>2. call = [op |-> "adminSaveSchema", of |-> Own, what |-> "", who |-> {}, seq |-> 0, draft |-> s,
              visit |-> visit, over |-> FALSE]
  <2> DEFINE none == <<>>
             no == FALSE
             zero == 0
             op == "adminSaveSchema"
             nothing == ""
             nobody == {}
             plain == A!Call("adminSaveSchema", Own, "", {})
  <2>1. plain = [op |-> op, of |-> Own, what |-> nothing, who |-> nobody, seq |-> zero, draft |-> none,
                 visit |-> visit, over |-> no]
    BY DEF A!Call
  <2> HIDE DEF none, no, zero, op, nothing, nobody, plain, s
  <2>2. [plain EXCEPT !.draft = s] =
          [op |-> op, of |-> Own, what |-> nothing, who |-> nobody, seq |-> zero, draft |-> s,
           visit |-> visit, over |-> no]
    BY <2>1
  <2> QED
    BY <2>2 DEF no, zero, op, nothing, nobody, plain, s
<1>3. call \in NewCalls(schema, visit, root, controls)
  <2> HIDE DEF call, s
  <2>1. call \in AdminCall(schema)
    BY <1>1, <1>2, OwnIsCommunity DEF AdminCall, AdminOps, SchemaOps, Whats
  <2>2. /\ call.op = "adminSaveSchema" /\ call.op \notin RootOps \cup ControlOps
        /\ call.draft = s /\ call.visit = visit /\ ~call.over
    BY <1>2 DEF RootOps, ControlOps
  <2> QED
    BY <1>1, <2>1, <2>2 DEF NewCalls, AdminCalls, RootCallFits, ControlCallFits
<1>4. editor' = [editor EXCEPT !.saving = TRUE] /\ toClient' = Append(toClient, call) /\ asks' = asks + 1
  BY DEF A!SaveSchema, A!Asks
<1>5. editor' \in EditorStates(schema) /\ asks' \in Nat
  <2>1. editor \in EditorStates(schema) /\ asks \in Nat
    BY DEF AdminInv, AdminPage
  <2>2. editor' \in EditorStates(schema)
    BY <1>4, <2>1 DEF EditorStates
  <2> HIDE DEF call, s
  <2>3. asks' = asks + 1
    BY <1>4
  <2> QED
    BY <2>1, <2>2, <2>3
<1>6. UNCHANGED <<views, members, schema, toPage, waiting, page, visit, timeouts, sign, root, controls>>
  BY DEF A!SaveSchema, A!client
<1> HIDE DEF call
<1>7. AdminPage'
  BY <1>5, <1>6 DEF AdminInv, AdminPage
<1>8. toClient' \in MoreCalls(toClient, NewCalls(schema, visit, root', controls'))
  BY <1>3, <1>4, <1>6 DEF MoreCalls
<1> QED
  BY <1>6, <1>7, <1>8 DEF AskedStep, RootGoesOn, ControlsGoOn

LEMMA DisconnectAsks ==
  ASSUME AdminInv, A!Disconnect
  PROVE  AskedStep
<1>1. UNCHANGED <<views, members, schema, toClient, toPage, waiting, page, visit, timeouts, sign, root, controls, editor>>
  BY DEF A!Disconnect, A!port, A!state
<1>2. asks' \in Nat
  BY DEF A!Disconnect, A!Asks, AdminInv, AdminPage
<1>3. AdminPage'
  BY <1>1, <1>2 DEF AdminInv, AdminPage
<1> QED
  BY <1>1, <1>3 DEF AskedStep, RootGoesOn, ControlsGoOn, MoreCalls

\* Another page is mounted, and nothing was asked for on it yet.
LEMMA NavigateKeeps ==
  ASSUME AdminInv, NEW p, A!Navigate(p)
  PROVE  AdminInv' /\ visit' = visit + 1 /\ root'.view = A!None /\ controls'.view = A!None
<1>1. /\ visit' = visit + 1 /\ sign' = A!NewSign /\ root' = A!NewRoot /\ controls' = A!NewControls /\ editor' = A!NewEditor
      /\ UNCHANGED <<views, members, schema, toClient, toPage, waiting, asks>>
  BY DEF A!Navigate, A!client, A!port
<1>2. A!NewSign \in [done : BOOLEAN, busy : BOOLEAN] /\ A!NewEditor \in EditorStates(schema)
  BY EmptySeq DEF A!NewSign, A!NewEditor, EditorStates
<1>3. /\ A!NewRoot \in RootStates /\ A!NewRoot.view = A!None /\ A!NewRoot.selected = A!NoCommunity
      /\ A!NewControls \in ControlsStates /\ A!NewControls.view = A!None /\ A!NewControls.scope = A!NoCommunity
  BY DEF A!NewRoot, A!NewControls, RootStates, ControlsStates
<1>4. AdminPage'
  BY <1>1, <1>2, <1>3 DEF AdminInv, AdminPage, RootFits, ControlsFit
<1>5. AdminInv'
  <2>1. GoesOn(visit, root, controls, visit', root', controls')
    BY <1>1 DEF GoesOn
  <2>2. toClient' \in MoreCalls(toClient, NewCalls(schema', visit', root', controls'))
    BY <1>1 DEF MoreCalls
  <2>3. AdminClientType'
    BY <1>1 DEF AdminInv, AdminClientType
  <2> QED
    BY <1>1, <1>4, <2>1, <2>2, <2>3, PortKept DEF AdminInv, AdminPort
<1> QED
  BY <1>1, <1>3, <1>5

\* What the client may do, and what it then tells.
LEMMA PerformKeeps ==
  ASSUME AdminInv, NEW c \in AdminCalls(schema, visit, root, controls), A!Permitted(c), A!Perform(c)
  PROVE  /\ AdminClientType' /\ (schema' = schema \/ schema'.version = schema.version + 1)
         /\ AnswersIt(c, A!Told(c), schema') /\ A!Told(c) \in AdminTold(schema')
<1>1. c \in AdminCall(schema) /\ c.of \in Communities /\ c.op \in AdminOps /\ c.what \in Whats /\ c.who \in SUBSET People
  BY DEF AdminCalls, AdminCall
<1>2. views' \in [Communities -> [setting : A!Modes, admins : SUBSET People]]
  <2>1. views \in [Communities -> [setting : A!Modes, admins : SUBSET People]]
    BY DEF AdminInv, AdminClientType
  <2>2. CASE c.op = "rootSetSetting"
    <3>1. c.what \in A!Modes
      BY <2>2 DEF AdminCalls
    <3>2. views' = [views EXCEPT ![c.of].setting = c.what]
      BY <2>2 DEF A!Perform
    <3> QED
      BY <1>1, <2>1, <3>1, <3>2
  <2>3. CASE c.op = "rootSetAdmin"
    <3> DEFINE admins == IF c.what = "add" THEN views[c.of].admins \cup c.who ELSE views[c.of].admins \ c.who
    <3>1. admins \in SUBSET People
      BY <1>1, <2>1
    <3>2. views' = [views EXCEPT ![c.of].admins = admins]
      BY <2>3 DEF A!Perform
    <3> HIDE DEF admins
    <3> QED
      BY <1>1, <2>1, <3>1, <3>2
  <2>4. CASE c.op \notin {"rootSetSetting", "rootSetAdmin"}
    BY <2>1, <2>4 DEF A!Perform
  <2> QED
    BY <2>2, <2>3, <2>4
<1>3. members' \in [Communities -> [People -> A!Role]]
  <2>1. members \in [Communities -> [People -> A!Role]]
    BY DEF AdminInv, AdminClientType
  <2>2. CASE c.op = "adminSetRole"
    <3> DEFINE new == [p \in People |-> IF p \in c.who THEN c.what ELSE members[c.of][p]]
    <3>1. c.what \in A!Role
      BY <2>2 DEF AdminCalls
    <3>2. new \in [People -> A!Role]
      BY <1>1, <2>1, <3>1
    <3>3. members' = [members EXCEPT ![c.of] = new]
      BY <2>2 DEF A!Perform
    <3> HIDE DEF new
    <3> QED
      BY <1>1, <2>1, <3>2, <3>3
  <2>3. CASE c.op # "adminSetRole"
    BY <2>1, <2>3 DEF A!Perform
  <2> QED
    BY <2>2, <2>3
<1>4. schema \in SchemaStates
  BY DEF AdminInv, AdminClientType
<1>5. schema' \in SchemaStates /\ (schema' = schema \/ schema'.version = schema.version + 1)
  <2>1. CASE c.op = "adminSaveSchema"
    <3> DEFINE next == c.draft[1]
               d == c.draft
    <3>1. d \in Seq(EditedFields(schema)) /\ d # <<>>
      BY <1>1, <2>1 DEF AdminCall, AdminCalls
    <3>2. next \in EditedFields(schema)
      <4> HIDE DEF d
      <4>1. d[1] \in EditedFields(schema)
        BY <3>1
      <4> QED
        BY <4>1 DEF d
    <3>3. schema' = [version |-> schema.version + 1, fields |-> next.fields]
      BY <2>1 DEF A!Perform, A!Saved
    <3> HIDE DEF next
    <3> QED
      BY <1>4, <3>2, <3>3 DEF SchemaStates, EditedFields, Fields
  <2>2. CASE c.op # "adminSaveSchema"
    BY <1>4, <2>2 DEF A!Perform
  <2> QED
    BY <2>1, <2>2
<1>6. c.op \in RootOps => A!Told(c) \in RootView /\ A!Told(c).of = c.of
  <2> SUFFICES ASSUME c.op \in RootOps
               PROVE  A!Told(c) \in RootView /\ A!Told(c).of = c.of
    OBVIOUS
  <2>1. A!Told(c) = [of |-> c.of, setting |-> views'[c.of].setting, admins |-> views'[c.of].admins]
    BY DEF A!Told, RootOps
  <2> QED
    BY <1>1, <1>2, <2>1 DEF RootView
<1>7. c.op \in ControlOps => A!Told(c) \in ControlsView /\ A!Told(c).of = c.of
  <2> SUFFICES ASSUME c.op \in ControlOps
               PROVE  A!Told(c) \in ControlsView /\ A!Told(c).of = c.of
    OBVIOUS
  <2>1. A!Told(c) = [of |-> c.of, members |-> members'[c.of]]
    BY DEF A!Told, ControlOps, RootOps
  <2> QED
    BY <1>1, <1>3, <2>1 DEF ControlsView
<1>8. c.op \notin RootOps \cup ControlOps => A!Told(c) \in EditedFields(schema')
  <2> SUFFICES ASSUME c.op \notin RootOps \cup ControlOps
               PROVE  A!Told(c) \in EditedFields(schema')
    OBVIOUS
  <2>1. A!Told(c) = [version |-> schema'.version, fields |-> schema'.fields, base |-> schema'.fields]
    BY DEF A!Told, ControlOps, RootOps
  <2> QED
    BY <1>5, <2>1 DEF EditedFields, Fields, SchemaStates
<1>9. SchemaOps \cap (RootOps \cup ControlOps) = {}
  BY DEF ControlOps, RootOps, SchemaOps
<1> QED
  BY <1>2, <1>3, <1>5, <1>6, <1>7, <1>8, <1>9 DEF AdminClientType, AnswersIt, AdminTold

LEMMA PermittedIsBoolean ==
  ASSUME NEW c, c.op \in AdminOps \ {"signInRole"}
  PROVE  A!Permitted(c) \in BOOLEAN
<1>1. CASE c.op \in {"rootCommunities", "rootCommunity", "rootSetSetting", "rootSetAdmin"}
  BY <1>1, Zenon DEF A!Permitted
<1>2. CASE c.op = "adminAccess"
  BY <1>2 DEF A!Permitted, A!Access
<1>3. CASE c.op = "adminSetRole"
  BY <1>3 DEF A!Permitted, A!Access
<1>4. CASE c.op = "adminSchema"
  BY <1>4 DEF A!Permitted
<1>5. CASE c.op = "adminSaveSchema"
  BY <1>5 DEF A!Permitted
<1> QED
  BY <1>1, <1>2, <1>3, <1>4, <1>5 DEF AdminOps, SchemaOps, RootOps, ControlOps

LEMMA RunCallKeeps ==
  ASSUME AdminInv, A!RunCall
  PROVE  AdminInv'
<1> DEFINE c == Head(toClient)
           calls == AdminCalls(schema, visit, root, controls)
<1>1. /\ toClient # <<>> /\ toClient' = Tail(toClient)
      /\ UNCHANGED <<page, visit, sign, root, controls, editor, asks>>
  BY DEF A!RunCall, A!state
<1>2. c \in calls /\ Tail(toClient) \in Seq(calls)
  BY <1>1, TailOf DEF AdminInv, AdminPort
<1>3. toClient' \in MoreCalls(Tail(toClient), NewCalls(schema', visit', root', controls'))
  BY <1>1 DEF MoreCalls
<1>4. AdminClientType' /\ (schema' = schema \/ schema'.version = schema.version + 1)
  <2>1. CASE A!Permitted(c) /\ A!Perform(c)
    <3> HIDE DEF c
    <3> QED
      BY <1>2, <2>1, PerformKeeps
  <2>2. CASE UNCHANGED <<views, members, schema>>
    BY <2>2 DEF AdminInv, AdminClientType
  <2> QED
    BY <2>1, <2>2 DEF A!RunCall, A!client
<1>5. GoesOn(visit, root, controls, visit', root', controls')
  BY <1>1 DEF GoesOn
<1>6. AdminPage'
  <2>1. schema \in SchemaStates /\ schema' \in SchemaStates /\ editor \in EditorStates(schema)
    BY <1>4 DEF AdminInv, AdminClientType, AdminPage
  <2>2. Seq(EditedFields(schema)) \subseteq Seq(EditedFields(schema'))
    BY <1>4, <2>1, FieldsGoOnFitting, SeqMonotonic
  <2>3. editor \in EditorStates(schema')
    BY <2>1, <2>2 DEF EditorStates
  <2> QED
    BY <1>1, <2>3 DEF AdminInv, AdminPage
<1>7. AdminReplies(schema, visit, root, controls) \subseteq AdminReplies(schema', visit', root', controls')
  BY <1>4, <1>5, <1>6, CallsGoOnFitting DEF AdminInv, AdminClientType, AdminPage
<1>8. calls \subseteq AdminCalls(schema', visit', root', controls')
  BY <1>4, <1>5, <1>6, CallsGoOnFitting DEF AdminInv, AdminClientType, AdminPage
<1>9. toPage \in Seq(AdminReplies(schema', visit', root', controls'))
  BY <1>7, SeqMonotonic DEF AdminInv, AdminPort
<1>10. CASE c.op = "signInRole"
  <2>1. waiting' = Append(waiting, c) /\ UNCHANGED <<views, members, schema, toPage>>
    BY <1>10 DEF A!RunCall, A!client
  <2>2. c \in SignIns(schema, visit, root, controls)
    BY <1>2, <1>10 DEF SignIns
  <2>3. waiting' \in Seq(SignIns(schema, visit, root, controls))
    <3> HIDE DEF c
    <3> QED
      BY <2>1, <2>2, AppendOf DEF AdminInv, AdminPort
  <2> HIDE DEF c
  <2> QED
    BY <1>2, <1>3, <1>4, <1>5, <1>6, <1>9, <2>1, <2>3, PortKept
<1>11. CASE c.op # "signInRole"
  <2> DEFINE m == A!Reply(c, A!Permitted(c))
  <2>1. /\ waiting' = waiting /\ toPage' = Append(toPage, m)
        /\ A!Permitted(c) => A!Perform(c)
    BY <1>11 DEF A!RunCall
  <2>2. m \in AdminReplies(schema', visit', root', controls')
    <3> DEFINE ok == A!Permitted(c)
               told == IF A!Permitted(c) THEN A!Told(c) ELSE A!None
    <3>1. ok \in BOOLEAN
      <4>1. c.op \in AdminOps \ {"signInRole"}
        BY <1>2, <1>11 DEF AdminCalls, AdminCall
      <4> HIDE DEF c
      <4> QED
        BY <4>1, PermittedIsBoolean
    <3>2. m = [call |-> c, ok |-> ok, told |-> told]
      BY DEF A!Reply
    <3>3. told \in AdminTold(schema') /\ (ok => AnswersIt(c, told, schema'))
      <4> HIDE DEF c
      <4>1. CASE ok
        BY <1>2, <2>1, <4>1, PerformKeeps
      <4>2. CASE ~ok
        BY <4>2 DEF AdminTold
      <4> QED
        BY <4>1, <4>2
    <3> HIDE DEF c, ok, told, m
    <3> QED
      BY <1>2, <1>8, <3>1, <3>2, <3>3 DEF AdminReplies
  <2>3. toPage' \in Seq(AdminReplies(schema', visit', root', controls'))
    <3> HIDE DEF m
    <3> QED
      BY <1>9, <2>1, <2>2, AppendOf
  <2>4. waiting' \in Seq(SignIns(schema, visit, root, controls))
    BY <2>1 DEF AdminInv, AdminPort
  <2> HIDE DEF c
  <2> QED
    BY <1>2, <1>3, <1>4, <1>5, <1>6, <2>3, <2>4, PortKept
<1> QED
  BY <1>10, <1>11

LEMMA PasskeyEndsKeeps ==
  ASSUME AdminInv, NEW ok \in BOOLEAN, A!PasskeyEnds(ok)
  PROVE  AdminInv'
<1> DEFINE rs == A!Replies(ok)
           replies == AdminReplies(schema, visit, root, controls)
<1>1. /\ waiting' = <<>> /\ toPage' = toPage \o rs
      /\ UNCHANGED <<views, members, schema, toClient, page, visit, sign, root, controls, editor, asks>>
  BY DEF A!PasskeyEnds, A!state
<1>2. \A i \in 1..Len(waiting) : [call |-> waiting[i], ok |-> ok, told |-> A!None] \in replies
  <2> SUFFICES ASSUME NEW i \in 1..Len(waiting)
               PROVE  [call |-> waiting[i], ok |-> ok, told |-> A!None] \in replies
    OBVIOUS
  <2> DEFINE c == waiting[i]
  <2>1. c \in SignIns(schema, visit, root, controls)
    BY DEF AdminInv, AdminPort
  <2> HIDE DEF c
  <2>2. c \in AdminCalls(schema, visit, root, controls) /\ c.op = "signInRole"
    BY <2>1 DEF SignIns
  <2>3. AnswersIt(c, A!None, schema)
    BY <2>2 DEF AnswersIt, RootOps, ControlOps, SchemaOps
  <2>4. [call |-> c, ok |-> ok, told |-> A!None] \in replies
    BY <2>2, <2>3 DEF AdminReplies, AdminTold
  <2> QED
    BY <2>4 DEF c
<1>3. rs \in Seq(replies)
  <2>1. DOMAIN waiting = 1..Len(waiting) /\ Len(waiting) \in Nat
    BY DEF AdminInv, AdminPort
  <2> HIDE DEF replies
  <2>2. rs = [i \in 1..Len(waiting) |-> [call |-> waiting[i], ok |-> ok, told |-> A!None]]
    BY <2>1 DEF A!Replies
  <2> HIDE DEF rs
  <2> QED
    BY <1>2, <2>1, <2>2, IsASeq
<1>4. toPage' \in Seq(replies)
  <2> HIDE DEF replies, rs
  <2>1. toPage \in Seq(replies)
    BY DEF AdminInv, AdminPort, replies
  <2> QED
    BY <1>1, <1>3, <2>1, ConcatProperties
<1>5. AdminClientType' /\ AdminPage'
  BY <1>1 DEF AdminInv, AdminClientType, AdminPage
<1>6. toClient' \in MoreCalls(toClient, NewCalls(schema', visit', root', controls'))
  BY <1>1 DEF MoreCalls
<1>7. GoesOn(visit, root, controls, visit', root', controls')
  BY <1>1 DEF GoesOn
<1>8. waiting' \in Seq(SignIns(schema, visit, root, controls)) /\ toClient \in Seq(AdminCalls(schema, visit, root, controls))
  BY <1>1, EmptySeq DEF AdminInv, AdminPort
<1> QED
  BY <1>1, <1>4, <1>5, <1>6, <1>7, <1>8, PortKept

\* An answer is heard, and changes what is shown if it is still awaited.
LEMMA HearReplyKeeps ==
  ASSUME AdminInv, A!HearReply
  PROVE  AdminInv'
<1> DEFINE m == Head(toPage)
<1>1. /\ toPage # <<>> /\ toPage' = Tail(toPage) /\ waiting' = waiting
      /\ UNCHANGED <<views, members, schema, page, visit, asks>>
  BY DEF A!HearReply, A!client
<1>2. m \in AdminReplies(schema, visit, root, controls) /\ Tail(toPage) \in Seq(AdminReplies(schema, visit, root, controls))
  BY <1>1, TailOf DEF AdminInv, AdminPort
<1>3. AdminClientType'
  BY <1>1 DEF AdminInv, AdminClientType
<1>4. CASE m.call.over
  <2>1. UNCHANGED <<toClient, sign, root, controls, editor>>
    BY <1>4 DEF A!HearReply, A!state
  <2>2. AdminPage' /\ GoesOn(visit, root, controls, visit', root', controls')
    BY <1>1, <2>1 DEF AdminInv, AdminPage, GoesOn
  <2>3. toClient' \in MoreCalls(toClient, NewCalls(schema', visit', root', controls'))
    BY <2>1 DEF MoreCalls
  <2> QED
    BY <1>1, <1>2, <1>3, <2>2, <2>3, PortKept DEF AdminInv, AdminPort
<1>5. CASE ~m.call.over
  <2>1. A!Continue(m.call, m.ok, m.told, toClient)
    BY <1>5 DEF A!HearReply
  <2> HIDE DEF m
  <2>2. /\ m.call \in AdminCalls(schema, visit, root, controls) /\ m.ok \in BOOLEAN
        /\ m.ok => AnswersIt(m.call, m.told, schema)
    BY <1>2 DEF AdminReplies
  <2>3. Effect(m.call, m.ok, m.told, toClient)
    BY <1>1, <2>1, <2>2, ContinueKeeps DEF SameForAll, AdminInv
  <2>4. GoesOn(visit, root, controls, visit', root', controls')
    <3>1. RootHeard(m.call, m.ok) => m.told # A!None
      BY <2>2 DEF RootHeard, AnswersIt, RootView, A!None
    <3>2. RootHeard(m.call, m.ok) \in BOOLEAN /\ ControlsHeard(m.call, m.ok) \in BOOLEAN
      BY DEF RootHeard, ControlsHeard
    <3> QED
      BY <1>1, <2>3, <3>1 DEF Effect, GoesOn, RootGoesOn, ControlsGoOn
  <2> QED
    BY <1>1, <1>2, <1>3, <2>3, <2>4, PortKept DEF AdminInv, AdminPort, Effect
<1> QED
  BY <1>4, <1>5

\* A page gives up waiting; nothing was told.
LEMMA GivesUp ==
  ASSUME AdminInv, NEW c \in AdminCalls(schema, visit, root, controls),
         NEW q \in Seq(AdminCalls(schema, visit, root, controls)),
         UNCHANGED <<views, members, schema, toPage, page, visit, asks>>,
         waiting' \in Seq(SignIns(schema, visit, root, controls)),
         A!Continue(c, FALSE, A!None, q)
  PROVE  AdminInv'
<1>1. Effect(c, FALSE, A!None, q)
  BY ContinueKeeps DEF SameForAll, AdminInv
<1>2. GoesOn(visit, root, controls, visit', root', controls')
  BY <1>1 DEF Effect, GoesOn, RootGoesOn, ControlsGoOn, RootHeard, ControlsHeard
<1>3. AdminClientType'
  BY DEF AdminInv, AdminClientType
<1>4. AdminPage' /\ toClient' \in MoreCalls(q, NewCalls(schema', visit', root', controls'))
  BY <1>1 DEF Effect
<1> QED
  BY <1>2, <1>3, <1>4, PortKept DEF AdminInv, AdminPort

LEMMA TimeOutKeeps ==
  ASSUME AdminInv, NEW i \in DOMAIN toClient, A!TimeOut(i)
  PROVE  AdminInv'
<1> DEFINE calls == AdminCalls(schema, visit, root, controls)
           c == toClient[i]
           late == [c EXCEPT !.over = TRUE]
           q == [toClient EXCEPT ![i] = late]
<1>1. i \in 1..Len(toClient) /\ toClient \in Seq(calls) /\ c \in calls
  BY DEF AdminInv, AdminPort
<1>2. late \in calls
  <2> HIDE DEF c
  <2> QED
    BY <1>1, OverCall
<1>3. q \in Seq(calls)
  <2> HIDE DEF late, calls
  <2> QED
    BY <1>1, <1>2, ExceptSeq
<1>4. /\ A!Continue(c, FALSE, A!None, q)
      /\ UNCHANGED <<views, members, schema, toPage, waiting, page, visit, asks>>
  BY DEF A!TimeOut, A!client
<1>5. waiting' \in Seq(SignIns(schema, visit, root, controls))
  BY <1>4 DEF AdminInv, AdminPort
<1> HIDE DEF c, q
<1> QED
  BY <1>1, <1>3, <1>4, <1>5, GivesUp

LEMMA PasskeyTimesOutKeeps ==
  ASSUME AdminInv, NEW i \in DOMAIN waiting, A!PasskeyTimesOut(i)
  PROVE  AdminInv'
<1> DEFINE signIns == SignIns(schema, visit, root, controls)
           c == waiting[i]
           late == [c EXCEPT !.over = TRUE]
           q == [waiting EXCEPT ![i] = late]
<1>1. i \in 1..Len(waiting) /\ waiting \in Seq(signIns) /\ c \in signIns
  BY DEF AdminInv, AdminPort
<1>2. late \in signIns
  <2> HIDE DEF c
  <2>1. c \in AdminCalls(schema, visit, root, controls) /\ c.op = "signInRole"
    BY <1>1 DEF SignIns
  <2>2. late \in AdminCalls(schema, visit, root, controls) /\ late.op = c.op
    BY <2>1, OverCall
  <2> HIDE DEF late
  <2> QED
    BY <2>1, <2>2 DEF SignIns
<1>3. q \in Seq(signIns)
  <2> HIDE DEF late, signIns
  <2> QED
    BY <1>1, <1>2, ExceptSeq
<1>4. /\ A!Continue(c, FALSE, A!None, toClient) /\ waiting' = q
      /\ UNCHANGED <<views, members, schema, toPage, page, visit, asks>>
  BY DEF A!PasskeyTimesOut, A!client
<1>5. toClient \in Seq(AdminCalls(schema, visit, root, controls)) /\ c \in AdminCalls(schema, visit, root, controls)
  BY <1>1 DEF AdminInv, AdminPort, SignIns
<1> HIDE DEF c, q
<1> QED
  BY <1>3, <1>4, <1>5, GivesUp

\* What someone at the pages does is an asking, or a page left.
LEMMA SomeoneAsks ==
  ASSUME AdminInv, A!Someone
  PROVE  AskedStep \/ \E p \in A!Pages : A!Navigate(p)
<1>1. CASE \E c \in Communities : A!SelectCommunity(c)
  BY <1>1, SelectCommunityAsks
<1>2. CASE \E mode \in A!Modes : A!ChooseMode(mode)
  BY <1>2, ChooseModeAsks
<1>3. CASE \E p \in People : A!SetAdmin(p) \/ \E role \in A!Role : A!Apply(p, role)
  BY <1>3, SetAdminAsks, ApplyAsks
<1>4. CASE A!SignIn \/ A!SaveSetting \/ A!RetrySchema \/ A!EditSchema \/ A!SaveSchema \/ A!Disconnect
  BY <1>4, SignInAsks, SaveSettingAsks, RetrySchemaAsks, EditSchemaAsks, SaveSchemaAsks, DisconnectAsks
<1> QED
  BY <1>1, <1>2, <1>3, <1>4 DEF A!Someone

LEMMA AdminInvKept ==
  ASSUME AdminInv, UNCHANGED A!vars
  PROVE  AdminInv'
BY DEF A!vars, A!client, A!port, A!state, AdminInv, AdminClientType, AdminPage, AdminPort

LEMMA AdminInvStep ==
  ASSUME AdminInv, A!Next
  PROVE  AdminInv'
<1>1. CASE A!Someone
  BY <1>1, SomeoneAsks, AskedKeeps, NavigateKeeps
<1>2. CASE A!RunCall
  BY <1>2, RunCallKeeps
<1>3. CASE A!HearReply
  BY <1>3, HearReplyKeeps
<1>4. CASE \E ok \in BOOLEAN : A!PasskeyEnds(ok)
  BY <1>4, PasskeyEndsKeeps
<1>5. CASE \E i \in DOMAIN toClient : A!TimeOut(i)
  BY <1>5, TimeOutKeeps
<1>6. CASE \E i \in DOMAIN waiting : A!PasskeyTimesOut(i)
  BY <1>6, PasskeyTimesOutKeeps
<1> QED
  BY <1>1, <1>2, <1>3, <1>4, <1>5, <1>6 DEF A!Next

LEMMA AdminInvInit ==
  ASSUME A!Init
  PROVE  AdminInv
<1>1. AdminClientType
  BY DEF A!Init, AdminClientType, A!Modes, A!Role, SchemaStates
<1>2. A!NewSign \in [done : BOOLEAN, busy : BOOLEAN] /\ A!NewEditor \in EditorStates(schema)
  BY EmptySeq DEF A!NewSign, A!NewEditor, EditorStates
<1>3. /\ A!NewRoot \in RootStates /\ A!NewRoot.view = A!None
      /\ A!NewControls \in ControlsStates /\ A!NewControls.view = A!None
  BY DEF A!NewRoot, A!NewControls, RootStates, ControlsStates
<1>4. AdminPage
  BY <1>2, <1>3 DEF A!Init, AdminPage, RootFits, ControlsFit
<1>5. AdminPort
  BY EmptySeq DEF A!Init, AdminPort
<1> QED
  BY <1>1, <1>4, <1>5 DEF AdminInv

\* A step of the pages, while they are those of the administration.
LEMMA AdminSteps ==
  ASSUME [Next]_vars, area' = "admin"
  PROVE  area = "admin" /\ (A!Next \/ UNCHANGED A!vars)
BY DEF Next, GroupsStep, ForumStep, AdminStep, ListsStep, vars, adminOnly, savers,
       A!vars, A!client, A!port, A!state

\* What is on the pages of the administration and on its port: no page and no
\* call holds a schema newer than the client's, or one as new that was edited
\* from another.
THEOREM AdminInvHolds == Spec => [](area = "admin" => AdminInv)
<1> DEFINE Inv == area = "admin" => AdminInv
<1>1. Init => Inv
  BY AdminInvInit DEF Init
<1>2. Inv /\ [Next]_vars => Inv'
  <2> SUFFICES ASSUME Inv, [Next]_vars, area' = "admin"
               PROVE  AdminInv'
    OBVIOUS
  <2>1. AdminInv /\ (A!Next \/ UNCHANGED A!vars)
    BY AdminSteps
  <2> QED
    BY <2>1, AdminInvStep, AdminInvKept
<1> QED
  BY <1>1, <1>2, PTL DEF Spec

\* Only a save changes the schema, and it replaces the one it was edited from.
LEMMA SavedIsEdited ==
  ASSUME AdminInv, A!Next, schema' # schema
  PROVE  A!EditedFrom(Head(toClient))
<1>1. A!RunCall
  <2>1. A!Someone => schema' = schema
    BY DEF A!Someone, A!SignIn, A!SaveSetting, A!RetrySchema, A!EditSchema, A!SaveSchema, A!Disconnect, A!SelectCommunity,
           A!ChooseMode, A!SetAdmin, A!Apply, A!Navigate, A!client
  <2>2. /\ A!HearReply => schema' = schema
        /\ \A ok \in BOOLEAN : A!PasskeyEnds(ok) => schema' = schema
        /\ \A i \in DOMAIN toClient : A!TimeOut(i) => schema' = schema
        /\ \A i \in DOMAIN waiting : A!PasskeyTimesOut(i) => schema' = schema
    BY DEF A!HearReply, A!PasskeyEnds, A!TimeOut, A!PasskeyTimesOut, A!client
  <2> QED
    BY <2>1, <2>2 DEF A!Next
<1> DEFINE c == Head(toClient)
           d == c.draft
<1>2. c.op = "adminSaveSchema" /\ A!Permitted(c)
  BY <1>1 DEF A!RunCall, A!Perform, A!client
<1>3. c \in AdminCalls(schema, visit, root, controls)
  BY <1>1, TailOf DEF AdminInv, AdminPort, A!RunCall
<1>4. d[1].version = schema.version
  BY <1>2 DEF A!Permitted
<1>5. d \in Seq(EditedFields(schema)) /\ d # <<>>
  <2> HIDE DEF c
  <2> QED
    BY <1>2, <1>3 DEF AdminCalls, AdminCall
<1>6. d[1] \in EditedFields(schema)
  <2> HIDE DEF d
  <2> QED
    BY <1>5
<1> QED
  BY <1>4, <1>6 DEF EditedFields, A!EditedFrom

\* An admin never undoes a change of the schema that the page had not shown,
\* whatever answers were lost or came late.
THEOREM NoLostUpdateHolds == Spec => NoLostUpdate
<1> DEFINE Inv == area = "admin" => AdminInv
<1>1. Inv /\ [Next]_vars => [area = "admin" /\ schema' # schema => A!EditedFrom(Head(toClient))]_vars
  <2> SUFFICES ASSUME Inv, Next, area = "admin", schema' # schema
               PROVE  A!EditedFrom(Head(toClient))
    OBVIOUS
  <2>1. A!Next
    BY DEF Next, GroupsStep, ForumStep, AdminStep, ListsStep
  <2> QED
    BY <2>1, SavedIsEdited
<1> QED
  BY <1>1, AdminInvHolds, PTL DEF Spec, NoLostUpdate

-----------------------------------------------------------------------------
(* Admin: what is shown once all is heard.                                 *)

\* A call that asks, or an answer that tells, what is shown now.
Counts(c, ops, v, n) == c.op \in ops /\ Current(c, v, n)
Tells(m, ops, v, n) == Counts(m.call, ops, v, n) /\ m.ok

\* What changes what is shown is told in the order it was changed: only calls
\* that count come after one that counts, and the last answer that counts, or
\* else what is shown, is how it is now.
Flow(tc, tp, ops, v, n, view, now) ==
  /\ view # A!None \/ (\E j \in 1..Len(tp) : Counts(tp[j].call, ops, v, n)) =>
       \A i \in 1..Len(tc) : tc[i].op \in ops => Current(tc[i], v, n)
  /\ \A i, j \in 1..Len(tc) : i < j /\ Counts(tc[i], ops, v, n) /\ tc[j].op \in ops => Current(tc[j], v, n)
  /\ \A j \in 1..Len(tp) :
       Tells(tp[j], ops, v, n) /\ (\A k \in 1..Len(tp) : j < k => ~Tells(tp[k], ops, v, n)) => tp[j].told = now
  /\ view # A!None /\ (\A j \in 1..Len(tp) : ~Tells(tp[j], ops, v, n)) => view = now

LEMMA FlowNew ==
  ASSUME NEW tc, NEW tp, NEW ops, NEW v, NEW n, NEW now,
         \A i \in 1..Len(tc) : ~Counts(tc[i], ops, v, n),
         \A j \in 1..Len(tp) : ~Counts(tp[j].call, ops, v, n)
  PROVE  Flow(tc, tp, ops, v, n, A!None, now)
BY DEF Flow, Tells

LEMMA FlowAppends ==
  ASSUME NEW S, NEW tc \in Seq(S), NEW tp, NEW ops, NEW v, NEW n, NEW view, NEW now,
         Flow(tc, tp, ops, v, n, view, now), NEW c \in S, c.op \in ops => Current(c, v, n)
  PROVE  Append(tc, c) \in Seq(S) /\ Flow(Append(tc, c), tp, ops, v, n, view, now)
<1> DEFINE more == Append(tc, c)
<1>1. /\ more \in Seq(S) /\ Len(more) = Len(tc) + 1 /\ Len(tc) \in Nat
      /\ \A i \in 1..Len(tc) : more[i] = tc[i]
      /\ more[Len(tc) + 1] = c
  BY AppendOf
<1> HIDE DEF more
<1>2. \A i \in 1..Len(more) : i \in 1..Len(tc) \/ more[i] = c
  BY <1>1
<1>3. view # A!None \/ (\E j \in 1..Len(tp) : Counts(tp[j].call, ops, v, n)) =>
        \A i \in 1..Len(more) : more[i].op \in ops => Current(more[i], v, n)
  BY <1>1, <1>2 DEF Flow
<1>4. \A i, j \in 1..Len(more) : i < j /\ Counts(more[i], ops, v, n) /\ more[j].op \in ops => Current(more[j], v, n)
  BY <1>1, <1>2 DEF Flow
<1>5. Flow(more, tp, ops, v, n, view, now)
  BY <1>3, <1>4 DEF Flow
<1> QED
  BY <1>1, <1>5 DEF more

\* A page goes on, and asks for more.
LEMMA FlowGoesOn ==
  ASSUME NEW S, NEW tc \in Seq(S), NEW tp, NEW ops, NEW v, NEW n, NEW view, NEW now,
         Flow(tc, tp, ops, v, n, view, now), NEW new \in SUBSET S, \A c \in new : c.op \in ops => Current(c, v, n),
         NEW tc2 \in MoreCalls(tc, new)
  PROVE  Flow(tc2, tp, ops, v, n, view, now)
<1>1. \A c \in new : Append(tc, c) \in Seq(S) /\ Flow(Append(tc, c), tp, ops, v, n, view, now)
  BY FlowAppends
<1>2. ASSUME NEW c \in new, NEW d \in new
      PROVE  Flow(Append(Append(tc, c), d), tp, ops, v, n, view, now)
  <2> DEFINE more == Append(tc, c)
  <2>1. more \in Seq(S) /\ Flow(more, tp, ops, v, n, view, now)
    BY <1>1
  <2> HIDE DEF more
  <2>2. Flow(Append(more, d), tp, ops, v, n, view, now)
    BY <2>1, FlowAppends
  <2> QED
    BY <2>2 DEF more
<1>3. CASE tc2 = tc
  BY <1>3
<1>4. CASE \E c \in new : tc2 = Append(tc, c)
  BY <1>1, <1>4
<1>5. CASE \E c \in new, d \in new : tc2 = Append(Append(tc, c), d)
  BY <1>2, <1>5
<1> QED
  BY <1>3, <1>4, <1>5 DEF MoreCalls

\* The answer is heard, and shown if it tells.
LEMMA FlowHears ==
  ASSUME NEW T, NEW tp \in Seq(T), tp # <<>>, NEW tc, NEW ops, NEW v, NEW n, NEW view, NEW now,
         Flow(tc, tp, ops, v, n, view, now), NEW view2,
         view2 = IF Tells(Head(tp), ops, v, n) THEN Head(tp).told ELSE view
  PROVE  Flow(tc, Tail(tp), ops, v, n, view2, now)
<1> DEFINE rest == Tail(tp)
           m == tp[1]
<1>1. /\ Len(rest) = Len(tp) - 1 /\ Len(tp) \in Nat \ {0}
      /\ \A i \in 1..(Len(tp) - 1) : rest[i] = tp[i + 1]
      /\ Head(tp) = m
  BY TailOf
<1> HIDE DEF rest
<1>2. \A j \in 1..Len(tp) : j = 1 \/ (j - 1 \in 1..Len(rest) /\ tp[j] = rest[j - 1])
  BY <1>1
<1>3. \A j \in 1..Len(rest) : j + 1 \in 1..Len(tp) /\ rest[j] = tp[j + 1]
  BY <1>1
<1>4. view2 # A!None \/ (\E j \in 1..Len(rest) : Counts(rest[j].call, ops, v, n)) =>
        \A i \in 1..Len(tc) : tc[i].op \in ops => Current(tc[i], v, n)
  BY <1>1, <1>3 DEF Flow, Tells
<1>5. ASSUME NEW j \in 1..Len(rest), Tells(rest[j], ops, v, n),
             \A k \in 1..Len(rest) : j < k => ~Tells(rest[k], ops, v, n)
      PROVE  rest[j].told = now
  <2>1. Tells(tp[j + 1], ops, v, n) /\ j + 1 \in 1..Len(tp) /\ rest[j] = tp[j + 1]
    BY <1>3, <1>5
  <2>2. \A k \in 1..Len(tp) : j + 1 < k => ~Tells(tp[k], ops, v, n)
    BY <1>2, <1>5
  <2> QED
    BY <2>1, <2>2 DEF Flow
<1>6. ASSUME view2 # A!None, \A j \in 1..Len(rest) : ~Tells(rest[j], ops, v, n)
      PROVE  view2 = now
  <2>1. \A k \in 1..Len(tp) : 1 < k => ~Tells(tp[k], ops, v, n)
    BY <1>2, <1>6
  <2>2. CASE Tells(m, ops, v, n)
    BY <1>1, <2>1, <2>2 DEF Flow
  <2>3. CASE ~Tells(m, ops, v, n)
    <3>1. \A j \in 1..Len(tp) : ~Tells(tp[j], ops, v, n)
      BY <1>2, <1>6, <2>3
    <3> QED
      BY <1>1, <1>6, <2>3, <3>1 DEF Flow
  <2> QED
    BY <2>2, <2>3
<1> QED
  BY <1>4, <1>5, <1>6 DEF Flow, rest

\* What waits for its passkey is answered later.
LEMMA FlowWaits ==
  ASSUME NEW S, NEW tc \in Seq(S), tc # <<>>, NEW tp, NEW ops, NEW v, NEW n, NEW view, NEW now,
         Flow(tc, tp, ops, v, n, view, now)
  PROVE  Flow(Tail(tc), tp, ops, v, n, view, now)
<1> DEFINE rest == Tail(tc)
<1>1. /\ Len(rest) = Len(tc) - 1 /\ Len(tc) \in Nat \ {0}
      /\ \A i \in 1..(Len(tc) - 1) : rest[i] = tc[i + 1]
  BY TailOf
<1> HIDE DEF rest
<1>2. \A i \in 1..Len(rest) : i + 1 \in 1..Len(tc) /\ rest[i] = tc[i + 1]
  BY <1>1
<1>3. \A i, j \in 1..Len(rest) : i < j /\ Counts(rest[i], ops, v, n) /\ rest[j].op \in ops => Current(rest[j], v, n)
  <2> SUFFICES ASSUME NEW i \in 1..Len(rest), NEW j \in 1..Len(rest), i < j,
                      Counts(rest[i], ops, v, n), rest[j].op \in ops
               PROVE  Current(rest[j], v, n)
    OBVIOUS
  <2>1. i + 1 < j + 1
    OBVIOUS
  <2> QED
    BY <1>2, <2>1 DEF Flow
<1>4. Flow(rest, tp, ops, v, n, view, now)
  BY <1>2, <1>3 DEF Flow
<1> QED
  BY <1>4 DEF rest

\* The call is run, and answered.
LEMMA FlowRuns ==
  ASSUME NEW S, NEW tc \in Seq(S), tc # <<>>, NEW T, NEW tp \in Seq(T), NEW ops, NEW v, NEW n, NEW view, NEW now,
         Flow(tc, tp, ops, v, n, view, now), NEW m \in T, m.call = Head(tc), NEW now2,
         Tells(m, ops, v, n) => m.told = now2,
         ~(m.ok /\ m.call.op \in ops) => now2 = now
  PROVE  Flow(Tail(tc), Append(tp, m), ops, v, n, view, now2)
<1> DEFINE rest == Tail(tc)
           more == Append(tp, m)
           c == tc[1]
<1>1. Flow(rest, tp, ops, v, n, view, now)
  BY FlowWaits
<1>2. /\ Len(rest) = Len(tc) - 1 /\ Len(tc) \in Nat \ {0}
      /\ \A i \in 1..(Len(tc) - 1) : rest[i] = tc[i + 1]
      /\ Head(tc) = c /\ 1 \in 1..Len(tc)
  BY TailOf
<1>3. /\ Len(more) = Len(tp) + 1 /\ Len(tp) \in Nat
      /\ \A j \in 1..Len(tp) : more[j] = tp[j]
      /\ more[Len(tp) + 1] = m
  BY AppendOf
<1> HIDE DEF rest, more
<1>4. /\ \A i \in 1..Len(rest) : i + 1 \in 1..Len(tc) /\ rest[i] = tc[i + 1] /\ 1 < i + 1
      /\ \A j \in 1..Len(more) : (j \in 1..Len(tp) /\ more[j] = tp[j]) \/ (j = Len(tp) + 1 /\ more[j] = m)
  BY <1>2, <1>3
<1>5. Counts(c, ops, v, n) => \A i \in 1..Len(rest) : rest[i].op \in ops => Current(rest[i], v, n)
  BY <1>2, <1>4 DEF Flow
<1>6. view # A!None \/ (\E j \in 1..Len(more) : Counts(more[j].call, ops, v, n)) =>
        \A i \in 1..Len(rest) : rest[i].op \in ops => Current(rest[i], v, n)
  BY <1>1, <1>2, <1>4, <1>5 DEF Flow
<1>7. c.op \in ops /\ ~Current(c, v, n) =>
        view = A!None /\ \A j \in 1..Len(tp) : ~Counts(tp[j].call, ops, v, n)
  BY <1>2 DEF Flow
<1>8. ASSUME NEW j \in 1..Len(more), Tells(more[j], ops, v, n),
             \A k \in 1..Len(more) : j < k => ~Tells(more[k], ops, v, n)
      PROVE  more[j].told = now2
  <2>1. CASE more[j] = m
    BY <1>8, <2>1
  <2>2. CASE j \in 1..Len(tp) /\ more[j] = tp[j]
    <3>1. Len(tp) + 1 \in 1..Len(more) /\ j < Len(tp) + 1
      BY <1>3, <2>2
    <3>2. ~Tells(m, ops, v, n)
      BY <1>3, <1>8, <3>1
    <3>3. Counts(tp[j].call, ops, v, n)
      BY <1>8, <2>2 DEF Tells
    <3>4. ~(c.op \in ops /\ ~Current(c, v, n))
      BY <1>7, <2>2, <3>3
    <3>5. now2 = now
      BY <1>2, <3>2, <3>4 DEF Tells, Counts
    <3>6. \A k \in 1..Len(tp) : j < k => ~Tells(tp[k], ops, v, n)
      BY <1>3, <1>8
    <3> QED
      BY <1>8, <2>2, <3>5, <3>6 DEF Flow
  <2> QED
    BY <1>4, <2>1, <2>2
<1>9. ASSUME view # A!None, \A j \in 1..Len(more) : ~Tells(more[j], ops, v, n)
      PROVE  view = now2
  <2>1. ~Tells(m, ops, v, n) /\ \A j \in 1..Len(tp) : ~Tells(tp[j], ops, v, n)
    BY <1>3, <1>9
  <2>2. now2 = now
    BY <1>2, <1>7, <1>9, <2>1 DEF Tells, Counts
  <2> QED
    BY <1>9, <2>1, <2>2 DEF Flow
<1>10. Flow(rest, more, ops, v, n, view, now2)
  BY <1>1, <1>6, <1>8, <1>9 DEF Flow
<1> QED
  BY <1>10 DEF rest, more

\* Answers that do not count are left out.
LEMMA FlowAnsweredOthers ==
  ASSUME NEW T, NEW tp \in Seq(T), NEW more \in Seq(T), NEW tc, NEW ops, NEW v, NEW n, NEW view, NEW now,
         Flow(tc, tp, ops, v, n, view, now),
         \A i \in 1..Len(more) : more[i].call.op \notin ops
  PROVE  Flow(tc, tp \o more, ops, v, n, view, now)
<1> DEFINE all == tp \o more
<1>1. /\ Len(all) = Len(tp) + Len(more) /\ Len(tp) \in Nat /\ Len(more) \in Nat
      /\ \A i \in 1..Len(all) : all[i] = IF i <= Len(tp) THEN tp[i] ELSE more[i - Len(tp)]
  BY ConcatProperties, LenProperties
<1> HIDE DEF all
<1>2. /\ \A j \in 1..Len(tp) : j \in 1..Len(all) /\ all[j] = tp[j]
      /\ \A j \in 1..Len(all) : Counts(all[j].call, ops, v, n) => j \in 1..Len(tp) /\ all[j] = tp[j]
  <2>1. \A j \in 1..Len(all) : j \in 1..Len(tp) \/ (j - Len(tp) \in 1..Len(more) /\ all[j] = more[j - Len(tp)])
    BY <1>1
  <2> QED
    BY <1>1, <2>1 DEF Counts
<1>3. \A j \in 1..Len(all) : Tells(all[j], ops, v, n) => j \in 1..Len(tp) /\ all[j] = tp[j]
  BY <1>2 DEF Tells
<1> QED
  BY <1>2, <1>3 DEF Flow, all

-----------------------------------------------------------------------------

RootNow ==
  [of |-> root.selected, setting |-> views[root.selected].setting, admins |-> views[root.selected].admins]
ControlsNow == [of |-> controls.scope, members |-> members[controls.scope]]

RootFlow == Flow(toClient, toPage, RootOps, visit, root.seq, root.view, RootNow)
ControlsFlow == Flow(toClient, toPage, ControlOps, visit, controls.generation, controls.view, ControlsNow)

NoneOver ==
  /\ \A i \in 1..Len(toClient) : ~toClient[i].over
  /\ \A i \in 1..Len(waiting) : ~waiting[i].over
  /\ \A i \in 1..Len(toPage) : ~toPage[i].call.over

\* As long as nothing timed out.
AdminFlow == timeouts \in Nat /\ (timeouts = 0 => NoneOver /\ RootFlow /\ ControlsFlow)

\* The numbers of what is selected are new when it is another.
LEMMA NoneCountsYet ==
  ASSUME AdminInv, NEW v, NEW n,
         v = visit + 1 \/ (v = visit /\ n = root.seq + 1)
  PROVE  /\ \A i \in 1..Len(toClient) : ~Counts(toClient[i], RootOps, v, n)
         /\ \A j \in 1..Len(toPage) : ~Counts(toPage[j].call, RootOps, v, n)
<1>1. ASSUME NEW c \in AdminCalls(schema, visit, root, controls), Counts(c, RootOps, v, n)
      PROVE  FALSE
  <2>1. c.visit \in Nat /\ c.seq \in Nat /\ visit \in Nat /\ root.seq \in Nat
    BY DEF AdminCalls, AdminCall, AdminInv, AdminPage, RootStates
  <2>2. c.visit <= visit /\ (c.visit = visit => c.seq <= root.seq)
    BY <1>1 DEF Counts, AdminCalls, RootCallFits
  <2> QED
    BY <1>1, <2>1, <2>2 DEF Counts, Current
<1>2. \A i \in 1..Len(toClient) : toClient[i] \in AdminCalls(schema, visit, root, controls)
  BY DEF AdminInv, AdminPort
<1>3. \A j \in 1..Len(toPage) : toPage[j].call \in AdminCalls(schema, visit, root, controls)
  <2>1. \A j \in 1..Len(toPage) : toPage[j] \in AdminReplies(schema, visit, root, controls)
    BY DEF AdminInv, AdminPort
  <2> QED
    BY <2>1 DEF AdminReplies
<1> QED
  BY <1>1, <1>2, <1>3

LEMMA NoControlsCountYet ==
  ASSUME AdminInv, NEW v, NEW n,
         v = visit + 1 \/ (v = visit /\ n = controls.generation + 1)
  PROVE  /\ \A i \in 1..Len(toClient) : ~Counts(toClient[i], ControlOps, v, n)
         /\ \A j \in 1..Len(toPage) : ~Counts(toPage[j].call, ControlOps, v, n)
<1>1. ASSUME NEW c \in AdminCalls(schema, visit, root, controls), Counts(c, ControlOps, v, n)
      PROVE  FALSE
  <2>1. c.visit \in Nat /\ c.seq \in Nat /\ visit \in Nat /\ controls.generation \in Nat
    BY DEF AdminCalls, AdminCall, AdminInv, AdminPage, ControlsStates
  <2>2. c.visit <= visit /\ (c.visit = visit => c.seq <= controls.generation)
    BY <1>1 DEF Counts, AdminCalls, ControlCallFits
  <2> QED
    BY <1>1, <2>1, <2>2 DEF Counts, Current
<1>2. \A i \in 1..Len(toClient) : toClient[i] \in AdminCalls(schema, visit, root, controls)
  BY DEF AdminInv, AdminPort
<1>3. \A j \in 1..Len(toPage) : toPage[j].call \in AdminCalls(schema, visit, root, controls)
  <2>1. \A j \in 1..Len(toPage) : toPage[j] \in AdminReplies(schema, visit, root, controls)
    BY DEF AdminInv, AdminPort
  <2> QED
    BY <2>1 DEF AdminReplies
<1> QED
  BY <1>1, <1>2, <1>3

LEMMA MoreCallsNotOver ==
  ASSUME NEW S, NEW q \in Seq(S), \A i \in 1..Len(q) : ~q[i].over,
         NEW new \in SUBSET S, \A c \in new : ~c.over, NEW q2 \in MoreCalls(q, new)
  PROVE  \A i \in 1..Len(q2) : ~q2[i].over
<1>1. ASSUME NEW p \in Seq(S), \A i \in 1..Len(p) : ~p[i].over, NEW c \in new
      PROVE  Append(p, c) \in Seq(S) /\ \A i \in 1..Len(Append(p, c)) : ~Append(p, c)[i].over
  BY <1>1, AppendOf
<1>2. CASE q2 = q
  BY <1>2
<1>3. CASE \E c \in new : q2 = Append(q, c)
  BY <1>1, <1>3
<1>4. CASE \E c \in new, d \in new : q2 = Append(Append(q, c), d)
  <2> PICK c \in new, d \in new : q2 = Append(Append(q, c), d)
    BY <1>4
  <2> DEFINE p == Append(q, c)
  <2>1. p \in Seq(S) /\ \A i \in 1..Len(p) : ~p[i].over
    BY <1>1
  <2>2. q2 = Append(p, d)
    OBVIOUS
  <2> HIDE DEF p
  <2> QED
    BY <1>1, <2>1, <2>2
<1> QED
  BY <1>2, <1>3, <1>4 DEF MoreCalls

\* The page goes on, with what it was shown or another selection.
LEMMA RootFlowGoesOn ==
  ASSUME AdminInv, visit' = visit, views' = views, NEW view, NEW tp,
         \A j \in 1..Len(tp) : ~Counts(tp[j].call, RootOps, visit, root.seq + 1),
         Flow(toClient, tp, RootOps, visit, root.seq, view, RootNow),
         \/ root'.seq = root.seq /\ root'.selected = root.selected /\ root'.view = view
         \/ root'.seq = root.seq + 1 /\ root'.view = A!None,
         toClient' \in MoreCalls(toClient, NewCalls(schema, visit, root', controls')),
         NewCalls(schema, visit, root', controls') \in SUBSET AdminCalls(schema, visit, root', controls'),
         toClient \in Seq(AdminCalls(schema, visit, root', controls')), toPage' = tp
  PROVE  RootFlow'
<1> DEFINE new == NewCalls(schema, visit, root', controls')
           S == AdminCalls(schema, visit, root', controls')
           n == root'.seq
           w == root'.view
           now == RootNow'
           tc2 == toClient'
<1>1. \A c \in new : c.op \in RootOps => Current(c, visit, n)
  BY DEF NewCalls
<1>2. Flow(toClient, tp, RootOps, visit, n, w, now)
  <2>1. CASE root'.seq = root.seq /\ root'.selected = root.selected /\ root'.view = view
    <3>1. now = RootNow
      BY <2>1 DEF RootNow
    <3> QED
      BY <2>1, <3>1
  <2>2. CASE root'.seq = root.seq + 1 /\ root'.view = A!None
    <3>1. \A i \in 1..Len(toClient) : ~Counts(toClient[i], RootOps, visit, n)
      BY <2>2, NoneCountsYet
    <3> QED
      BY <2>2, <3>1, FlowNew
  <2> QED
    BY <2>1, <2>2
<1> HIDE DEF new, S, n, w, now, tc2
<1>3. tc2 \in MoreCalls(toClient, new) /\ new \in SUBSET S /\ toClient \in Seq(S)
  BY DEF tc2, new, S
<1>4. Flow(tc2, tp, RootOps, visit, n, w, now)
  BY <1>1, <1>2, <1>3, FlowGoesOn
<1> QED
  BY <1>4 DEF RootFlow, tc2, n, w, now
LEMMA ControlsFlowGoesOn ==
  ASSUME AdminInv, visit' = visit, members' = members, NEW view, NEW tp,
         \A j \in 1..Len(tp) : ~Counts(tp[j].call, ControlOps, visit, controls.generation + 1),
         Flow(toClient, tp, ControlOps, visit, controls.generation, view, ControlsNow),
         \/ controls'.generation = controls.generation /\ controls'.scope = controls.scope /\ controls'.view = view
         \/ controls'.generation = controls.generation + 1 /\ controls'.view = A!None,
         toClient' \in MoreCalls(toClient, NewCalls(schema, visit, root', controls')),
         NewCalls(schema, visit, root', controls') \in SUBSET AdminCalls(schema, visit, root', controls'),
         toClient \in Seq(AdminCalls(schema, visit, root', controls')), toPage' = tp
  PROVE  ControlsFlow'
<1> DEFINE new == NewCalls(schema, visit, root', controls')
           S == AdminCalls(schema, visit, root', controls')
           n == controls'.generation
           w == controls'.view
           now == ControlsNow'
           tc2 == toClient'
<1>1. \A c \in new : c.op \in ControlOps => Current(c, visit, n)
  BY DEF NewCalls
<1>2. Flow(toClient, tp, ControlOps, visit, n, w, now)
  <2>1. CASE controls'.generation = controls.generation /\ controls'.scope = controls.scope /\ controls'.view = view
    <3>1. now = ControlsNow
      BY <2>1 DEF ControlsNow
    <3> QED
      BY <2>1, <3>1
  <2>2. CASE controls'.generation = controls.generation + 1 /\ controls'.view = A!None
    <3>1. \A i \in 1..Len(toClient) : ~Counts(toClient[i], ControlOps, visit, n)
      BY <2>2, NoControlsCountYet
    <3> QED
      BY <2>2, <3>1, FlowNew
  <2> QED
    BY <2>1, <2>2
<1> HIDE DEF new, S, n, w, now, tc2
<1>3. tc2 \in MoreCalls(toClient, new) /\ new \in SUBSET S /\ toClient \in Seq(S)
  BY DEF tc2, new, S
<1>4. Flow(tc2, tp, ControlOps, visit, n, w, now)
  BY <1>1, <1>2, <1>3, FlowGoesOn
<1> QED
  BY <1>4 DEF ControlsFlow, tc2, n, w, now

LEMMA AdminCallsKept ==
  ASSUME AdminInv, AdminInv', schema' = schema, GoesOn(visit, root, controls, visit', root', controls')
  PROVE  /\ toClient \in Seq(AdminCalls(schema, visit', root', controls'))
         /\ NewCalls(schema, visit', root', controls') \in SUBSET AdminCalls(schema, visit', root', controls')
<1>1. AdminCalls(schema, visit, root, controls) \subseteq AdminCalls(schema, visit', root', controls')
  BY CallsGoOnFitting DEF AdminInv, AdminClientType, AdminPage
<1> QED
  BY <1>1, SeqMonotonic DEF AdminInv, AdminPort, NewCalls

LEMMA AskedFlows ==
  ASSUME AdminInv, AdminFlow, AskedStep
  PROVE  AdminFlow'
<1>1. AdminInv'
  BY AskedKeeps
<1>2. /\ views' = views /\ members' = members /\ schema' = schema /\ toPage' = toPage /\ waiting' = waiting
      /\ visit' = visit /\ timeouts' = timeouts
      /\ RootGoesOn(root, root', FALSE, A!None) /\ ControlsGoOn(controls, controls', FALSE, A!None)
      /\ toClient' \in MoreCalls(toClient, NewCalls(schema, visit, root', controls'))
  BY DEF AskedStep
<1>3. GoesOn(visit, root, controls, visit', root', controls')
  BY <1>2, GoesOnIfShown
<1>4. /\ toClient \in Seq(AdminCalls(schema, visit, root', controls'))
      /\ NewCalls(schema, visit, root', controls') \in SUBSET AdminCalls(schema, visit, root', controls')
  BY <1>1, <1>2, <1>3, AdminCallsKept
<1> SUFFICES ASSUME timeouts = 0
             PROVE  NoneOver' /\ RootFlow' /\ ControlsFlow'
  BY <1>2 DEF AdminFlow
<1>5. NoneOver /\ RootFlow /\ ControlsFlow
  BY DEF AdminFlow
<1>6. NoneOver'
  <2> DEFINE S == AdminCalls(schema, visit, root', controls')
             new == NewCalls(schema, visit, root', controls')
             tc2 == toClient'
  <2>1. \A c \in new : ~c.over
    BY DEF NewCalls
  <2>2. toClient \in Seq(S) /\ new \in SUBSET S /\ tc2 \in MoreCalls(toClient, new)
    BY <1>2, <1>4
  <2> HIDE DEF S, new, tc2
  <2>3. \A i \in 1..Len(tc2) : ~tc2[i].over
    BY <1>5, <2>1, <2>2, MoreCallsNotOver DEF NoneOver
  <2> QED
    BY <1>2, <1>5, <2>3 DEF NoneOver, tc2
<1>7. RootFlow'
  <2>1. \A j \in 1..Len(toPage) : ~Counts(toPage[j].call, RootOps, visit, root.seq + 1)
    BY NoneCountsYet
  <2>2. \/ root'.seq = root.seq /\ root'.selected = root.selected /\ root'.view = root.view
        \/ root'.seq = root.seq + 1 /\ root'.view = A!None
    BY <1>2 DEF RootGoesOn
  <2> QED
    BY <1>2, <1>4, <1>5, <2>1, <2>2, RootFlowGoesOn DEF RootFlow
<1>8. ControlsFlow'
  <2>1. \A j \in 1..Len(toPage) : ~Counts(toPage[j].call, ControlOps, visit, controls.generation + 1)
    BY NoControlsCountYet
  <2>2. \/ controls'.generation = controls.generation /\ controls'.scope = controls.scope
           /\ controls'.view = controls.view
        \/ controls'.generation = controls.generation + 1 /\ controls'.view = A!None
    BY <1>2 DEF ControlsGoOn
  <2> QED
    BY <1>2, <1>4, <1>5, <2>1, <2>2, ControlsFlowGoesOn DEF ControlsFlow
<1> QED
  BY <1>6, <1>7, <1>8

LEMMA NavigateFlows ==
  ASSUME AdminInv, AdminFlow, NEW p, A!Navigate(p)
  PROVE  AdminFlow'
<1>1. visit' = visit + 1 /\ root'.view = A!None /\ controls'.view = A!None
  BY NavigateKeeps
<1>2. UNCHANGED <<toClient, toPage, waiting, timeouts>>
  BY DEF A!Navigate, A!port
<1>3. RootFlow'
  <2> DEFINE v == visit'
             n == root'.seq
             w == root'.view
             now == RootNow'
  <2>1. v = visit + 1 /\ w = A!None
    BY <1>1
  <2> HIDE DEF v, n, w, now
  <2>2. Flow(toClient, toPage, RootOps, v, n, w, now)
    BY <2>1, NoneCountsYet, FlowNew
  <2> QED
    BY <1>2, <2>2 DEF RootFlow, v, n, w, now
<1>4. ControlsFlow'
  <2> DEFINE v == visit'
             n == controls'.generation
             w == controls'.view
             now == ControlsNow'
  <2>1. v = visit + 1 /\ w = A!None
    BY <1>1
  <2> HIDE DEF v, n, w, now
  <2>2. Flow(toClient, toPage, ControlOps, v, n, w, now)
    BY <2>1, NoControlsCountYet, FlowNew
  <2> QED
    BY <1>2, <2>2 DEF ControlsFlow, v, n, w, now
<1> QED
  BY <1>2, <1>3, <1>4 DEF AdminFlow, NoneOver

LEMMA PasskeyEndsFlows ==
  ASSUME AdminInv, AdminFlow, NEW ok \in BOOLEAN, A!PasskeyEnds(ok)
  PROVE  AdminFlow'
<1> DEFINE rs == A!Replies(ok)
           T == [call : SignIns(schema, visit, root, controls), ok : BOOLEAN, told : {A!None}]
<1>1. /\ waiting' = <<>> /\ toPage' = toPage \o rs
      /\ UNCHANGED <<views, members, toClient, visit, root, controls, timeouts>>
  BY DEF A!PasskeyEnds, A!state
<1>2. /\ waiting \in Seq(SignIns(schema, visit, root, controls))
      /\ DOMAIN waiting = 1..Len(waiting) /\ Len(waiting) \in Nat
      /\ \A i \in 1..Len(waiting) : waiting[i] \in SignIns(schema, visit, root, controls)
  BY DEF AdminInv, AdminPort
<1>3. rs = [i \in 1..Len(waiting) |-> [call |-> waiting[i], ok |-> ok, told |-> A!None]]
  BY <1>2 DEF A!Replies
<1>4. rs \in Seq(T) /\ Len(rs) = Len(waiting) /\ \A i \in 1..Len(rs) : rs[i].call = waiting[i]
  <2> HIDE DEF rs
  <2>1. \A i \in 1..Len(waiting) : [call |-> waiting[i], ok |-> ok, told |-> A!None] \in T
    BY <1>2
  <2> HIDE DEF T
  <2>2. rs \in Seq(T) /\ Len(rs) = Len(waiting)
    BY <1>2, <1>3, <2>1, IsASeq, LenProperties
  <2> QED
    BY <1>3, <2>2
<1>5. \A i \in 1..Len(rs) : rs[i].call.op = "signInRole"
  BY <1>2, <1>4 DEF SignIns
<1> DEFINE U == T \cup AdminReplies(schema, visit, root, controls)
<1>6. toPage \in Seq(U) /\ rs \in Seq(U)
  <2>1. toPage \in Seq(AdminReplies(schema, visit, root, controls))
    BY DEF AdminInv, AdminPort
  <2> HIDE DEF T, rs
  <2> QED
    BY <1>4, <2>1, SeqMonotonic
<1> HIDE DEF rs, U, T
<1> SUFFICES ASSUME timeouts = 0
             PROVE  NoneOver' /\ RootFlow' /\ ControlsFlow'
  BY <1>1 DEF AdminFlow
<1>7. NoneOver /\ RootFlow /\ ControlsFlow
  BY DEF AdminFlow
<1>8. \A i \in 1..Len(rs) : rs[i].call.op \notin RootOps /\ rs[i].call.op \notin ControlOps /\ ~rs[i].call.over
  BY <1>4, <1>5, <1>7 DEF RootOps, ControlOps, NoneOver
<1>9. NoneOver'
  <2> DEFINE all == toPage \o rs
  <2>1. /\ Len(all) = Len(toPage) + Len(rs) /\ Len(toPage) \in Nat /\ Len(rs) \in Nat
        /\ \A i \in 1..Len(all) : all[i] = IF i <= Len(toPage) THEN toPage[i] ELSE rs[i - Len(toPage)]
    BY <1>6, ConcatProperties, LenProperties
  <2> HIDE DEF all
  <2>2. \A i \in 1..Len(all) : i \in 1..Len(toPage) \/ (i - Len(toPage) \in 1..Len(rs) /\ all[i] = rs[i - Len(toPage)])
    BY <2>1
  <2>3. \A i \in 1..Len(all) : ~all[i].call.over
    BY <1>7, <1>8, <2>1, <2>2 DEF NoneOver
  <2>4. waiting' = <<>> /\ toClient' = toClient /\ toPage' = all
    BY <1>1 DEF all
  <2> QED
    BY <1>7, <2>3, <2>4 DEF NoneOver
<1>10. RootFlow'
  <2>1. Flow(toClient, toPage \o rs, RootOps, visit, root.seq, root.view, RootNow)
    BY <1>6, <1>7, <1>8, FlowAnsweredOthers DEF RootFlow
  <2>2. RootNow' = RootNow
    BY <1>1 DEF RootNow
  <2> QED
    BY <1>1, <2>1, <2>2 DEF RootFlow
<1>11. ControlsFlow'
  <2>1. Flow(toClient, toPage \o rs, ControlOps, visit, controls.generation, controls.view, ControlsNow)
    BY <1>6, <1>7, <1>8, FlowAnsweredOthers DEF ControlsFlow
  <2>2. ControlsNow' = ControlsNow
    BY <1>1 DEF ControlsNow
  <2> QED
    BY <1>1, <2>1, <2>2 DEF ControlsFlow
<1> QED
  BY <1>9, <1>10, <1>11

LEMMA RunCallFlows ==
  ASSUME AdminInv, AdminFlow, A!RunCall
  PROVE  AdminFlow'
<1> DEFINE c == Head(toClient)
           calls == AdminCalls(schema, visit, root, controls)
           rest == Tail(toClient)
<1>1. /\ toClient # <<>> /\ toClient' = rest
      /\ UNCHANGED <<visit, root, controls, timeouts>>
  BY DEF A!RunCall, A!state
<1>2. /\ toClient \in Seq(calls) /\ c \in calls /\ c = toClient[1] /\ 1 \in 1..Len(toClient)
      /\ Len(rest) = Len(toClient) - 1 /\ Len(toClient) \in Nat
      /\ \A i \in 1..(Len(toClient) - 1) : i + 1 \in 1..Len(toClient) /\ rest[i] = toClient[i + 1]
  BY <1>1, TailOf DEF AdminInv, AdminPort
<1> SUFFICES ASSUME timeouts = 0
             PROVE  NoneOver' /\ RootFlow' /\ ControlsFlow'
  BY <1>1 DEF AdminFlow
<1>3. NoneOver /\ RootFlow /\ ControlsFlow
  BY DEF AdminFlow
<1>4. ~c.over /\ \A i \in 1..Len(rest) : ~rest[i].over
  <2> HIDE DEF c, rest
  <2> QED
    BY <1>2, <1>3 DEF NoneOver
<1>5. CASE c.op = "signInRole"
  <2>1. waiting' = Append(waiting, c) /\ UNCHANGED <<views, members, toPage>>
    BY <1>5 DEF A!RunCall, A!client
  <2>2. NoneOver'
    <3> DEFINE more == Append(waiting, c)
    <3>1. c \in SignIns(schema, visit, root, controls)
      BY <1>2, <1>5 DEF SignIns
    <3>2. /\ Len(more) = Len(waiting) + 1 /\ Len(waiting) \in Nat
          /\ \A i \in 1..Len(waiting) : more[i] = waiting[i]
          /\ more[Len(waiting) + 1] = c
      <4> HIDE DEF c
      <4> QED
        BY <3>1, AppendOf DEF AdminInv, AdminPort
    <3>3. waiting' = more
      BY <2>1
    <3> HIDE DEF more, c
    <3>4. \A i \in 1..Len(more) : i \in 1..Len(waiting) \/ more[i] = c
      BY <3>2
    <3>5. \A i \in 1..Len(more) : ~more[i].over
      BY <1>3, <1>4, <3>2, <3>4 DEF NoneOver
    <3> HIDE DEF rest
    <3> QED
      BY <1>1, <1>3, <1>4, <2>1, <3>3, <3>5 DEF NoneOver
  <2>3. RootNow' = RootNow /\ ControlsNow' = ControlsNow
    BY <1>1, <2>1 DEF RootNow, ControlsNow
  <2>4. /\ Flow(rest, toPage, RootOps, visit, root.seq, root.view, RootNow)
        /\ Flow(rest, toPage, ControlOps, visit, controls.generation, controls.view, ControlsNow)
    BY <1>1, <1>2, <1>3, FlowWaits DEF RootFlow, ControlsFlow
  <2> HIDE DEF rest
  <2> QED
    BY <1>1, <2>1, <2>2, <2>3, <2>4 DEF RootFlow, ControlsFlow
<1>6. CASE c.op # "signInRole"
  <2> DEFINE m == A!Reply(c, A!Permitted(c))
             ok == A!Permitted(c)
             replies == AdminReplies(schema, visit, root, controls) \cup {m}
             more == Append(toPage, m)
  <2>1. /\ waiting' = waiting /\ toPage' = more
        /\ ok => A!Perform(c)
        /\ ~ok => views' = views /\ members' = members
    BY <1>6 DEF A!RunCall
  <2>2. m.call = c /\ m.ok = ok /\ (ok => m.told = A!Told(c))
    BY DEF A!Reply
  <2>3. toPage \in Seq(replies) /\ m \in replies
    <3>1. toPage \in Seq(AdminReplies(schema, visit, root, controls))
      BY DEF AdminInv, AdminPort
    <3> HIDE DEF m
    <3> QED
      BY <3>1, SeqMonotonic
  <2>4. /\ c.op \in RootOps /\ Current(c, visit, root.seq) => c.of = root.selected
        /\ c.op \in ControlOps /\ Current(c, visit, controls.generation) => c.of = controls.scope
    <3> HIDE DEF c
    <3> QED
      BY <1>2 DEF AdminCalls, RootCallFits, ControlCallFits, Current
  <2>5. /\ Tells(m, RootOps, visit, root.seq) => m.told = RootNow'
        /\ ~(m.ok /\ m.call.op \in RootOps) => RootNow' = RootNow
    <3>1. ASSUME Tells(m, RootOps, visit, root.seq)
          PROVE  m.told = RootNow'
      <4>1. c.op \in RootOps /\ c.of = root.selected /\ m.told = A!Told(c)
        BY <2>2, <2>4, <3>1 DEF Tells, Counts
      <4> HIDE DEF c, m
      <4> QED
        BY <1>1, <4>1 DEF A!Told, RootNow, RootOps
    <3>2. ~(m.ok /\ m.call.op \in RootOps) => views' = views
      <4> HIDE DEF c, m
      <4> QED
        BY <2>1, <2>2 DEF A!Perform, RootOps
    <3> QED
      BY <1>1, <3>1, <3>2 DEF RootNow
  <2>6. /\ Tells(m, ControlOps, visit, controls.generation) => m.told = ControlsNow'
        /\ ~(m.ok /\ m.call.op \in ControlOps) => ControlsNow' = ControlsNow
    <3>1. ASSUME Tells(m, ControlOps, visit, controls.generation)
          PROVE  m.told = ControlsNow'
      <4>1. c.op \in ControlOps /\ c.of = controls.scope /\ m.told = A!Told(c)
        BY <2>2, <2>4, <3>1 DEF Tells, Counts
      <4> HIDE DEF c, m
      <4> QED
        BY <1>1, <4>1 DEF A!Told, ControlsNow, ControlOps
    <3>2. ~(m.ok /\ m.call.op \in ControlOps) => members' = members
      <4> HIDE DEF c, m
      <4> QED
        BY <2>1, <2>2 DEF A!Perform, ControlOps
    <3> QED
      BY <1>1, <3>1, <3>2 DEF ControlsNow
  <2> DEFINE rootNow == RootNow'
             controlsNow == ControlsNow'
  <2> HIDE DEF m, replies, ok, rootNow, controlsNow
  <2>7. Flow(rest, more, RootOps, visit, root.seq, root.view, rootNow)
    <3>1. /\ Tells(m, RootOps, visit, root.seq) => m.told = rootNow
          /\ ~(m.ok /\ m.call.op \in RootOps) => rootNow = RootNow
      BY <2>5 DEF rootNow
    <3> QED
      BY <1>1, <1>2, <1>3, <2>2, <2>3, <3>1, FlowRuns DEF RootFlow
  <2>8. Flow(rest, more, ControlOps, visit, controls.generation, controls.view, controlsNow)
    <3>1. /\ Tells(m, ControlOps, visit, controls.generation) => m.told = controlsNow
          /\ ~(m.ok /\ m.call.op \in ControlOps) => controlsNow = ControlsNow
      BY <2>6 DEF controlsNow
    <3> QED
      BY <1>1, <1>2, <1>3, <2>2, <2>3, <3>1, FlowRuns DEF ControlsFlow
  <2>9. NoneOver'
    <3>1. /\ Len(more) = Len(toPage) + 1 /\ Len(toPage) \in Nat
          /\ \A i \in 1..Len(toPage) : more[i] = toPage[i]
          /\ more[Len(toPage) + 1] = m
      BY <2>3, AppendOf
    <3> HIDE DEF more, c, rest
    <3>2. \A i \in 1..Len(more) : i \in 1..Len(toPage) \/ more[i] = m
      BY <3>1
    <3>3. \A i \in 1..Len(more) : ~more[i].call.over
      BY <1>3, <1>4, <2>2, <3>1, <3>2 DEF NoneOver
    <3> QED
      BY <1>1, <1>3, <1>4, <2>1, <3>3 DEF NoneOver
  <2> HIDE DEF rest, more
  <2> QED
    BY <1>1, <2>1, <2>7, <2>8, <2>9 DEF RootFlow, ControlsFlow, rootNow, controlsNow
<1> QED
  BY <1>5, <1>6

LEMMA HearReplyFlows ==
  ASSUME AdminInv, AdminFlow, A!HearReply
  PROVE  AdminFlow'
<1> DEFINE m == Head(toPage)
           rest == Tail(toPage)
           replies == AdminReplies(schema, visit, root, controls)
<1>1. /\ toPage # <<>> /\ toPage' = rest /\ waiting' = waiting
      /\ UNCHANGED <<views, members, schema, page, visit, asks, timeouts>>
  BY DEF A!HearReply, A!client
<1>2. /\ toPage \in Seq(replies) /\ m \in replies /\ m = toPage[1] /\ 1 \in 1..Len(toPage)
      /\ Len(rest) = Len(toPage) - 1 /\ Len(toPage) \in Nat
      /\ \A i \in 1..(Len(toPage) - 1) : i + 1 \in 1..Len(toPage) /\ rest[i] = toPage[i + 1]
  BY <1>1, TailOf DEF AdminInv, AdminPort
<1> SUFFICES ASSUME timeouts = 0
             PROVE  NoneOver' /\ RootFlow' /\ ControlsFlow'
  BY <1>1 DEF AdminFlow
<1>3. NoneOver /\ RootFlow /\ ControlsFlow
  BY DEF AdminFlow
<1>4. ~m.call.over /\ \A i \in 1..Len(rest) : ~rest[i].call.over
  <2> HIDE DEF m, rest
  <2> QED
    BY <1>2, <1>3 DEF NoneOver
<1>5. A!Continue(m.call, m.ok, m.told, toClient)
  BY <1>4 DEF A!HearReply
<1>6. /\ m.call \in AdminCalls(schema, visit, root, controls) /\ m.ok \in BOOLEAN
      /\ m.ok => AnswersIt(m.call, m.told, schema)
  <2> HIDE DEF m
  <2> QED
    BY <1>2 DEF AdminReplies
<1> HIDE DEF m
<1>7. Effect(m.call, m.ok, m.told, toClient)
  BY <1>1, <1>5, <1>6, ContinueKeeps DEF SameForAll, AdminInv
<1>8. AdminInv'
  BY HearReplyKeeps
<1> DEFINE rootView == IF RootHeard(m.call, m.ok) THEN m.told ELSE root.view
           controlsView == IF ControlsHeard(m.call, m.ok) THEN m.told ELSE controls.view
<1>9. /\ \/ root'.seq = root.seq /\ root'.selected = root.selected /\ root'.view = rootView
         \/ root'.seq = root.seq + 1 /\ root'.view = A!None
      /\ \/ controls'.generation = controls.generation /\ controls'.scope = controls.scope
            /\ controls'.view = controlsView
         \/ controls'.generation = controls.generation + 1 /\ controls'.view = A!None
      /\ toClient' \in MoreCalls(toClient, NewCalls(schema, visit, root', controls'))
  BY <1>7 DEF Effect, RootGoesOn, ControlsGoOn
<1>10. GoesOn(visit, root, controls, visit', root', controls')
  <2>1. RootHeard(m.call, m.ok) => m.told # A!None
    BY <1>6 DEF RootHeard, AnswersIt, RootView, A!None
  <2> QED
    BY <1>1, <1>9, <2>1 DEF GoesOn
<1>11. /\ toClient \in Seq(AdminCalls(schema, visit, root', controls'))
       /\ NewCalls(schema, visit, root', controls') \in SUBSET AdminCalls(schema, visit, root', controls')
  BY <1>1, <1>8, <1>10, AdminCallsKept
<1>12. NoneOver'
  <2> DEFINE S == AdminCalls(schema, visit, root', controls')
             new == NewCalls(schema, visit, root', controls')
             tc2 == toClient'
  <2>1. \A c \in new : ~c.over
    BY DEF NewCalls
  <2>2. toClient \in Seq(S) /\ new \in SUBSET S /\ tc2 \in MoreCalls(toClient, new)
    BY <1>9, <1>11
  <2> HIDE DEF S, new, tc2
  <2>3. \A i \in 1..Len(tc2) : ~tc2[i].over
    BY <1>3, <2>1, <2>2, MoreCallsNotOver DEF NoneOver
  <2> HIDE DEF rest
  <2> QED
    BY <1>1, <1>3, <1>4, <2>3 DEF NoneOver, tc2
<1>13. RootFlow'
  <2>1. rootView = IF Tells(m, RootOps, visit, root.seq) THEN m.told ELSE root.view
    BY DEF Tells, Counts, RootHeard
  <2> HIDE DEF rootView
  <2>2. Flow(toClient, rest, RootOps, visit, root.seq, rootView, RootNow)
    BY <1>1, <1>2, <1>3, <2>1, FlowHears DEF RootFlow, m
  <2>3. \A j \in 1..Len(rest) : ~Counts(rest[j].call, RootOps, visit, root.seq + 1)
    <3>1. \A j \in 1..Len(toPage) : ~Counts(toPage[j].call, RootOps, visit, root.seq + 1)
      BY NoneCountsYet
    <3> HIDE DEF rest
    <3> QED
      BY <1>2, <3>1
  <2> HIDE DEF rest
  <2> QED
    BY <1>1, <1>9, <1>11, <2>2, <2>3, RootFlowGoesOn
<1>14. ControlsFlow'
  <2>1. controlsView = IF Tells(m, ControlOps, visit, controls.generation) THEN m.told ELSE controls.view
    BY DEF Tells, Counts, ControlsHeard
  <2> HIDE DEF controlsView
  <2>2. Flow(toClient, rest, ControlOps, visit, controls.generation, controlsView, ControlsNow)
    BY <1>1, <1>2, <1>3, <2>1, FlowHears DEF ControlsFlow, m
  <2>3. \A j \in 1..Len(rest) : ~Counts(rest[j].call, ControlOps, visit, controls.generation + 1)
    <3>1. \A j \in 1..Len(toPage) : ~Counts(toPage[j].call, ControlOps, visit, controls.generation + 1)
      BY NoControlsCountYet
    <3> HIDE DEF rest
    <3> QED
      BY <1>2, <3>1
  <2> HIDE DEF rest
  <2> QED
    BY <1>1, <1>9, <1>11, <2>2, <2>3, ControlsFlowGoesOn
<1> QED
  BY <1>12, <1>13, <1>14

LEMMA AdminFlowStep ==
  ASSUME AdminInv, AdminFlow, A!Next
  PROVE  AdminFlow'
<1>1. CASE A!Someone
  BY <1>1, SomeoneAsks, AskedFlows, NavigateFlows
<1>2. CASE A!RunCall
  BY <1>2, RunCallFlows
<1>3. CASE A!HearReply
  BY <1>3, HearReplyFlows
<1>4. CASE \E ok \in BOOLEAN : A!PasskeyEnds(ok)
  BY <1>4, PasskeyEndsFlows
<1>5. CASE timeouts' = timeouts + 1
  BY <1>5 DEF AdminFlow
<1>6. (\E i \in DOMAIN toClient : A!TimeOut(i)) \/ (\E i \in DOMAIN waiting : A!PasskeyTimesOut(i))
        => timeouts' = timeouts + 1
  BY DEF A!TimeOut, A!PasskeyTimesOut
<1> QED
  BY <1>1, <1>2, <1>3, <1>4, <1>5, <1>6 DEF A!Next

LEMMA AdminFlowInit ==
  ASSUME A!Init
  PROVE  AdminFlow
<1>1. toClient = <<>> /\ toPage = <<>> /\ waiting = <<>> /\ timeouts = 0 /\ root.view = A!None /\ controls.view = A!None
  BY DEF A!Init, A!NewRoot, A!NewControls
<1>2. RootFlow /\ ControlsFlow
  BY <1>1, FlowNew DEF RootFlow, ControlsFlow
<1> QED
  BY <1>1, <1>2 DEF AdminFlow, NoneOver

LEMMA AdminFlowKept ==
  ASSUME AdminFlow, UNCHANGED A!vars
  PROVE  AdminFlow'
<1>1. UNCHANGED <<toClient, toPage, waiting, visit, timeouts, root, controls, views, members>>
  BY DEF A!vars, A!client, A!port, A!state
<1>2. RootNow' = RootNow /\ ControlsNow' = ControlsNow
  BY <1>1 DEF RootNow, ControlsNow
<1> QED
  BY <1>1, <1>2 DEF AdminFlow, NoneOver, RootFlow, ControlsFlow

\* The communities' page shows, and would save, what belongs to the community
\* that is selected and to no other; once all is heard and nothing timed out,
\* it shows it, and the controls its members, as they are.
THEOREM RootShownHolds == Spec => []RootShown
<1> DEFINE Inv == area = "admin" => AdminInv /\ AdminFlow
<1>1. Init => Inv
  BY AdminInvInit, AdminFlowInit DEF Init
<1>2. Inv /\ [Next]_vars => Inv'
  <2> SUFFICES ASSUME Inv, [Next]_vars, area' = "admin"
               PROVE  AdminInv' /\ AdminFlow'
    OBVIOUS
  <2>1. AdminInv /\ AdminFlow /\ (A!Next \/ UNCHANGED A!vars)
    BY AdminSteps
  <2> QED
    BY <2>1, AdminInvStep, AdminInvKept, AdminFlowStep, AdminFlowKept
<1>3. Inv => RootShown
  <2> SUFFICES ASSUME area = "admin", AdminInv, AdminFlow, page = "root"
               PROVE  /\ root.view # A!None => root.view.of = root.selected /\ root.draft.of = root.selected
                      /\ controls.view # A!None => controls.view.of = root.selected
                      /\ A!Quiet /\ timeouts = 0 /\ root.view # A!None =>
                           /\ root.view.setting = views[root.selected].setting
                           /\ root.view.admins = views[root.selected].admins
                           /\ controls.view # A!None => controls.view.members = members[root.selected]
    BY DEF RootShown, A!RootShown
  <2>1. /\ root.view # A!None => root.view.of = root.selected /\ root.draft.of = root.selected
        /\ controls.view # A!None => controls.view.of = root.selected
        /\ controls.scope = root.selected
    BY DEF AdminInv, AdminPage, RootFits, ControlsFit
  <2>2. ASSUME A!Quiet, timeouts = 0
        PROVE  /\ root.view # A!None => root.view = RootNow
               /\ controls.view # A!None => controls.view = ControlsNow
    <3>1. RootFlow /\ ControlsFlow /\ toPage = <<>>
      BY <2>2 DEF AdminFlow, A!Quiet
    <3> QED
      BY <3>1 DEF RootFlow, ControlsFlow, Flow
  <2> QED
    BY <2>1, <2>2 DEF RootNow, ControlsNow
<1> QED
  BY <1>1, <1>2, <1>3, PTL DEF Spec

-----------------------------------------------------------------------------
(* Lists: the order of calls and replies, and what they tell.              *)

ListReads == L!WaveReads \cup {"contacts", "devices"}
ListOps(p) ==
  CASE p = "waves"    -> L!WaveReads \cup {"answer", "close", "punish"}
    [] p = "contacts" -> {"contacts", "block", "unblock", "reopen"}
    [] p = "devices"  -> {"devices", "addDevice", "approveDevice", "removeDevice", "renameDevice"}

\* A call until visit v; one of visit v itself is for page p, and not for a
\* load later than n.
ListCallOk(c, p, v, n) ==
  /\ c = [op |-> c.op, of |-> c.of, for |-> c.for, seq |-> c.seq, visit |-> c.visit, over |-> c.over]
  /\ c.seq \in Nat /\ c.visit \in Nat /\ c.over \in BOOLEAN /\ c.visit <= v
  /\ p # "away" /\ c.visit = v =>
       /\ c.op \in ListOps(p) /\ c.seq <= n
       /\ IF c.op \in ListReads THEN c.for \in {"load", "after"} ELSE c.for = "act"

ListMessageOk(m, p, v, n) ==
  \/ /\ m.type = "reply" /\ ListCallOk(m.call, p, v, n) /\ ~m.call.over
     /\ m.call.op \in ListReads => m.ok /\ m.told # <<>>
  \/ m.type \in {"wave-updated", "contacts", "devices"}

\* The calls come in the order of the visits, and so do the replies before them.
VisitsInOrder(tc, tp) ==
  /\ \A i, j \in 1..Len(tc) : i < j => tc[i].visit <= tc[j].visit
  /\ \A i \in 1..Len(tp), j \in 1..Len(tc) : tp[i].type = "reply" => tp[i].call.visit <= tc[j].visit

\* All that is to be run was asked for by the page that is mounted.
Cleared(tc, v) == \A i \in 1..Len(tc) : tc[i].visit = v

ListOk(l) ==
  /\ l = [seq |-> l.seq, half |-> l.half, shown |-> l.shown, loaded |-> l.loaded, error |-> l.error,
          busy |-> l.busy, confirm |-> l.confirm, read |-> l.read]
  /\ l.seq \in Nat /\ {l.loaded, l.error, l.read} \subseteq BOOLEAN

\* What was told is so now, or an event of type e comes after k.
Later(tp, k, e) == \E i \in 1..Len(tp) : i > k /\ tp[i].type = e
Recent(x, now, tp, k, e) == x = now \/ Later(tp, k, e)

IsRead(c, v) == c.visit = v /\ c.op \in L!WaveReads
IsNew(c, v, n, op) == c.visit = v /\ c.op = op /\ c.seq = n
TellsRead(m, v) == m.type = "reply" /\ IsRead(m.call, v)
TellsNew(m, v, n, op) == m.type = "reply" /\ IsNew(m.call, v, n, op)

\* The place of a read in the order of all reads of its visit.
Place(c) == 2 * c.seq + (IF c.op = "waveSlots" THEN 1 ELSE 0)

ReadsInOrder(tc, tp, v, l) ==
  /\ \A i, j \in 1..Len(tc) : i < j /\ IsRead(tc[i], v) /\ IsRead(tc[j], v) => Place(tc[i]) < Place(tc[j])
  /\ \A i, j \in 1..Len(tp) : i < j /\ TellsRead(tp[i], v) /\ TellsRead(tp[j], v) => Place(tp[i].call) < Place(tp[j].call)
  /\ \A i \in 1..Len(tp), j \in 1..Len(tc) : TellsRead(tp[i], v) /\ IsRead(tc[j], v) => Place(tp[i].call) < Place(tc[j])
  /\ l.half # <<>> =>
       /\ l.half[1].seq \in 0..l.seq
       /\ \A i \in 1..Len(tp) : TellsRead(tp[i], v) => 2 * l.half[1].seq < Place(tp[i].call)
       /\ \A j \in 1..Len(tc) : IsRead(tc[j], v) => 2 * l.half[1].seq < Place(tc[j])

\* The first read of load n is here, or about to be.
Half(l, n) == l.half # <<>> /\ l.half[1].seq = n
HalfCame(tp, v, l) == Half(l, l.seq) \/ \E i \in 1..Len(tp) : TellsNew(tp[i], v, l.seq, "incomingWaves")

\* Both reads of the last load stand together until the first is run, and then
\* the second is the next call.
Paired(tc, tp, v, l) ==
  /\ \A i \in 1..Len(tc) : IsNew(tc[i], v, l.seq, "incomingWaves") /\ ~tc[i].over =>
       i + 1 \in 1..Len(tc) /\ IsNew(tc[i + 1], v, l.seq, "waveSlots") /\ ~tc[i + 1].over
  /\ \A i \in 1..Len(tc) : IsNew(tc[i], v, l.seq, "waveSlots") /\ ~tc[i].over =>
       \/ i - 1 \in 1..Len(tc) /\ IsNew(tc[i - 1], v, l.seq, "incomingWaves") /\ ~tc[i - 1].over
       \/ i = 1 /\ HalfCame(tp, v, l)
  /\ \A i \in 1..Len(tp) : TellsNew(tp[i], v, l.seq, "waveSlots") => HalfCame(tp, v, l)

\* What the first read of the last load told is so, and what the second told
\* with it, or the client says that it has changed.
FirstsMoment(tp, v, n, now) ==
  \A i \in 1..Len(tp) : TellsNew(tp[i], v, n, "incomingWaves") =>
    /\ Recent(tp[i].told[1], now, tp, i, "wave-updated")
    /\ \A k \in 1..Len(tp) : TellsNew(tp[k], v, n, "waveSlots") =>
         tp[k].told[1] = tp[i].told[1] \/ \E j \in 1..Len(tp) : i < j /\ j < k /\ tp[j].type = "wave-updated"
HalfMoment(tp, v, n, told, now) ==
  /\ Recent(told, now, tp, 0, "wave-updated")
  /\ \A k \in 1..Len(tp) : TellsNew(tp[k], v, n, "waveSlots") =>
       tp[k].told[1] = told \/ \E j \in 1..Len(tp) : j < k /\ tp[j].type = "wave-updated"
OneMoment(tp, v, l, now) ==
  FirstsMoment(tp, v, l.seq, now) /\ (Half(l, l.seq) => HalfMoment(tp, v, l.seq, l.half[1].told, now))

\* A call whose answer will renew the list, or say that it failed.
Renews(c, v, n) == c.visit = v /\ (IsNew(c, v, n, "waveSlots") \/ c.for = "act")
ToRenew(tc, tp, v, l) ==
  \/ \E i \in 1..Len(tc) : Renews(tc[i], v, l.seq) /\ ~tc[i].over
  \/ \E i \in 1..Len(tp) : tp[i].type = "reply" /\ Renews(tp[i].call, v, l.seq)

WavesShown(tc, tp, v, l, now) ==
  /\ l.loaded \/ l.half # <<>> => Cleared(tc, v)
  /\ l.shown # <<>> => l.shown[1].first = l.shown[1].second
  /\ l.loaded /\ ~l.error => Recent(l.shown[1].first, now, tp, 0, "wave-updated") \/ ToRenew(tc, tp, v, l)

WavesFlow(tc, tp, v, l, now) ==
  ReadsInOrder(tc, tp, v, l) /\ Paired(tc, tp, v, l) /\ OneMoment(tp, v, l, now) /\ WavesShown(tc, tp, v, l, now)

\* The last event that comes after k tells what is so.
EventsTell(tp, k, e, now) == \A i \in 1..Len(tp) : i > k /\ tp[i].type = e => Recent(tp[i].told, now, tp, i, e)

ContactsFlow(tc, tp, v, l, now) ==
  /\ \A i \in 1..Len(tp) : tp[i].type = "reply" /\ tp[i].call.visit = v /\ tp[i].call.op = "contacts" =>
       Recent(tp[i].told[1], now, tp, i, "contacts") /\ EventsTell(tp, i, "contacts", now)
  /\ l.read => Cleared(tc, v) /\ Recent(l.shown[1], now, tp, 0, "contacts") /\ EventsTell(tp, 0, "contacts", now)

DevicesTold(tp, now) ==
  /\ \A i \in 1..Len(tp) : tp[i].type = "reply" /\ tp[i].call.op = "devices" => Recent(tp[i].told[1], now, tp, i, "devices")
  /\ EventsTell(tp, 0, "devices", now)
DevicesFlow(tp, l, now) == l.shown # <<>> => Recent(l.shown[1], now, tp, 0, "devices")

IsSeq(s) == \E S : s \in Seq(S)

LEMMA SeqIs ==
  ASSUME NEW s, IsSeq(s)
  PROVE  Len(s) \in Nat /\ DOMAIN s = 1..Len(s)
BY LenProperties DEF IsSeq

LEMMA SeqAppended ==
  ASSUME NEW s, IsSeq(s), NEW e
  PROVE  /\ IsSeq(Append(s, e)) /\ Len(s) \in Nat /\ Len(Append(s, e)) = Len(s) + 1
         /\ \A i \in 1..Len(s) : Append(s, e)[i] = s[i]
         /\ Append(s, e)[Len(s) + 1] = e
         /\ s \o <<e>> = Append(s, e) /\ s \o <<>> = s
<1>1. PICK S : s \in Seq(S)
  BY DEF IsSeq
<1> DEFINE T == S \cup {e}
<1>2. s \in Seq(T) /\ e \in T
  BY <1>1
<1> HIDE DEF T
<1>3. /\ Append(s, e) \in Seq(T) /\ Len(s) \in Nat /\ Len(Append(s, e)) = Len(s) + 1
      /\ \A i \in 1..Len(s) : Append(s, e)[i] = s[i]
      /\ Append(s, e)[Len(s) + 1] = e
  BY <1>2, AppendOf
<1>4. s \o <<e>> = Append(s, e) /\ s \o <<>> = s
  BY <1>2, ConcatOne
<1> QED
  BY <1>3, <1>4 DEF IsSeq

LEMMA SeqTail ==
  ASSUME NEW s, IsSeq(s), s # <<>>
  PROVE  /\ IsSeq(Tail(s)) /\ Len(s) \in Nat \ {0} /\ Len(Tail(s)) = Len(s) - 1
         /\ \A i \in 1..Len(Tail(s)) : i + 1 \in 1..Len(s) /\ Tail(s)[i] = s[i + 1]
         /\ Head(s) = s[1] /\ 1 \in 1..Len(s)
<1>1. PICK S : s \in Seq(S)
  BY DEF IsSeq
<1>2. /\ Tail(s) \in Seq(S) /\ Len(s) \in Nat \ {0} /\ Len(Tail(s)) = Len(s) - 1
      /\ \A i \in 1..(Len(s) - 1) : i + 1 \in 1..Len(s) /\ Tail(s)[i] = s[i + 1]
      /\ Head(s) = s[1] /\ 1 \in 1..Len(s)
  BY <1>1, TailOf
<1> QED
  BY <1>2 DEF IsSeq

LEMMA SeqMarked ==
  ASSUME NEW s, IsSeq(s), NEW t, DOMAIN t = DOMAIN s, t = [i \in DOMAIN s |-> t[i]]
  PROVE  IsSeq(t) /\ Len(t) = Len(s)
<1>1. DOMAIN s = 1..Len(s) /\ Len(s) \in Nat
  BY SeqIs
<1> DEFINE S == {t[i] : i \in 1..Len(s)}
<1>2. t \in [1..Len(s) -> S]
  BY <1>1
<1> HIDE DEF S
<1>3. t \in Seq(S) /\ Len(t) = Len(s)
  BY <1>1, <1>2
<1> QED
  BY <1>3 DEF IsSeq

\* An event, or one that is appended, keeps what was told fresh.
LEMMA LaterAppended ==
  ASSUME NEW tp, IsSeq(tp), NEW m, NEW k, NEW e
  PROVE  /\ Later(tp, k, e) => Later(Append(tp, m), k, e)
         /\ k \in 0..Len(tp) /\ m.type = e => Later(Append(tp, m), k, e)
<1> DEFINE q == Append(tp, m)
<1>1. Len(tp) \in Nat /\ Len(q) = Len(tp) + 1 /\ (\A i \in 1..Len(tp) : q[i] = tp[i]) /\ q[Len(tp) + 1] = m
  BY SeqAppended
<1> HIDE DEF q
<1>2. Later(tp, k, e) => Later(q, k, e)
  <2> SUFFICES ASSUME NEW i \in 1..Len(tp), i > k, tp[i].type = e
               PROVE  Later(q, k, e)
    BY DEF Later
  <2>1. i \in 1..Len(q) /\ q[i].type = e
    BY <1>1
  <2> QED
    BY <2>1 DEF Later
<1>3. k \in 0..Len(tp) /\ m.type = e => Later(q, k, e)
  <2>1. Len(tp) + 1 \in 1..Len(q)
    BY <1>1
  <2> QED
    BY <1>1, <2>1 DEF Later
<1> QED
  BY <1>2, <1>3 DEF q

LEMMA LaterTail ==
  ASSUME NEW tp, IsSeq(tp), tp # <<>>, NEW e
  PROVE  /\ \A k \in Nat : Later(tp, k + 1, e) => Later(Tail(tp), k, e)
         /\ Later(tp, 0, e) /\ Head(tp).type # e => Later(Tail(tp), 0, e)
<1> DEFINE q == Tail(tp)
<1>1. /\ Len(tp) \in Nat \ {0} /\ Len(q) = Len(tp) - 1 /\ \A i \in 1..Len(q) : i + 1 \in 1..Len(tp) /\ q[i] = tp[i + 1]
      /\ Head(tp) = tp[1]
  BY SeqTail
<1> HIDE DEF q
<1>2. ASSUME NEW k \in Nat, NEW i \in 1..Len(tp), i > k, tp[i].type = e, i # 1
      PROVE  i - 1 \in 1..Len(q) /\ q[i - 1].type = e
  <2>1. i - 1 \in 1..Len(q) /\ (i - 1) + 1 = i
    BY <1>1, <1>2
  <2>2. q[i - 1] = tp[i]
    BY <1>1, <2>1
  <2> QED
    BY <1>2, <2>1, <2>2
<1>3. ASSUME NEW k \in Nat, Later(tp, k + 1, e)
      PROVE  Later(q, k, e)
  <2>1. PICK i \in 1..Len(tp) : i > k + 1 /\ tp[i].type = e
    BY <1>3 DEF Later
  <2>2. i # 1 /\ i > k /\ i - 1 > k
    BY <1>1, <2>1
  <2>3. i - 1 \in 1..Len(q) /\ q[i - 1].type = e
    BY <1>2, <2>1, <2>2
  <2> QED
    BY <2>2, <2>3 DEF Later
<1>4. ASSUME Later(tp, 0, e), Head(tp).type # e
      PROVE  Later(q, 0, e)
  <2>1. PICK i \in 1..Len(tp) : i > 0 /\ tp[i].type = e
    BY <1>4 DEF Later
  <2>2. i # 1
    BY <1>1, <1>4, <2>1
  <2>3. i - 1 \in 1..Len(q) /\ q[i - 1].type = e
    BY <1>2, <2>1, <2>2
  <2> QED
    BY <2>3 DEF Later
<1> QED
  BY <1>3, <1>4 DEF q

\* What is fresh stays so while the client is as it was or tells of its change.
LEMMA RecentAppended ==
  ASSUME NEW tp, IsSeq(tp), NEW m, NEW k \in 0..Len(tp), NEW e, NEW x, NEW now, NEW now2, Recent(x, now, tp, k, e),
         now2 = now \/ m.type = e
  PROVE  Recent(x, now2, Append(tp, m), k, e)
BY LaterAppended DEF Recent

LEMMA RecentTail ==
  ASSUME NEW tp, IsSeq(tp), tp # <<>>, NEW e, NEW x, NEW now
  PROVE  /\ \A k \in Nat : Recent(x, now, tp, k + 1, e) => Recent(x, now, Tail(tp), k, e)
         /\ Recent(x, now, tp, 0, e) /\ Head(tp).type # e => Recent(x, now, Tail(tp), 0, e)
BY LaterTail DEF Recent

-----------------------------------------------------------------------------
(* Lists: the flow of the waves, step by step.                             *)

\* What is told does not count before all calls are of the page.
LEMMA UnclearedFlows ==
  ASSUME NEW tc, NEW tp, NEW v \in Nat, NEW l, NEW now, NEW now2, WavesFlow(tc, tp, v, l, now), VisitsInOrder(tc, tp),
         \A i \in 1..Len(tc) : tc[i].visit \in Nat /\ tc[i].visit <= v,
         ~Cleared(tc, v)
  PROVE  WavesFlow(tc, tp, v, l, now2)
<1>1. l.half = <<>> /\ ~l.loaded
  BY DEF WavesFlow, WavesShown
<1>2. \A i \in 1..Len(tp) : tp[i].type = "reply" => tp[i].call.visit # v
  <2>1. PICK j \in 1..Len(tc) : tc[j].visit # v
    BY DEF Cleared
  <2>2. tc[j].visit < v
    BY <2>1
  <2> QED
    BY <2>2 DEF VisitsInOrder
<1>3. OneMoment(tp, v, l, now2)
  BY <1>1, <1>2 DEF OneMoment, FirstsMoment, HalfMoment, TellsNew, IsNew, Half
<1>4. WavesShown(tc, tp, v, l, now2)
  BY <1>1 DEF WavesFlow, WavesShown
<1> QED
  BY <1>3, <1>4 DEF WavesFlow

LEMMA EventFlows ==
  ASSUME NEW tc, NEW tp, NEW v, NEW l, NEW now, NEW now2, WavesFlow(tc, tp, v, l, now), IsSeq(tp),
         NEW m, m.type # "reply", now2 = now \/ m.type = "wave-updated"
  PROVE  WavesFlow(tc, Append(tp, m), v, l, now2)
<1> DEFINE q == Append(tp, m)
<1>1. /\ Len(tp) \in Nat /\ Len(q) = Len(tp) + 1 /\ (\A i \in 1..Len(tp) : q[i] = tp[i]) /\ q[Len(tp) + 1] = m
  BY SeqAppended
<1>2. \A x : \A k \in 0..Len(tp) : Recent(x, now, tp, k, "wave-updated") => Recent(x, now2, q, k, "wave-updated")
  BY RecentAppended
<1> HIDE DEF q
<1>3. /\ \A i \in 1..Len(q) : q[i].type = "reply" => i \in 1..Len(tp) /\ q[i] = tp[i]
      /\ \A i \in 1..Len(tp) : i \in 1..Len(q) /\ q[i] = tp[i]
  <2>1. \A i \in 1..Len(q) : i \in 1..Len(tp) \/ i = Len(tp) + 1
    BY <1>1
  <2> QED
    BY <1>1, <2>1
<1>4. ReadsInOrder(tc, q, v, l)
  BY <1>3 DEF WavesFlow, ReadsInOrder, TellsRead
<1>5. HalfCame(tp, v, l) => HalfCame(q, v, l)
  BY <1>3 DEF HalfCame
<1>6. Paired(tc, q, v, l)
  <2>1. \A i \in 1..Len(q) : TellsNew(q[i], v, l.seq, "waveSlots") => HalfCame(q, v, l)
    BY <1>3, <1>5 DEF WavesFlow, Paired, TellsNew
  <2> QED
    BY <1>5, <2>1 DEF WavesFlow, Paired
<1>7. OneMoment(q, v, l, now2)
  <2>1. ASSUME NEW i \in 1..Len(q), TellsNew(q[i], v, l.seq, "incomingWaves")
        PROVE  /\ Recent(q[i].told[1], now2, q, i, "wave-updated")
               /\ \A k \in 1..Len(q) : TellsNew(q[k], v, l.seq, "waveSlots") =>
                    q[k].told[1] = q[i].told[1] \/ \E j \in 1..Len(q) : i < j /\ j < k /\ q[j].type = "wave-updated"
    <3>1. i \in 1..Len(tp) /\ q[i] = tp[i] /\ i \in 0..Len(tp)
      BY <1>1, <1>3, <2>1 DEF TellsNew
    <3>2. /\ Recent(tp[i].told[1], now, tp, i, "wave-updated")
          /\ \A k \in 1..Len(tp) : TellsNew(tp[k], v, l.seq, "waveSlots") =>
               tp[k].told[1] = tp[i].told[1] \/ \E j \in 1..Len(tp) : i < j /\ j < k /\ tp[j].type = "wave-updated"
      BY <2>1, <3>1 DEF WavesFlow, OneMoment, FirstsMoment, HalfMoment
    <3>3. Recent(q[i].told[1], now2, q, i, "wave-updated")
      BY <1>2, <3>1, <3>2
    <3>4. ASSUME NEW k \in 1..Len(q), TellsNew(q[k], v, l.seq, "waveSlots")
          PROVE  q[k].told[1] = q[i].told[1] \/ \E j \in 1..Len(q) : i < j /\ j < k /\ q[j].type = "wave-updated"
      <4>1. k \in 1..Len(tp) /\ q[k] = tp[k]
        BY <1>3, <3>4 DEF TellsNew
      <4> QED
        BY <1>3, <3>1, <3>2, <3>4, <4>1
    <3> QED
      BY <3>3, <3>4
  <2>2. ASSUME Half(l, l.seq)
        PROVE  /\ Recent(l.half[1].told, now2, q, 0, "wave-updated")
               /\ \A k \in 1..Len(q) : TellsNew(q[k], v, l.seq, "waveSlots") =>
                    q[k].told[1] = l.half[1].told \/ \E j \in 1..Len(q) : j < k /\ q[j].type = "wave-updated"
    <3>1. /\ Recent(l.half[1].told, now, tp, 0, "wave-updated")
          /\ \A k \in 1..Len(tp) : TellsNew(tp[k], v, l.seq, "waveSlots") =>
               tp[k].told[1] = l.half[1].told \/ \E j \in 1..Len(tp) : j < k /\ tp[j].type = "wave-updated"
      BY <2>2 DEF WavesFlow, OneMoment, FirstsMoment, HalfMoment
    <3>2. 0 \in 0..Len(tp)
      BY <1>1
    <3>3. Recent(l.half[1].told, now2, q, 0, "wave-updated")
      BY <1>2, <3>1, <3>2
    <3>4. ASSUME NEW k \in 1..Len(q), TellsNew(q[k], v, l.seq, "waveSlots")
          PROVE  q[k].told[1] = l.half[1].told \/ \E j \in 1..Len(q) : j < k /\ q[j].type = "wave-updated"
      <4>1. k \in 1..Len(tp) /\ q[k] = tp[k]
        BY <1>3, <3>4 DEF TellsNew
      <4> QED
        BY <1>3, <3>1, <3>4, <4>1
    <3> QED
      BY <3>3, <3>4
  <2> QED
    BY <2>1, <2>2 DEF OneMoment, FirstsMoment, HalfMoment
<1>8. WavesShown(tc, q, v, l, now2)
  <2>1. 0 \in 0..Len(tp)
    BY <1>1
  <2>2. ToRenew(tc, tp, v, l) => ToRenew(tc, q, v, l)
    BY <1>3 DEF ToRenew
  <2> QED
    BY <1>2, <2>1, <2>2 DEF WavesFlow, WavesShown
<1> QED
  BY <1>4, <1>6, <1>7, <1>8 DEF WavesFlow, q

\* A call that nobody waits for is run.
LEMMA OverFlows ==
  ASSUME NEW tc, NEW tp, NEW v, NEW l, NEW now, WavesFlow(tc, tp, v, l, now), IsSeq(tc), tc # <<>>, Head(tc).over
  PROVE  WavesFlow(Tail(tc), tp, v, l, now)
<1> DEFINE q == Tail(tc)
<1>1. /\ Len(tc) \in Nat \ {0} /\ Len(q) = Len(tc) - 1 /\ \A i \in 1..Len(q) : i + 1 \in 1..Len(tc) /\ q[i] = tc[i + 1]
      /\ tc[1].over
  BY SeqTail
<1> HIDE DEF q
<1>2. \A i \in 1..Len(tc) : i # 1 => i - 1 \in 1..Len(q) /\ q[i - 1] = tc[i]
  <2> SUFFICES ASSUME NEW i \in 1..Len(tc), i # 1
               PROVE  i - 1 \in 1..Len(q) /\ q[i - 1] = tc[i]
    OBVIOUS
  <2>1. i - 1 \in 1..Len(q) /\ (i - 1) + 1 = i
    BY <1>1
  <2> QED
    BY <1>1, <2>1
<1>3. ReadsInOrder(tc, tp, v, l) /\ Paired(tc, tp, v, l)
  BY DEF WavesFlow
<1>4. ReadsInOrder(q, tp, v, l)
  <2>1. \A i, j \in 1..Len(q) : i < j => i + 1 < j + 1
    BY <1>1
  <2> QED
    BY <1>1, <1>3, <2>1 DEF ReadsInOrder
<1>5. Paired(q, tp, v, l)
  <2>1. ASSUME NEW i \in 1..Len(q), IsNew(q[i], v, l.seq, "incomingWaves") /\ ~q[i].over
        PROVE  i + 1 \in 1..Len(q) /\ IsNew(q[i + 1], v, l.seq, "waveSlots") /\ ~q[i + 1].over
    <3>1. (i + 1) + 1 \in 1..Len(tc) /\ IsNew(tc[(i + 1) + 1], v, l.seq, "waveSlots") /\ ~tc[(i + 1) + 1].over
      BY <1>1, <1>3, <2>1 DEF Paired
    <3>2. (i + 1) + 1 # 1 /\ ((i + 1) + 1) - 1 = i + 1
      BY <1>1
    <3> QED
      BY <1>2, <3>1, <3>2
  <2>2. ASSUME NEW i \in 1..Len(q), IsNew(q[i], v, l.seq, "waveSlots") /\ ~q[i].over
        PROVE  \/ i - 1 \in 1..Len(q) /\ IsNew(q[i - 1], v, l.seq, "incomingWaves") /\ ~q[i - 1].over
               \/ i = 1 /\ HalfCame(tp, v, l)
    <3>1. i + 1 # 1 /\ (i + 1) - 1 = i
      BY <1>1
    <3>2. i \in 1..Len(tc) /\ IsNew(tc[i], v, l.seq, "incomingWaves") /\ ~tc[i].over
      BY <1>1, <1>3, <2>2, <3>1 DEF Paired
    <3>3. i # 1
      BY <1>1, <3>2
    <3> QED
      BY <1>2, <3>2, <3>3
  <2> QED
    BY <1>3, <2>1, <2>2 DEF Paired
<1>6. OneMoment(tp, v, l, now)
  BY DEF WavesFlow, OneMoment, FirstsMoment, HalfMoment
<1>7. WavesShown(q, tp, v, l, now)
  <2>1. Cleared(tc, v) => Cleared(q, v)
    BY <1>1 DEF Cleared
  <2>2. ToRenew(tc, tp, v, l) => ToRenew(q, tp, v, l)
    BY <1>1, <1>2 DEF ToRenew
  <2> QED
    BY <2>1, <2>2 DEF WavesFlow, WavesShown
<1> QED
  BY <1>4, <1>5, <1>6, <1>7 DEF WavesFlow, q

\* A call is run that is waited for; a read tells what is so.
LEMMA AnsweredFlows ==
  ASSUME NEW tc, NEW tp, NEW v, NEW l, NEW now, WavesFlow(tc, tp, v, l, now), IsSeq(tc), tc # <<>>, IsSeq(tp),
         \A i \in 1..Len(tc) : tc[i].seq \in Nat, \A i \in 1..Len(tp) : tp[i].type = "reply" => tp[i].call.seq \in Nat,
         NEW m, m.type = "reply", m.call = Head(tc), ~m.call.over, IsRead(m.call, v) => m.told[1] = now
  PROVE  WavesFlow(Tail(tc), Append(tp, m), v, l, now)
<1> DEFINE q == Tail(tc)
           p == Append(tp, m)
<1>1. /\ Len(tc) \in Nat \ {0} /\ Len(q) = Len(tc) - 1 /\ \A i \in 1..Len(q) : i + 1 \in 1..Len(tc) /\ q[i] = tc[i + 1]
      /\ m.call = tc[1] /\ 1 \in 1..Len(tc)
  BY SeqTail
<1>2. Len(tp) \in Nat /\ Len(p) = Len(tp) + 1 /\ (\A i \in 1..Len(tp) : p[i] = tp[i]) /\ p[Len(tp) + 1] = m
  BY SeqAppended
<1>3. \A x : \A k \in 0..Len(tp) : Recent(x, now, tp, k, "wave-updated") => Recent(x, now, p, k, "wave-updated")
  BY RecentAppended
<1> HIDE DEF q, p
<1>4. \A i \in 1..Len(tc) : i # 1 => i - 1 \in 1..Len(q) /\ q[i - 1] = tc[i]
  <2> SUFFICES ASSUME NEW i \in 1..Len(tc), i # 1
               PROVE  i - 1 \in 1..Len(q) /\ q[i - 1] = tc[i]
    OBVIOUS
  <2>1. i - 1 \in 1..Len(q) /\ (i - 1) + 1 = i
    BY <1>1
  <2> QED
    BY <1>1, <2>1
<1>5. /\ \A i \in 1..Len(p) : (i \in 1..Len(tp) /\ p[i] = tp[i]) \/ (i = Len(tp) + 1 /\ p[i] = m)
      /\ \A i \in 1..Len(tp) : i \in 1..Len(p) /\ p[i] = tp[i]
      /\ Len(tp) + 1 \in 1..Len(p) /\ p[Len(tp) + 1] = m
      /\ \A i \in 1..Len(tp) : i < Len(tp) + 1
  <2>1. \A i \in 1..Len(p) : i \in 1..Len(tp) \/ i = Len(tp) + 1
    BY <1>2
  <2>2. Len(tp) + 1 \in 1..Len(p) /\ \A i \in 1..Len(tp) : i \in 1..Len(p) /\ i < Len(tp) + 1
    BY <1>2
  <2> QED
    BY <1>2, <2>1, <2>2
<1>6. ReadsInOrder(tc, tp, v, l) /\ Paired(tc, tp, v, l) /\ OneMoment(tp, v, l, now)
  BY DEF WavesFlow
<1>7. ReadsInOrder(q, p, v, l)
  <2>1. \A i, j \in 1..Len(q) : i < j /\ IsRead(q[i], v) /\ IsRead(q[j], v) => Place(q[i]) < Place(q[j])
    <3>1. \A i, j \in 1..Len(q) : i < j => i + 1 < j + 1
      BY <1>1
    <3> QED
      BY <1>1, <1>6, <3>1 DEF ReadsInOrder
  <2>2. \A i \in 1..Len(q) : i + 1 \in 1..Len(tc) /\ q[i] = tc[i + 1] /\ 1 < i + 1
    BY <1>1
  <2>3. \A i, j \in 1..Len(p) : i < j /\ TellsRead(p[i], v) /\ TellsRead(p[j], v) => Place(p[i].call) < Place(p[j].call)
    <3> SUFFICES ASSUME NEW i \in 1..Len(p), NEW j \in 1..Len(p), i < j, TellsRead(p[i], v), TellsRead(p[j], v)
                 PROVE  Place(p[i].call) < Place(p[j].call)
      OBVIOUS
    <3>1. i \in 1..Len(tp) /\ p[i] = tp[i]
      BY <1>2, <1>5
    <3>2. CASE j \in 1..Len(tp) /\ p[j] = tp[j]
      BY <1>6, <3>1, <3>2 DEF ReadsInOrder
    <3>3. CASE p[j] = m
      BY <1>1, <1>6, <3>1, <3>3 DEF ReadsInOrder, TellsRead
    <3> QED
      BY <1>5, <3>2, <3>3
  <2>4. \A i \in 1..Len(p), j \in 1..Len(q) : TellsRead(p[i], v) /\ IsRead(q[j], v) => Place(p[i].call) < Place(q[j])
    <3> SUFFICES ASSUME NEW i \in 1..Len(p), NEW j \in 1..Len(q), TellsRead(p[i], v), IsRead(q[j], v)
                 PROVE  Place(p[i].call) < Place(q[j])
      OBVIOUS
    <3>1. CASE i \in 1..Len(tp) /\ p[i] = tp[i]
      BY <1>6, <2>2, <3>1 DEF ReadsInOrder
    <3>2. CASE p[i] = m
      BY <1>1, <1>6, <2>2, <3>2 DEF ReadsInOrder, TellsRead
    <3> QED
      BY <1>5, <3>1, <3>2
  <2>5. l.half # <<>> =>
          /\ l.half[1].seq \in 0..l.seq
          /\ \A i \in 1..Len(p) : TellsRead(p[i], v) => 2 * l.half[1].seq < Place(p[i].call)
          /\ \A j \in 1..Len(q) : IsRead(q[j], v) => 2 * l.half[1].seq < Place(q[j])
    <3> DEFINE h == 2 * l.half[1].seq
    <3> SUFFICES ASSUME l.half # <<>>
                 PROVE  /\ l.half[1].seq \in 0..l.seq
                        /\ \A i \in 1..Len(p) : TellsRead(p[i], v) => h < Place(p[i].call)
                        /\ \A j \in 1..Len(q) : IsRead(q[j], v) => h < Place(q[j])
      OBVIOUS
    <3>1. /\ l.half[1].seq \in 0..l.seq
          /\ \A i \in 1..Len(tp) : TellsRead(tp[i], v) => h < Place(tp[i].call)
          /\ \A j \in 1..Len(tc) : IsRead(tc[j], v) => h < Place(tc[j])
      BY <1>6 DEF ReadsInOrder
    <3> HIDE DEF h
    <3>2. TellsRead(m, v) => h < Place(m.call)
      BY <1>1, <3>1 DEF TellsRead
    <3> QED
      BY <1>5, <2>2, <3>1, <3>2
  <2> QED
    BY <2>1, <2>3, <2>4, <2>5 DEF ReadsInOrder
<1>8. HalfCame(tp, v, l) => HalfCame(p, v, l)
  BY <1>5 DEF HalfCame
<1>9. Paired(q, p, v, l)
  <2>1. ASSUME NEW i \in 1..Len(q), IsNew(q[i], v, l.seq, "incomingWaves") /\ ~q[i].over
        PROVE  i + 1 \in 1..Len(q) /\ IsNew(q[i + 1], v, l.seq, "waveSlots") /\ ~q[i + 1].over
    <3>1. (i + 1) + 1 \in 1..Len(tc) /\ IsNew(tc[(i + 1) + 1], v, l.seq, "waveSlots") /\ ~tc[(i + 1) + 1].over
      BY <1>1, <1>6, <2>1 DEF Paired
    <3>2. (i + 1) + 1 # 1 /\ ((i + 1) + 1) - 1 = i + 1
      BY <1>1
    <3> QED
      BY <1>4, <3>1, <3>2
  <2>2. ASSUME NEW i \in 1..Len(q), IsNew(q[i], v, l.seq, "waveSlots") /\ ~q[i].over
        PROVE  \/ i - 1 \in 1..Len(q) /\ IsNew(q[i - 1], v, l.seq, "incomingWaves") /\ ~q[i - 1].over
               \/ i = 1 /\ HalfCame(p, v, l)
    <3>1. i + 1 # 1 /\ (i + 1) - 1 = i
      BY <1>1
    <3>2. i \in 1..Len(tc) /\ IsNew(tc[i], v, l.seq, "incomingWaves") /\ ~tc[i].over
      BY <1>1, <1>6, <2>2, <3>1 DEF Paired
    <3>3. CASE i # 1
      BY <1>4, <3>2, <3>3
    <3>4. CASE i = 1
      <4>1. TellsNew(m, v, l.seq, "incomingWaves")
        BY <1>1, <3>2, <3>4 DEF TellsNew
      <4> QED
        BY <1>5, <3>4, <4>1 DEF HalfCame
    <3> QED
      BY <3>3, <3>4
  <2>3. ASSUME NEW i \in 1..Len(p), TellsNew(p[i], v, l.seq, "waveSlots")
        PROVE  HalfCame(p, v, l)
    <3>1. CASE i \in 1..Len(tp) /\ p[i] = tp[i]
      BY <1>6, <1>8, <2>3, <3>1 DEF Paired
    <3>2. CASE p[i] = m
      <4>1. IsNew(tc[1], v, l.seq, "waveSlots") /\ ~tc[1].over
        BY <1>1, <2>3, <3>2 DEF TellsNew
      <4>2. 1 - 1 \notin 1..Len(tc)
        BY <1>1
      <4> QED
        BY <1>1, <1>6, <1>8, <4>1, <4>2 DEF Paired
    <3> QED
      BY <1>5, <3>1, <3>2
  <2> QED
    BY <2>1, <2>2, <2>3 DEF Paired
\* The first read of a load is not answered after the second.
<1>10. ASSUME TellsNew(m, v, l.seq, "incomingWaves")
       PROVE  \A k \in 1..Len(p) : ~TellsNew(p[k], v, l.seq, "waveSlots")
  <2> SUFFICES ASSUME NEW k \in 1..Len(p), TellsNew(p[k], v, l.seq, "waveSlots")
               PROVE  FALSE
    OBVIOUS
  <2>1. k \in 1..Len(tp) /\ p[k] = tp[k]
    BY <1>5, <1>10 DEF TellsNew, IsNew
  <2>2. TellsRead(tp[k], v) /\ IsRead(tc[1], v)
    BY <1>1, <1>10, <2>1 DEF TellsNew, TellsRead, IsNew, IsRead, L!WaveReads
  <2>3. Place(tp[k].call) < Place(tc[1])
    BY <1>1, <1>6, <2>1, <2>2 DEF ReadsInOrder
  <2>4. tp[k].call.op = "waveSlots" /\ tc[1].op = "incomingWaves" /\ tp[k].call.seq = tc[1].seq /\ tc[1].seq \in Nat
    BY <1>1, <1>10, <2>1 DEF TellsNew, IsNew
  <2>5. Place(tp[k].call) = 2 * tc[1].seq + 1 /\ Place(tc[1]) = 2 * tc[1].seq + 0
    BY <2>4 DEF Place
  <2> QED
    BY <2>3, <2>4, <2>5
<1>11. TellsNew(m, v, l.seq, "incomingWaves") \/ TellsNew(m, v, l.seq, "waveSlots") => m.told[1] = now
  BY DEF TellsNew, IsNew, IsRead, L!WaveReads
<1>12. OneMoment(p, v, l, now)
  <2>1. ASSUME NEW i \in 1..Len(p), TellsNew(p[i], v, l.seq, "incomingWaves")
        PROVE  /\ Recent(p[i].told[1], now, p, i, "wave-updated")
               /\ \A k \in 1..Len(p) : TellsNew(p[k], v, l.seq, "waveSlots") =>
                    p[k].told[1] = p[i].told[1] \/ \E j \in 1..Len(p) : i < j /\ j < k /\ p[j].type = "wave-updated"
    <3>1. CASE p[i] = m
      <4>1. p[i].told[1] = now /\ \A k \in 1..Len(p) : ~TellsNew(p[k], v, l.seq, "waveSlots")
        BY <1>10, <1>11, <2>1, <3>1
      <4> QED
        BY <4>1 DEF Recent
    <3>2. CASE i \in 1..Len(tp) /\ p[i] = tp[i]
      <4>1. /\ Recent(tp[i].told[1], now, tp, i, "wave-updated")
            /\ \A k \in 1..Len(tp) : TellsNew(tp[k], v, l.seq, "waveSlots") =>
                 tp[k].told[1] = tp[i].told[1] \/ \E j \in 1..Len(tp) : i < j /\ j < k /\ tp[j].type = "wave-updated"
        BY <1>6, <2>1, <3>2 DEF OneMoment, FirstsMoment, HalfMoment
      <4>2. i \in 0..Len(tp)
        BY <1>2, <3>2
      <4>3. Recent(p[i].told[1], now, p, i, "wave-updated")
        BY <1>3, <3>2, <4>1, <4>2
      <4>4. ASSUME NEW k \in 1..Len(p), TellsNew(p[k], v, l.seq, "waveSlots")
            PROVE  p[k].told[1] = p[i].told[1] \/ \E j \in 1..Len(p) : i < j /\ j < k /\ p[j].type = "wave-updated"
        <5>1. CASE k \in 1..Len(tp) /\ p[k] = tp[k]
          BY <1>5, <3>2, <4>1, <4>4, <5>1
        <5>2. CASE k = Len(tp) + 1 /\ p[k] = m
          <6>1. p[k].told[1] = now
            BY <1>11, <4>4, <5>2
          <6>2. tp[i].told[1] = now \/ \E j \in 1..Len(tp) : j > i /\ tp[j].type = "wave-updated"
            BY <4>1 DEF Recent, Later
          <6>3. \A j \in 1..Len(tp) : j > i => i < j /\ j < k
            BY <1>5, <4>2, <5>2
          <6> QED
            BY <1>5, <3>2, <6>1, <6>2, <6>3
        <5> QED
          BY <1>5, <5>1, <5>2
      <4> QED
        BY <4>3, <4>4
    <3> QED
      BY <1>5, <3>1, <3>2
  <2>2. ASSUME Half(l, l.seq)
        PROVE  /\ Recent(l.half[1].told, now, p, 0, "wave-updated")
               /\ \A k \in 1..Len(p) : TellsNew(p[k], v, l.seq, "waveSlots") =>
                    p[k].told[1] = l.half[1].told \/ \E j \in 1..Len(p) : j < k /\ p[j].type = "wave-updated"
    <3>1. /\ Recent(l.half[1].told, now, tp, 0, "wave-updated")
          /\ \A k \in 1..Len(tp) : TellsNew(tp[k], v, l.seq, "waveSlots") =>
               tp[k].told[1] = l.half[1].told \/ \E j \in 1..Len(tp) : j < k /\ tp[j].type = "wave-updated"
      BY <1>6, <2>2 DEF OneMoment, FirstsMoment, HalfMoment
    <3>2. 0 \in 0..Len(tp)
      BY <1>2
    <3>3. Recent(l.half[1].told, now, p, 0, "wave-updated")
      BY <1>3, <3>1, <3>2
    <3>4. ASSUME NEW k \in 1..Len(p), TellsNew(p[k], v, l.seq, "waveSlots")
          PROVE  p[k].told[1] = l.half[1].told \/ \E j \in 1..Len(p) : j < k /\ p[j].type = "wave-updated"
      <4>1. CASE k \in 1..Len(tp) /\ p[k] = tp[k]
        BY <1>5, <3>1, <3>4, <4>1
      <4>2. CASE k = Len(tp) + 1 /\ p[k] = m
        <5>1. p[k].told[1] = now
          BY <1>11, <3>4, <4>2
        <5>2. l.half[1].told = now \/ \E j \in 1..Len(tp) : j > 0 /\ tp[j].type = "wave-updated"
          BY <3>1 DEF Recent, Later
        <5> QED
          BY <1>5, <4>2, <5>1, <5>2
      <4> QED
        BY <1>5, <4>1, <4>2
    <3> QED
      BY <3>3, <3>4
  <2> QED
    BY <2>1, <2>2 DEF OneMoment, FirstsMoment, HalfMoment
<1>13. WavesShown(q, p, v, l, now)
  <2>1. Cleared(tc, v) => Cleared(q, v)
    BY <1>1 DEF Cleared
  <2>2. ToRenew(tc, tp, v, l) => ToRenew(q, p, v, l)
    <3>1. ASSUME NEW i \in 1..Len(tc), Renews(tc[i], v, l.seq) /\ ~tc[i].over
          PROVE  ToRenew(q, p, v, l)
      <4>1. CASE i = 1
        BY <1>1, <1>5, <3>1, <4>1 DEF ToRenew
      <4>2. CASE i # 1
        BY <1>4, <3>1, <4>2 DEF ToRenew
      <4> QED
        BY <4>1, <4>2
    <3>2. ASSUME NEW i \in 1..Len(tp), tp[i].type = "reply" /\ Renews(tp[i].call, v, l.seq)
          PROVE  ToRenew(q, p, v, l)
      BY <1>5, <3>2 DEF ToRenew
    <3> QED
      BY <3>1, <3>2 DEF ToRenew
  <2>3. 0 \in 0..Len(tp)
    BY <1>2
  <2> QED
    BY <1>3, <2>1, <2>2, <2>3 DEF WavesFlow, WavesShown
<1> QED
  BY <1>7, <1>9, <1>12, <1>13 DEF WavesFlow, q, p

\* A page that fails, or asks for a change, goes on showing what it shows.
LEMMA FieldsFlow ==
  ASSUME NEW tc, NEW tp, NEW v, NEW l, NEW l2, NEW now, WavesFlow(tc, tp, v, l, now),
         l2.seq = l.seq, l2.half = l.half, l2.shown = l.shown, l2.loaded = l.loaded,
         ~l2.error => ~l.error \/ ToRenew(tc, tp, v, l)
  PROVE  WavesFlow(tc, tp, v, l2, now)
<1>1. ReadsInOrder(tc, tp, v, l2) /\ Paired(tc, tp, v, l2) /\ OneMoment(tp, v, l2, now)
  BY DEF WavesFlow, ReadsInOrder, Paired, OneMoment, FirstsMoment, HalfMoment, HalfCame, Half
<1>2. ToRenew(tc, tp, v, l) => ToRenew(tc, tp, v, l2)
  BY DEF ToRenew
<1>3. WavesShown(tc, tp, v, l2, now)
  BY <1>2 DEF WavesFlow, WavesShown
<1> QED
  BY <1>1, <1>3 DEF WavesFlow

\* A change is asked for, which renews the list.
LEMMA ActFlows ==
  ASSUME NEW tc, NEW tp, NEW v, NEW l, NEW now, WavesFlow(tc, tp, v, l, now), IsSeq(tc),
         NEW c, c.visit = v, c.for = "act", ~c.over, c.op \notin L!WaveReads
  PROVE  WavesFlow(Append(tc, c), tp, v, l, now) /\ ToRenew(Append(tc, c), tp, v, l)
<1> DEFINE q == Append(tc, c)
<1>1. Len(tc) \in Nat /\ Len(q) = Len(tc) + 1 /\ (\A i \in 1..Len(tc) : q[i] = tc[i]) /\ q[Len(tc) + 1] = c
  BY SeqAppended
<1> HIDE DEF q
<1>2. /\ \A i \in 1..Len(q) : (i \in 1..Len(tc) /\ q[i] = tc[i]) \/ q[i] = c
      /\ \A i \in 1..Len(tc) : i \in 1..Len(q) /\ q[i] = tc[i]
      /\ Len(tc) + 1 \in 1..Len(q) /\ q[Len(tc) + 1] = c
  <2>1. \A i \in 1..Len(q) : i \in 1..Len(tc) \/ i = Len(tc) + 1
    BY <1>1
  <2>2. Len(tc) + 1 \in 1..Len(q) /\ \A i \in 1..Len(tc) : i \in 1..Len(q)
    BY <1>1
  <2> QED
    BY <1>1, <2>1, <2>2
<1>3. ~IsRead(c, v) /\ ~IsNew(c, v, l.seq, "incomingWaves") /\ ~IsNew(c, v, l.seq, "waveSlots")
  BY DEF IsRead, IsNew, L!WaveReads
<1>4. ReadsInOrder(tc, tp, v, l) /\ Paired(tc, tp, v, l)
  BY DEF WavesFlow
<1>5. ReadsInOrder(q, tp, v, l)
  <2>1. \A i \in 1..Len(q) : IsRead(q[i], v) => i \in 1..Len(tc) /\ q[i] = tc[i]
    BY <1>2, <1>3
  <2> QED
    BY <1>4, <2>1 DEF ReadsInOrder
<1>6. Paired(q, tp, v, l)
  <2>1. \A i \in 1..Len(q) : IsNew(q[i], v, l.seq, "incomingWaves") \/ IsNew(q[i], v, l.seq, "waveSlots") => i \in 1..Len(tc) /\ q[i] = tc[i]
    BY <1>2, <1>3
  <2>2. \A i \in 1..Len(q) : IsNew(q[i], v, l.seq, "incomingWaves") /\ ~q[i].over =>
          i + 1 \in 1..Len(q) /\ IsNew(q[i + 1], v, l.seq, "waveSlots") /\ ~q[i + 1].over
    BY <1>2, <1>4, <2>1 DEF Paired
  <2>3. \A i \in 1..Len(q) : IsNew(q[i], v, l.seq, "waveSlots") /\ ~q[i].over =>
          \/ i - 1 \in 1..Len(q) /\ IsNew(q[i - 1], v, l.seq, "incomingWaves") /\ ~q[i - 1].over
          \/ i = 1 /\ HalfCame(tp, v, l)
    BY <1>2, <1>4, <2>1 DEF Paired
  <2> QED
    BY <1>4, <2>2, <2>3 DEF Paired
<1>7. OneMoment(tp, v, l, now)
  BY DEF WavesFlow, OneMoment, FirstsMoment, HalfMoment
<1>8. ToRenew(q, tp, v, l)
  <2>1. Renews(c, v, l.seq)
    BY DEF Renews
  <2> QED
    BY <1>2, <2>1 DEF ToRenew
<1>9. WavesShown(q, tp, v, l, now)
  <2>1. Cleared(tc, v) => Cleared(q, v)
    BY <1>2 DEF Cleared
  <2> QED
    BY <1>8, <2>1 DEF WavesFlow, WavesShown
<1> QED
  BY <1>5, <1>6, <1>7, <1>8, <1>9 DEF WavesFlow, q

\* The waves are read anew, whatever came of the loads before.
LEMMA LoadFlows ==
  ASSUME NEW tc, NEW tp, NEW v, NEW l, NEW now, ReadsInOrder(tc, tp, v, l), IsSeq(tc), l.seq \in Nat,
         l.loaded \/ l.half # <<>> => Cleared(tc, v),
         l.shown # <<>> => l.shown[1].first = l.shown[1].second,
         \A i \in 1..Len(tc) : IsRead(tc[i], v) => tc[i].seq \in 0..l.seq,
         \A i \in 1..Len(tp) : TellsRead(tp[i], v) => tp[i].call.seq \in 0..l.seq,
         NEW l2, l2.seq = l.seq + 1, l2.half = l.half, l2.shown = l.shown, l2.loaded = l.loaded,
         NEW c, IsNew(c, v, l.seq + 1, "incomingWaves"), ~c.over,
         NEW d, IsNew(d, v, l.seq + 1, "waveSlots"), ~d.over
  PROVE  WavesFlow(Append(Append(tc, c), d), tp, v, l2, now)
<1> DEFINE q == Append(Append(tc, c), d)
           n == Len(tc)
<1>1. /\ n \in Nat /\ Len(q) = n + 2 /\ (\A i \in 1..n : i \in 1..Len(q) /\ q[i] = tc[i]) /\ q[n + 1] = c /\ q[n + 2] = d
      /\ n + 1 \in 1..Len(q) /\ n + 2 \in 1..Len(q)
  <2> DEFINE p == Append(tc, c)
  <2>1. IsSeq(p) /\ n \in Nat /\ Len(p) = n + 1 /\ (\A i \in 1..n : p[i] = tc[i]) /\ p[n + 1] = c
    BY SeqAppended
  <2> HIDE DEF p
  <2> DEFINE r == Append(p, d)
  <2>2. Len(r) = n + 2 /\ (\A i \in 1..(n + 1) : r[i] = p[i]) /\ r[n + 2] = d
    <3>1. Len(r) = Len(p) + 1 /\ (\A i \in 1..Len(p) : r[i] = p[i]) /\ r[Len(p) + 1] = d
      BY <2>1, SeqAppended
    <3> QED
      BY <2>1, <3>1
  <2> HIDE DEF r
  <2>3. \A i \in 1..n : i \in 1..(n + 1) /\ i \in 1..(n + 2)
    BY <2>1
  <2>4. n + 1 \in 1..(n + 1) /\ n + 1 \in 1..(n + 2) /\ n + 2 \in 1..(n + 2)
    BY <2>1
  <2> HIDE DEF n
  <2> QED
    BY <2>1, <2>2, <2>3, <2>4 DEF p, r
<1> HIDE DEF q
<1>2. \A i \in 1..Len(q) : (i \in 1..n /\ q[i] = tc[i]) \/ (i = n + 1 /\ q[i] = c) \/ (i = n + 2 /\ q[i] = d)
  <2>1. \A i \in 1..Len(q) : i \in 1..n \/ i = n + 1 \/ i = n + 2
    BY <1>1
  <2> QED
    BY <1>1, <2>1
<1> HIDE DEF n
<1> DEFINE new == l.seq + 1
<1>3. /\ new \in Nat /\ l.seq < new /\ \A k \in 0..l.seq : k # new /\ 2 * k + 0 < 2 * new /\ 2 * k + 1 < 2 * new
  OBVIOUS
<1>4. Place(c) = 2 * new + 0 /\ Place(d) = 2 * new + 1 /\ Place(c) < Place(d) /\ 2 * new + 0 = 2 * new /\ 2 * new < Place(d)
  <2>1. Place(c) = 2 * new + 0 /\ Place(d) = 2 * new + 1
    BY DEF Place, IsNew
  <2> HIDE DEF new
  <2> QED
    BY <1>3, <2>1
<1>5. /\ \A i \in 1..n : IsRead(tc[i], v) => Place(tc[i]) < 2 * new
      /\ \A i \in 1..Len(tp) : TellsRead(tp[i], v) => Place(tp[i].call) < 2 * new
  <2> HIDE DEF new
  <2>1. \A e : e.seq \in 0..l.seq => Place(e) < 2 * new
    BY <1>3 DEF Place
  <2> QED
    BY <2>1 DEF n
<1>6. /\ \A i \in 1..n : ~IsNew(tc[i], v, new, "incomingWaves") /\ ~IsNew(tc[i], v, new, "waveSlots")
      /\ \A i \in 1..Len(tp) : ~TellsNew(tp[i], v, new, "incomingWaves") /\ ~TellsNew(tp[i], v, new, "waveSlots")
      /\ ~Half(l2, new)
  <2>1. \A i \in 1..n : ~IsNew(tc[i], v, new, "incomingWaves") /\ ~IsNew(tc[i], v, new, "waveSlots")
    BY <1>3 DEF IsNew, IsRead, L!WaveReads, n
  <2>2. \A i \in 1..Len(tp) : ~TellsNew(tp[i], v, new, "incomingWaves") /\ ~TellsNew(tp[i], v, new, "waveSlots")
    BY <1>3 DEF TellsNew, IsNew, TellsRead, IsRead, L!WaveReads
  <2>3. ~Half(l2, new)
    BY <1>3 DEF Half, ReadsInOrder
  <2> QED
    BY <2>1, <2>2, <2>3
<1>7. \A i \in 1..n : Place(tc[i]) \in Int \/ ~IsRead(tc[i], v)
  BY DEF Place, n
<1>8. \A i \in 1..Len(tp) : Place(tp[i].call) \in Int \/ ~TellsRead(tp[i], v)
  BY DEF Place
<1>9. \A i \in 1..n : i < n + 1 /\ i < n + 2
  BY <1>1
<1>10. ReadsInOrder(q, tp, v, l2)
  <2> DEFINE cc == Place(c)
             dd == Place(d)
             at == 2 * new
  <2>1. at \in Nat /\ cc = at /\ cc < dd /\ at < dd /\ cc \in Nat /\ dd \in Nat
    BY <1>3, <1>4
  <2> HIDE DEF cc, dd, at
  <2>2. /\ \A i \in 1..n : IsRead(tc[i], v) => Place(tc[i]) < cc /\ Place(tc[i]) < dd
        /\ \A i \in 1..Len(tp) : TellsRead(tp[i], v) => Place(tp[i].call) < cc /\ Place(tp[i].call) < dd
    <3>1. \A x \in Int : x < at => x < cc /\ x < dd
      BY <2>1
    <3> QED
      BY <1>5, <1>7, <1>8, <3>1 DEF at
  <2>3. ASSUME NEW i \in 1..Len(q), NEW j \in 1..Len(q), i < j, IsRead(q[i], v), IsRead(q[j], v)
        PROVE  Place(q[i]) < Place(q[j])
    <3>1. CASE j \in 1..n /\ q[j] = tc[j]
      <4>1. i \in 1..n /\ q[i] = tc[i]
        BY <1>1, <1>2, <2>3, <3>1
      <4> QED
        BY <2>3, <3>1, <4>1 DEF ReadsInOrder, n
    <3>2. CASE j = n + 1 /\ q[j] = c
      <4>1. i \in 1..n /\ q[i] = tc[i]
        BY <1>1, <1>2, <2>3, <3>2
      <4> QED
        BY <2>2, <2>3, <3>2, <4>1 DEF cc
    <3>3. CASE j = n + 2 /\ q[j] = d
      <4>1. (i \in 1..n /\ q[i] = tc[i]) \/ q[i] = c
        BY <1>1, <1>2, <2>3, <3>3
      <4> QED
        BY <2>1, <2>2, <2>3, <3>3, <4>1 DEF cc, dd
    <3> QED
      BY <1>2, <3>1, <3>2, <3>3
  <2>4. ASSUME NEW i \in 1..Len(tp), NEW j \in 1..Len(q), TellsRead(tp[i], v), IsRead(q[j], v)
        PROVE  Place(tp[i].call) < Place(q[j])
    <3>1. CASE j \in 1..n /\ q[j] = tc[j]
      BY <2>4, <3>1 DEF ReadsInOrder, n
    <3>2. CASE q[j] = c
      BY <2>2, <2>4, <3>2 DEF cc
    <3>3. CASE q[j] = d
      BY <2>2, <2>4, <3>3 DEF dd
    <3> QED
      BY <1>2, <3>1, <3>2, <3>3
  <2>5. ASSUME l2.half # <<>>
        PROVE  /\ l2.half[1].seq \in 0..l2.seq
               /\ \A i \in 1..Len(tp) : TellsRead(tp[i], v) => 2 * l2.half[1].seq < Place(tp[i].call)
               /\ \A j \in 1..Len(q) : IsRead(q[j], v) => 2 * l2.half[1].seq < Place(q[j])
    <3>1. /\ l.half[1].seq \in 0..l.seq
          /\ \A i \in 1..Len(tp) : TellsRead(tp[i], v) => 2 * l.half[1].seq < Place(tp[i].call)
          /\ \A j \in 1..n : IsRead(tc[j], v) => 2 * l.half[1].seq < Place(tc[j])
      BY <2>5 DEF ReadsInOrder, n
    <3>2. l2.half[1].seq \in 0..l2.seq
      BY <3>1
    <3> DEFINE h == 2 * l.half[1].seq
    <3>3. h \in Int /\ h < at
      BY <3>1 DEF at
    <3> HIDE DEF h
    <3>4. h < cc /\ h < dd
      BY <2>1, <3>3
    <3>5. \A j \in 1..n : IsRead(tc[j], v) => h < Place(tc[j])
      BY <3>1 DEF h
    <3>6. \A j \in 1..Len(q) : IsRead(q[j], v) => h < Place(q[j])
      BY <1>2, <3>4, <3>5 DEF cc, dd
    <3> QED
      BY <3>1, <3>2, <3>6 DEF h
  <2> QED
    BY <2>3, <2>4, <2>5 DEF ReadsInOrder
<1>11. Paired(q, tp, v, l2)
  <2>1. ~IsNew(c, v, new, "waveSlots") /\ ~IsNew(d, v, new, "incomingWaves")
    BY DEF IsNew
  <2>2. (n + 1) + 1 = n + 2 /\ (n + 2) - 1 = n + 1
    BY <1>1
  <2>3. ASSUME NEW i \in 1..Len(q), IsNew(q[i], v, new, "incomingWaves")
        PROVE  i + 1 \in 1..Len(q) /\ IsNew(q[i + 1], v, new, "waveSlots") /\ ~q[i + 1].over
    <3>1. i = n + 1
      BY <1>2, <1>6, <2>1, <2>3
    <3> QED
      BY <1>1, <2>2, <3>1
  <2>4. ASSUME NEW i \in 1..Len(q), IsNew(q[i], v, new, "waveSlots")
        PROVE  i - 1 \in 1..Len(q) /\ IsNew(q[i - 1], v, new, "incomingWaves") /\ ~q[i - 1].over
    <3>1. i = n + 2
      BY <1>2, <1>6, <2>1, <2>4
    <3> QED
      BY <1>1, <2>2, <3>1
  <2>5. l2.seq = new
    OBVIOUS
  <2> HIDE DEF new
  <2> QED
    BY <1>6, <2>3, <2>4, <2>5 DEF Paired
<1>12. OneMoment(tp, v, l2, now)
  BY <1>6 DEF OneMoment, FirstsMoment, HalfMoment
<1>13. WavesShown(q, tp, v, l2, now)
  <2>1. Cleared(tc, v) => Cleared(q, v)
    BY <1>2 DEF Cleared, IsNew, n
  <2>2. ToRenew(q, tp, v, l2)
    BY <1>1 DEF ToRenew, Renews, IsNew
  <2> QED
    BY <2>1, <2>2 DEF WavesShown
<1> QED
  BY <1>10, <1>11, <1>12, <1>13 DEF WavesFlow, q

LEMMA OrderHears ==
  ASSUME NEW tc, NEW tp, NEW v, NEW l, ReadsInOrder(tc, tp, v, l), IsSeq(tp), tp # <<>>
  PROVE  ReadsInOrder(tc, Tail(tp), v, l)
<1> DEFINE q == Tail(tp)
<1>1. /\ Len(tp) \in Nat \ {0} /\ Len(q) = Len(tp) - 1 /\ \A i \in 1..Len(q) : i + 1 \in 1..Len(tp) /\ q[i] = tp[i + 1]
  BY SeqTail
<1> HIDE DEF q
<1>2. \A i, j \in 1..Len(q) : i < j => i + 1 < j + 1
  BY <1>1
<1>3. ReadsInOrder(tc, q, v, l)
  BY <1>1, <1>2 DEF ReadsInOrder
<1> QED
  BY <1>3 DEF q

\* A part of what was told is kept while the first of it is heard.
LEMMA MomentHears ==
  ASSUME NEW tc, NEW tp, NEW v, NEW l, NEW now, OneMoment(tp, v, l, now), IsSeq(tp), tp # <<>>
  PROVE  /\ FirstsMoment(Tail(tp), v, l.seq, now)
         /\ Half(l, l.seq) /\ Head(tp).type # "wave-updated" => HalfMoment(Tail(tp), v, l.seq, l.half[1].told, now)
<1> DEFINE q == Tail(tp)
<1>1. /\ Len(tp) \in Nat \ {0} /\ Len(q) = Len(tp) - 1 /\ \A i \in 1..Len(q) : i + 1 \in 1..Len(tp) /\ q[i] = tp[i + 1]
      /\ Head(tp) = tp[1]
  BY SeqTail
<1>2. /\ \A x : \A k \in Nat : Recent(x, now, tp, k + 1, "wave-updated") => Recent(x, now, q, k, "wave-updated")
      /\ \A x : Recent(x, now, tp, 0, "wave-updated") /\ Head(tp).type # "wave-updated" => Recent(x, now, q, 0, "wave-updated")
  BY RecentTail
<1> HIDE DEF q
<1>3. \A i \in 1..Len(tp) : i # 1 => i - 1 \in 1..Len(q) /\ q[i - 1] = tp[i]
  <2> SUFFICES ASSUME NEW i \in 1..Len(tp), i # 1
               PROVE  i - 1 \in 1..Len(q) /\ q[i - 1] = tp[i]
    OBVIOUS
  <2>1. i - 1 \in 1..Len(q) /\ (i - 1) + 1 = i
    BY <1>1
  <2> QED
    BY <1>1, <2>1
<1>4. ASSUME NEW i \in 1..Len(q), TellsNew(q[i], v, l.seq, "incomingWaves")
      PROVE  /\ Recent(q[i].told[1], now, q, i, "wave-updated")
             /\ \A k \in 1..Len(q) : TellsNew(q[k], v, l.seq, "waveSlots") =>
                  q[k].told[1] = q[i].told[1] \/ \E j \in 1..Len(q) : i < j /\ j < k /\ q[j].type = "wave-updated"
  <2>1. /\ Recent(tp[i + 1].told[1], now, tp, i + 1, "wave-updated")
        /\ \A k \in 1..Len(tp) : TellsNew(tp[k], v, l.seq, "waveSlots") =>
             tp[k].told[1] = tp[i + 1].told[1] \/ \E j \in 1..Len(tp) : i + 1 < j /\ j < k /\ tp[j].type = "wave-updated"
    BY <1>1, <1>4 DEF OneMoment, FirstsMoment, HalfMoment
  <2>2. i \in Nat
    BY <1>1
  <2>3. Recent(q[i].told[1], now, q, i, "wave-updated")
    BY <1>1, <1>2, <2>1, <2>2
  <2>4. ASSUME NEW k \in 1..Len(q), TellsNew(q[k], v, l.seq, "waveSlots")
        PROVE  q[k].told[1] = q[i].told[1] \/ \E j \in 1..Len(q) : i < j /\ j < k /\ q[j].type = "wave-updated"
    <3>1. tp[k + 1].told[1] = tp[i + 1].told[1] \/ \E j \in 1..Len(tp) : i + 1 < j /\ j < k + 1 /\ tp[j].type = "wave-updated"
      BY <1>1, <2>1, <2>4
    <3>2. ASSUME NEW j \in 1..Len(tp), i + 1 < j, j < k + 1, tp[j].type = "wave-updated"
          PROVE  \E h \in 1..Len(q) : i < h /\ h < k /\ q[h].type = "wave-updated"
      <4>1. j # 1 /\ i < j - 1 /\ j - 1 < k
        BY <1>1, <2>2, <3>2
      <4>2. j - 1 \in 1..Len(q) /\ q[j - 1].type = "wave-updated"
        BY <1>3, <3>2, <4>1
      <4> QED
        BY <4>1, <4>2
    <3> QED
      BY <1>1, <3>1, <3>2
  <2> QED
    BY <2>3, <2>4
<1>5. ASSUME Half(l, l.seq), Head(tp).type # "wave-updated"
      PROVE  /\ Recent(l.half[1].told, now, q, 0, "wave-updated")
             /\ \A k \in 1..Len(q) : TellsNew(q[k], v, l.seq, "waveSlots") =>
                  q[k].told[1] = l.half[1].told \/ \E j \in 1..Len(q) : j < k /\ q[j].type = "wave-updated"
  <2>1. /\ Recent(l.half[1].told, now, tp, 0, "wave-updated")
        /\ \A k \in 1..Len(tp) : TellsNew(tp[k], v, l.seq, "waveSlots") =>
             tp[k].told[1] = l.half[1].told \/ \E j \in 1..Len(tp) : j < k /\ tp[j].type = "wave-updated"
    BY <1>5 DEF OneMoment, FirstsMoment, HalfMoment
  <2>2. Recent(l.half[1].told, now, q, 0, "wave-updated")
    BY <1>2, <1>5, <2>1
  <2>3. ASSUME NEW k \in 1..Len(q), TellsNew(q[k], v, l.seq, "waveSlots")
        PROVE  q[k].told[1] = l.half[1].told \/ \E j \in 1..Len(q) : j < k /\ q[j].type = "wave-updated"
    <3>1. tp[k + 1].told[1] = l.half[1].told \/ \E j \in 1..Len(tp) : j < k + 1 /\ tp[j].type = "wave-updated"
      BY <1>1, <2>1, <2>3
    <3>2. ASSUME NEW j \in 1..Len(tp), j < k + 1, tp[j].type = "wave-updated"
          PROVE  \E h \in 1..Len(q) : h < k /\ q[h].type = "wave-updated"
      <4>1. j # 1
        BY <1>1, <1>5, <3>2
      <4>2. j - 1 \in 1..Len(q) /\ q[j - 1].type = "wave-updated"
        BY <1>3, <3>2, <4>1
      <4>3. j - 1 < k
        BY <1>1, <3>2
      <4> QED
        BY <4>2, <4>3
    <3> QED
      BY <1>1, <3>1, <3>2
  <2> QED
    BY <2>2, <2>3
<1> QED
  BY <1>4, <1>5 DEF FirstsMoment, HalfMoment, q

\* What is heard neither renews a list without an error nor belongs to a read.
LEMMA OthersFlow ==
  ASSUME NEW tc, NEW tp, NEW v, NEW l, NEW now, WavesFlow(tc, tp, v, l, now), IsSeq(tp), tp # <<>>,
         Head(tp).type # "wave-updated",
         Head(tp).type = "reply" => /\ ~IsNew(Head(tp).call, v, l.seq, "incomingWaves")
                                    /\ l.error \/ ~Renews(Head(tp).call, v, l.seq)
  PROVE  WavesFlow(tc, Tail(tp), v, l, now)
<1> DEFINE q == Tail(tp)
<1>1. /\ Len(tp) \in Nat \ {0} /\ Len(q) = Len(tp) - 1 /\ \A i \in 1..Len(q) : i + 1 \in 1..Len(tp) /\ q[i] = tp[i + 1]
      /\ Head(tp) = tp[1]
  BY SeqTail
<1>2. ReadsInOrder(tc, q, v, l)
  BY OrderHears DEF WavesFlow
<1>3. OneMoment(q, v, l, now)
  <2>1. OneMoment(tp, v, l, now)
    BY DEF WavesFlow
  <2> QED
    BY <2>1, MomentHears DEF OneMoment
<1>4. \A x : Recent(x, now, tp, 0, "wave-updated") => Recent(x, now, q, 0, "wave-updated")
  BY RecentTail
<1> HIDE DEF q
<1>5. \A i \in 1..Len(tp) : i # 1 => i - 1 \in 1..Len(q) /\ q[i - 1] = tp[i]
  <2> SUFFICES ASSUME NEW i \in 1..Len(tp), i # 1
               PROVE  i - 1 \in 1..Len(q) /\ q[i - 1] = tp[i]
    OBVIOUS
  <2>1. i - 1 \in 1..Len(q) /\ (i - 1) + 1 = i
    BY <1>1
  <2> QED
    BY <1>1, <2>1
<1>6. HalfCame(tp, v, l) => HalfCame(q, v, l)
  <2>1. \A i \in 1..Len(tp) : TellsNew(tp[i], v, l.seq, "incomingWaves") => i # 1
    BY <1>1 DEF TellsNew
  <2> QED
    BY <1>5, <2>1 DEF HalfCame
<1>7. Paired(tc, q, v, l)
  BY <1>1, <1>6 DEF WavesFlow, Paired
<1>8. ~l.error /\ ToRenew(tc, tp, v, l) => ToRenew(tc, q, v, l)
  <2>1. ~l.error => \A i \in 1..Len(tp) : tp[i].type = "reply" /\ Renews(tp[i].call, v, l.seq) => i # 1
    BY <1>1
  <2> QED
    BY <1>5, <2>1 DEF ToRenew
<1>9. WavesShown(tc, q, v, l, now)
  BY <1>4, <1>8 DEF WavesFlow, WavesShown
<1> QED
  BY <1>2, <1>3, <1>7, <1>9 DEF WavesFlow, q

\* The first read of a load is heard.
LEMMA FirstFlows ==
  ASSUME NEW tc, NEW tp, NEW v, NEW l, NEW now, WavesFlow(tc, tp, v, l, now), IsSeq(tp), tp # <<>>, l.seq \in Nat,
         NEW c, Head(tp).type = "reply", Head(tp).call = c, c.visit = v, c.op = "incomingWaves", c.for # "act", c.seq \in 0..l.seq,
         Cleared(tc, v),
         NEW l2, l2.seq = l.seq, l2.half # <<>>, l2.half[1].seq = c.seq, l2.half[1].told = Head(tp).told[1],
         l2.shown = l.shown, l2.loaded = l.loaded, l2.error = l.error
  PROVE  WavesFlow(tc, Tail(tp), v, l2, now)
<1> DEFINE q == Tail(tp)
<1>1. /\ Len(tp) \in Nat \ {0} /\ Len(q) = Len(tp) - 1 /\ \A i \in 1..Len(q) : i + 1 \in 1..Len(tp) /\ q[i] = tp[i + 1]
      /\ Head(tp) = tp[1] /\ 1 \in 1..Len(tp) /\ \A i \in 1..Len(q) : 1 < i + 1
  <2>1. /\ Len(tp) \in Nat \ {0} /\ Len(q) = Len(tp) - 1 /\ \A i \in 1..Len(q) : i + 1 \in 1..Len(tp) /\ q[i] = tp[i + 1]
        /\ Head(tp) = tp[1] /\ 1 \in 1..Len(tp)
    BY SeqTail
  <2> HIDE DEF q
  <2> QED
    BY <2>1
<1>2. ReadsInOrder(tc, q, v, l) /\ ReadsInOrder(tc, tp, v, l) /\ Paired(tc, tp, v, l) /\ OneMoment(tp, v, l, now)
  BY OrderHears DEF WavesFlow
<1>3. /\ \A x : \A k \in Nat : Recent(x, now, tp, k + 1, "wave-updated") => Recent(x, now, q, k, "wave-updated")
      /\ \A x : Recent(x, now, tp, 0, "wave-updated") => Recent(x, now, q, 0, "wave-updated")
  BY RecentTail
<1>4. FirstsMoment(q, v, l.seq, now)
  BY <1>2, MomentHears
<1> HIDE DEF q
<1>5. \A i \in 1..Len(tp) : i # 1 => i - 1 \in 1..Len(q) /\ q[i - 1] = tp[i]
  <2> SUFFICES ASSUME NEW i \in 1..Len(tp), i # 1
               PROVE  i - 1 \in 1..Len(q) /\ q[i - 1] = tp[i]
    OBVIOUS
  <2>1. i - 1 \in 1..Len(q) /\ (i - 1) + 1 = i
    BY <1>1
  <2> QED
    BY <1>1, <2>1
<1>6. TellsRead(tp[1], v) /\ Place(tp[1].call) = 2 * c.seq
  <2>1. Place(c) = 2 * c.seq + 0
    BY DEF Place
  <2>2. 2 * c.seq + 0 = 2 * c.seq
    OBVIOUS
  <2> QED
    BY <1>1, <2>1, <2>2 DEF TellsRead, IsRead, L!WaveReads
<1>7. ReadsInOrder(tc, q, v, l2)
  <2> DEFINE h == 2 * c.seq
  <2>1. /\ \A i \in 1..Len(q) : TellsRead(q[i], v) => h < Place(q[i].call)
        /\ \A j \in 1..Len(tc) : IsRead(tc[j], v) => h < Place(tc[j])
    BY <1>1, <1>2, <1>6 DEF ReadsInOrder
  <2> HIDE DEF h
  <2>2. 2 * l2.half[1].seq = h
    BY DEF h
  <2> QED
    BY <1>2, <2>1, <2>2 DEF ReadsInOrder
<1>8. HalfCame(tp, v, l) => HalfCame(q, v, l2)
  <2>1. CASE Half(l, l.seq)
    <3>1. 2 * l.seq < 2 * c.seq
      BY <1>1, <1>2, <1>6, <2>1 DEF Half, ReadsInOrder
    <3> QED
      BY <3>1
  <2>2. ASSUME NEW i \in 1..Len(tp), TellsNew(tp[i], v, l.seq, "incomingWaves")
        PROVE  HalfCame(q, v, l2)
    <3>1. CASE i = 1
      BY <1>1, <2>2, <3>1 DEF HalfCame, Half, TellsNew, IsNew
    <3>2. CASE i # 1
      BY <1>5, <2>2, <3>2 DEF HalfCame
    <3> QED
      BY <3>1, <3>2
  <2> QED
    BY <2>1, <2>2 DEF HalfCame
<1>9. Paired(tc, q, v, l2)
  <2>1. \A i \in 1..Len(q) : TellsNew(q[i], v, l2.seq, "waveSlots") => HalfCame(q, v, l2)
    BY <1>1, <1>2, <1>8 DEF Paired
  <2> QED
    BY <1>2, <1>8, <2>1 DEF Paired
<1>10. OneMoment(q, v, l2, now)
  <2>1. ASSUME Half(l2, l.seq)
        PROVE  /\ Recent(l2.half[1].told, now, q, 0, "wave-updated")
               /\ \A k \in 1..Len(q) : TellsNew(q[k], v, l.seq, "waveSlots") =>
                    q[k].told[1] = l2.half[1].told \/ \E j \in 1..Len(q) : j < k /\ q[j].type = "wave-updated"
    <3>1. TellsNew(tp[1], v, l.seq, "incomingWaves") /\ l2.half[1].told = tp[1].told[1]
      BY <1>1, <2>1 DEF Half, TellsNew, IsNew
    <3>2. /\ Recent(tp[1].told[1], now, tp, 1, "wave-updated")
          /\ \A k \in 1..Len(tp) : TellsNew(tp[k], v, l.seq, "waveSlots") =>
               tp[k].told[1] = tp[1].told[1] \/ \E j \in 1..Len(tp) : 1 < j /\ j < k /\ tp[j].type = "wave-updated"
      BY <1>1, <1>2, <3>1 DEF OneMoment, FirstsMoment, HalfMoment
    <3>3. Recent(l2.half[1].told, now, q, 0, "wave-updated")
      <4>1. 0 \in Nat /\ 0 + 1 = 1
        OBVIOUS
      <4>2. Recent(tp[1].told[1], now, tp, 0 + 1, "wave-updated")
        BY <3>2, <4>1
      <4> QED
        BY <1>3, <3>1, <4>1, <4>2
    <3>4. ASSUME NEW k \in 1..Len(q), TellsNew(q[k], v, l.seq, "waveSlots")
          PROVE  q[k].told[1] = l2.half[1].told \/ \E j \in 1..Len(q) : j < k /\ q[j].type = "wave-updated"
      <4>1. tp[k + 1].told[1] = tp[1].told[1] \/ \E j \in 1..Len(tp) : 1 < j /\ j < k + 1 /\ tp[j].type = "wave-updated"
        BY <1>1, <3>2, <3>4
      <4>2. ASSUME NEW j \in 1..Len(tp), 1 < j, j < k + 1, tp[j].type = "wave-updated"
            PROVE  \E h \in 1..Len(q) : h < k /\ q[h].type = "wave-updated"
        <5>1. j # 1 /\ j - 1 < k
          BY <1>1, <4>2
        <5>2. j - 1 \in 1..Len(q) /\ q[j - 1].type = "wave-updated"
          BY <1>5, <4>2, <5>1
        <5> QED
          BY <5>1, <5>2
      <4> QED
        BY <1>1, <3>1, <4>1, <4>2
    <3> QED
      BY <3>3, <3>4
  <2> QED
    BY <1>4, <2>1 DEF OneMoment, HalfMoment
<1>11. ToRenew(tc, tp, v, l) => ToRenew(tc, q, v, l2)
  <2>1. \A i \in 1..Len(tp) : tp[i].type = "reply" /\ Renews(tp[i].call, v, l.seq) => i # 1
    BY <1>1 DEF Renews, IsNew
  <2> QED
    BY <1>5, <2>1 DEF ToRenew
<1>12. WavesShown(tc, q, v, l2, now)
  BY <1>3, <1>11 DEF WavesFlow, WavesShown
<1> QED
  BY <1>7, <1>9, <1>10, <1>12 DEF WavesFlow, q

\* The last read of a load is heard, and nothing of that load comes after it.
LEMMA LastOfLoad ==
  ASSUME NEW tc, NEW tp, NEW v, NEW l, ReadsInOrder(tc, tp, v, l), IsSeq(tp), tp # <<>>,
         NEW c, Head(tp).type = "reply", Head(tp).call = c, c.visit = v, c.op = "waveSlots", c.seq \in Nat
  PROVE  /\ \A i \in 1..Len(tp) : i # 1 => ~TellsNew(tp[i], v, c.seq, "incomingWaves") /\ ~TellsNew(tp[i], v, c.seq, "waveSlots")
         /\ \A i \in 1..Len(tc) : ~IsNew(tc[i], v, c.seq, "incomingWaves") /\ ~IsNew(tc[i], v, c.seq, "waveSlots")
         /\ ~TellsNew(tp[1], v, c.seq, "incomingWaves")
<1>1. Head(tp) = tp[1] /\ 1 \in 1..Len(tp) /\ Len(tp) \in Nat \ {0}
  BY SeqTail
<1> DEFINE at == 2 * c.seq + 1
<1>2. at \in Nat /\ TellsRead(tp[1], v) /\ Place(tp[1].call) = at
  BY <1>1 DEF Place, TellsRead, IsRead, L!WaveReads
<1>3. \A d : d.seq = c.seq => Place(d) <= at
  BY DEF Place
<1>4. /\ \A d : IsNew(d, v, c.seq, "incomingWaves") \/ IsNew(d, v, c.seq, "waveSlots") => IsRead(d, v) /\ d.seq = c.seq
      /\ \A d : d.seq = c.seq => Place(d) \in Nat
  BY DEF IsNew, IsRead, L!WaveReads, Place
<1> HIDE DEF at
<1>5. ASSUME NEW i \in 1..Len(tp), i # 1, TellsNew(tp[i], v, c.seq, "incomingWaves") \/ TellsNew(tp[i], v, c.seq, "waveSlots")
      PROVE  FALSE
  <2>1. TellsRead(tp[i], v) /\ tp[i].call.seq = c.seq
    BY <1>4, <1>5 DEF TellsNew, TellsRead
  <2>2. 1 < i
    BY <1>1, <1>5
  <2>3. at < Place(tp[i].call)
    BY <1>1, <1>2, <2>1, <2>2 DEF ReadsInOrder
  <2> QED
    BY <1>2, <1>3, <1>4, <2>1, <2>3
<1>6. ASSUME NEW i \in 1..Len(tc), IsNew(tc[i], v, c.seq, "incomingWaves") \/ IsNew(tc[i], v, c.seq, "waveSlots")
      PROVE  FALSE
  <2>1. IsRead(tc[i], v) /\ tc[i].seq = c.seq
    BY <1>4, <1>6
  <2>2. at < Place(tc[i])
    BY <1>1, <1>2, <2>1 DEF ReadsInOrder
  <2> QED
    BY <1>2, <1>3, <1>4, <2>1, <2>2
<1>7. ~TellsNew(tp[1], v, c.seq, "incomingWaves")
  BY <1>1 DEF TellsNew, IsNew
<1> QED
  BY <1>5, <1>6, <1>7

\* A second read without its first is of no load that counts.
LEMMA SecondAloneFlows ==
  ASSUME NEW tc, NEW tp, NEW v, NEW l, NEW now, WavesFlow(tc, tp, v, l, now), IsSeq(tp), tp # <<>>,
         NEW c, Head(tp).type = "reply", Head(tp).call = c, c.visit = v, c.op = "waveSlots", c.for # "act", c.seq \in Nat,
         ~Half(l, c.seq)
  PROVE  WavesFlow(tc, Tail(tp), v, l, now)
<1>1. Head(tp) = tp[1] /\ 1 \in 1..Len(tp)
  BY SeqTail
<1>2. c.seq # l.seq
  <2> SUFFICES ASSUME c.seq = l.seq
               PROVE  FALSE
    OBVIOUS
  <2>1. TellsNew(tp[1], v, l.seq, "waveSlots")
    BY <1>1 DEF TellsNew, IsNew
  <2>2. HalfCame(tp, v, l)
    BY <1>1, <2>1 DEF WavesFlow, Paired
  <2>3. ReadsInOrder(tc, tp, v, l)
    BY DEF WavesFlow
  <2>4. \A i \in 1..Len(tp) : ~TellsNew(tp[i], v, c.seq, "incomingWaves")
    BY <2>3, LastOfLoad
  <2> QED
    BY <2>2, <2>4 DEF HalfCame
<1>3. ~IsNew(c, v, l.seq, "incomingWaves") /\ ~Renews(c, v, l.seq)
  BY <1>2 DEF IsNew, Renews
<1> QED
  BY <1>3, OthersFlow

\* The second read of an earlier load takes the first of it along.
LEMMA EarlierFlows ==
  ASSUME NEW tc, NEW tp, NEW v, NEW l, NEW now, WavesFlow(tc, tp, v, l, now), IsSeq(tp), tp # <<>>,
         NEW c, Head(tp).type = "reply", Head(tp).call = c, c.visit = v, c.op = "waveSlots", c.for # "act", c.seq # l.seq,
         Half(l, c.seq),
         NEW l2, l2.seq = l.seq, l2.half = <<>>, l2.shown = l.shown, l2.loaded = l.loaded, l2.error = l.error
  PROVE  WavesFlow(tc, Tail(tp), v, l2, now)
<1> DEFINE q == Tail(tp)
<1>1. ~IsNew(c, v, l.seq, "incomingWaves") /\ ~Renews(c, v, l.seq)
  BY DEF IsNew, Renews
<1>2. WavesFlow(tc, q, v, l, now)
  BY <1>1, OthersFlow
<1> HIDE DEF q
<1>3. ~Half(l, l.seq) /\ ~Half(l2, l.seq)
  BY DEF Half
<1>4. ReadsInOrder(tc, q, v, l2)
  BY <1>2 DEF WavesFlow, ReadsInOrder
<1>5. HalfCame(q, v, l) => HalfCame(q, v, l2)
  BY <1>3 DEF HalfCame
<1>6. Paired(tc, q, v, l2)
  BY <1>2, <1>5 DEF WavesFlow, Paired
<1>7. OneMoment(q, v, l2, now)
  BY <1>2, <1>3 DEF WavesFlow, OneMoment
<1>8. ToRenew(tc, q, v, l) => ToRenew(tc, q, v, l2)
  BY DEF ToRenew
<1>9. WavesShown(tc, q, v, l2, now)
  BY <1>2, <1>8 DEF WavesFlow, WavesShown
<1> QED
  BY <1>4, <1>6, <1>7, <1>9 DEF WavesFlow, q

\* A load is complete, and shown.
LEMMA LoadedFlows ==
  ASSUME NEW tc, NEW tp, NEW v, NEW l, NEW now, WavesFlow(tc, tp, v, l, now), IsSeq(tp), tp # <<>>,
         NEW c, Head(tp).type = "reply", Head(tp).call = c, c.visit = v, c.op = "waveSlots", c.seq = l.seq, l.seq \in Nat,
         Half(l, c.seq),
         NEW l2, l2.seq = l.seq, l2.half = <<>>, l2.shown[1].first = l.half[1].told, l2.shown[1].second = Head(tp).told[1]
  PROVE  WavesFlow(tc, Tail(tp), v, l2, now)
<1> DEFINE q == Tail(tp)
<1>1. /\ Len(tp) \in Nat \ {0} /\ Len(q) = Len(tp) - 1 /\ \A i \in 1..Len(q) : i + 1 \in 1..Len(tp) /\ q[i] = tp[i + 1]
      /\ Head(tp) = tp[1] /\ 1 \in 1..Len(tp)
  BY SeqTail
<1>2. ReadsInOrder(tc, q, v, l) /\ ReadsInOrder(tc, tp, v, l)
  BY OrderHears DEF WavesFlow
<1>3. Recent(l.half[1].told, now, tp, 0, "wave-updated") => Recent(l.half[1].told, now, q, 0, "wave-updated")
  BY RecentTail
<1> HIDE DEF q
<1>4. /\ \A i \in 1..Len(tp) : i # 1 => ~TellsNew(tp[i], v, c.seq, "incomingWaves") /\ ~TellsNew(tp[i], v, c.seq, "waveSlots")
      /\ \A i \in 1..Len(tc) : ~IsNew(tc[i], v, c.seq, "incomingWaves") /\ ~IsNew(tc[i], v, c.seq, "waveSlots")
  BY <1>2, LastOfLoad
<1>5. \A i \in 1..Len(q) : ~TellsNew(q[i], v, c.seq, "incomingWaves") /\ ~TellsNew(q[i], v, c.seq, "waveSlots")
  <2>1. \A i \in 1..Len(q) : i + 1 \in 1..Len(tp) /\ i + 1 # 1 /\ q[i] = tp[i + 1]
    BY <1>1
  <2> QED
    BY <1>4, <2>1
<1>6. ReadsInOrder(tc, q, v, l2)
  BY <1>2 DEF ReadsInOrder
<1>7. Paired(tc, q, v, l2)
  BY <1>4, <1>5 DEF Paired
<1>8. OneMoment(q, v, l2, now)
  BY <1>5 DEF OneMoment, FirstsMoment, Half
<1>9. HalfMoment(tp, v, l.seq, l.half[1].told, now)
  BY DEF WavesFlow, OneMoment
<1>10. tp[1].told[1] = l.half[1].told
  <2>1. TellsNew(tp[1], v, l.seq, "waveSlots")
    BY <1>1 DEF TellsNew, IsNew
  <2>2. \A j \in 1..Len(tp) : ~(j < 1)
    BY <1>1
  <2> QED
    BY <1>1, <1>9, <2>1, <2>2 DEF HalfMoment
<1>11. Cleared(tc, v)
  BY DEF WavesFlow, WavesShown, Half
<1>12. WavesShown(tc, q, v, l2, now)
  BY <1>1, <1>3, <1>9, <1>10, <1>11 DEF WavesShown, HalfMoment
<1> QED
  BY <1>6, <1>7, <1>8, <1>12 DEF WavesFlow, q

\* Call i of tc takes too long, and with it its load.
Overdue(tc, i, tc2) ==
  /\ Len(tc2) = Len(tc)
  /\ \A j \in 1..Len(tc) : /\ tc2[j].op = tc[j].op /\ tc2[j].for = tc[j].for /\ tc2[j].seq = tc[j].seq /\ tc2[j].visit = tc[j].visit
                           /\ tc2[j].over <=> tc[j].over \/ L!SameLoad(tc[j], tc[i])
ReadsAreNoActs(tc, v) == \A j \in 1..Len(tc) : IsRead(tc[j], v) => tc[j].for # "act"

\* A call takes too long: with it goes its load, and the list says that it failed.
LEMMA OverdueFlows ==
  ASSUME NEW tc, NEW tp, NEW v, NEW l, NEW now, WavesFlow(tc, tp, v, l, now), NEW tc2, Len(tc) \in Nat,
         NEW i \in 1..Len(tc), tc[i].visit = v, ReadsAreNoActs(tc, v), Overdue(tc, i, tc2),
         NEW l2, l2.seq = l.seq, l2.half = l.half, l2.shown = l.shown, l2.loaded = l.loaded,
         ~l2.error => ~l.error /\ tc[i].for # "act" /\ ~(tc[i].op \in L!WaveReads /\ tc[i].seq = l.seq)
  PROVE  WavesFlow(tc2, tp, v, l2, now)
<1>0. /\ Len(tc2) = Len(tc)
      /\ \A j \in 1..Len(tc) : /\ tc2[j].op = tc[j].op /\ tc2[j].for = tc[j].for /\ tc2[j].seq = tc[j].seq /\ tc2[j].visit = tc[j].visit
                               /\ tc2[j].over <=> tc[j].over \/ L!SameLoad(tc[j], tc[i])
      /\ \A j \in 1..Len(tc) : IsRead(tc[j], v) => tc[j].for # "act"
  BY DEF Overdue, ReadsAreNoActs
<1>1. \A j \in 1..Len(tc) : /\ IsRead(tc2[j], v) <=> IsRead(tc[j], v)
                            /\ Place(tc2[j]) = Place(tc[j])
                            /\ \A n, op : IsNew(tc2[j], v, n, op) <=> IsNew(tc[j], v, n, op)
                            /\ \A n : Renews(tc2[j], v, n) <=> Renews(tc[j], v, n)
  BY <1>0 DEF IsRead, Place, IsNew, Renews
<1>2. ReadsInOrder(tc, tp, v, l) /\ Paired(tc, tp, v, l)
  BY DEF WavesFlow
<1>3. ReadsInOrder(tc2, tp, v, l2)
  BY <1>0, <1>1, <1>2 DEF ReadsInOrder
<1>4. HalfCame(tp, v, l2) <=> HalfCame(tp, v, l)
  BY DEF HalfCame, Half
\* The two reads of the last load time out together.
<1>5. ASSUME NEW j \in 1..Len(tc), NEW k \in 1..Len(tc), IsNew(tc[j], v, l.seq, "incomingWaves") \/ IsNew(tc[j], v, l.seq, "waveSlots"),
             IsNew(tc[k], v, l.seq, "incomingWaves") \/ IsNew(tc[k], v, l.seq, "waveSlots"), L!SameLoad(tc[k], tc[i])
      PROVE  L!SameLoad(tc[j], tc[i])
  BY <1>5 DEF L!SameLoad, IsNew, L!WaveReads
<1>6. Paired(tc2, tp, v, l2)
  <2>1. ASSUME NEW j \in 1..Len(tc), IsNew(tc2[j], v, l.seq, "incomingWaves") /\ ~tc2[j].over
        PROVE  j + 1 \in 1..Len(tc) /\ IsNew(tc2[j + 1], v, l.seq, "waveSlots") /\ ~tc2[j + 1].over
    <3>1. IsNew(tc[j], v, l.seq, "incomingWaves") /\ ~tc[j].over /\ ~L!SameLoad(tc[j], tc[i])
      BY <1>0, <1>1, <2>1
    <3>2. j + 1 \in 1..Len(tc) /\ IsNew(tc[j + 1], v, l.seq, "waveSlots") /\ ~tc[j + 1].over
      BY <1>2, <3>1 DEF Paired
    <3> QED
      BY <1>0, <1>1, <1>5, <3>1, <3>2
  <2>2. ASSUME NEW j \in 1..Len(tc), IsNew(tc2[j], v, l.seq, "waveSlots") /\ ~tc2[j].over
        PROVE  \/ j - 1 \in 1..Len(tc) /\ IsNew(tc2[j - 1], v, l.seq, "incomingWaves") /\ ~tc2[j - 1].over
               \/ j = 1 /\ HalfCame(tp, v, l2)
    <3>1. IsNew(tc[j], v, l.seq, "waveSlots") /\ ~tc[j].over /\ ~L!SameLoad(tc[j], tc[i])
      BY <1>0, <1>1, <2>2
    <3>2. \/ j - 1 \in 1..Len(tc) /\ IsNew(tc[j - 1], v, l.seq, "incomingWaves") /\ ~tc[j - 1].over
          \/ j = 1 /\ HalfCame(tp, v, l)
      BY <1>2, <3>1 DEF Paired
    <3> QED
      BY <1>0, <1>1, <1>4, <1>5, <3>1, <3>2
  <2>3. \A j \in 1..Len(tp) : TellsNew(tp[j], v, l.seq, "waveSlots") => HalfCame(tp, v, l2)
    BY <1>2, <1>4 DEF Paired
  <2> QED
    BY <1>0, <2>1, <2>2, <2>3 DEF Paired
<1>7. OneMoment(tp, v, l2, now)
  BY DEF WavesFlow, OneMoment, Half
<1>8. ASSUME ~l2.error
      PROVE  ToRenew(tc, tp, v, l) => ToRenew(tc2, tp, v, l2)
  <2>1. ASSUME NEW j \in 1..Len(tc), Renews(tc[j], v, l.seq) /\ ~tc[j].over
        PROVE  ~L!SameLoad(tc[j], tc[i])
    BY <1>0, <1>8, <2>1 DEF L!SameLoad, Renews, IsNew, IsRead, L!WaveReads
  <2>2. \A j \in 1..Len(tc) : Renews(tc[j], v, l.seq) /\ ~tc[j].over => Renews(tc2[j], v, l.seq) /\ ~tc2[j].over
    BY <1>0, <1>1, <2>1
  <2> QED
    BY <1>0, <2>2 DEF ToRenew
<1>9. Cleared(tc, v) => Cleared(tc2, v)
  BY <1>0 DEF Cleared
<1>10. WavesShown(tc2, tp, v, l2, now)
  BY <1>8, <1>9 DEF WavesFlow, WavesShown
<1> QED
  BY <1>3, <1>6, <1>7, <1>10 DEF WavesFlow

\* The page of the waves is mounted.
LEMMA MountedFlows ==
  ASSUME NEW tc, NEW tp, NEW v, NEW now, IsSeq(tc),
         \A i \in 1..Len(tc) : tc[i].visit # v, \A i \in 1..Len(tp) : tp[i].type = "reply" => tp[i].call.visit # v,
         NEW l2, l2.seq = 1, l2.half = <<>>, l2.shown = <<>>, l2.loaded = FALSE,
         NEW c, IsNew(c, v, 1, "incomingWaves"), ~c.over, NEW d, IsNew(d, v, 1, "waveSlots"), ~d.over
  PROVE  WavesFlow(Append(Append(tc, c), d), tp, v, l2, now)
<1> DEFINE none == [seq |-> 0, half |-> <<>>, shown |-> <<>>, loaded |-> FALSE]
<1>1. none.seq = 0 /\ none.half = <<>> /\ none.shown = <<>> /\ none.loaded = FALSE /\ 0 \in Nat /\ none.seq + 1 = 1
  OBVIOUS
<1> HIDE DEF none
<1>2. ReadsInOrder(tc, tp, v, none)
  BY <1>1 DEF ReadsInOrder, IsRead, TellsRead
<1>3. /\ \A i \in 1..Len(tc) : ~IsRead(tc[i], v)
      /\ \A i \in 1..Len(tp) : ~TellsRead(tp[i], v)
  BY DEF IsRead, TellsRead
<1>4. /\ none.loaded \/ none.half # <<>> => Cleared(tc, v)
      /\ none.shown # <<>> => none.shown[1].first = none.shown[1].second
      /\ \A i \in 1..Len(tc) : IsRead(tc[i], v) => tc[i].seq \in 0..none.seq
      /\ \A i \in 1..Len(tp) : TellsRead(tp[i], v) => tp[i].call.seq \in 0..none.seq
      /\ none.seq \in Nat /\ l2.seq = none.seq + 1 /\ l2.half = none.half /\ l2.shown = none.shown /\ l2.loaded = none.loaded
      /\ IsNew(c, v, none.seq + 1, "incomingWaves") /\ IsNew(d, v, none.seq + 1, "waveSlots")
  BY <1>1, <1>3
<1> QED
  BY <1>2, <1>4, LoadFlows

-----------------------------------------------------------------------------
(* Lists: what contacts and devices are told.                              *)

LEMMA TellAppended ==
  ASSUME NEW tp, IsSeq(tp), NEW m, NEW k, NEW e, NEW now, NEW now2, EventsTell(tp, k, e, now),
         now2 = now \/ m.type = e, m.type = e => m.told = now2
  PROVE  EventsTell(Append(tp, m), k, e, now2)
<1> DEFINE q == Append(tp, m)
<1>1. Len(tp) \in Nat /\ Len(q) = Len(tp) + 1 /\ (\A i \in 1..Len(tp) : q[i] = tp[i]) /\ q[Len(tp) + 1] = m
  BY SeqAppended
<1>2. \A x : \A i \in 0..Len(tp) : Recent(x, now, tp, i, e) => Recent(x, now2, q, i, e)
  BY RecentAppended
<1> HIDE DEF q
<1>3. \A i \in 1..Len(q) : (i \in 1..Len(tp) /\ i \in 0..Len(tp) /\ q[i] = tp[i]) \/ q[i] = m
  <2>1. \A i \in 1..Len(q) : (i \in 1..Len(tp) /\ i \in 0..Len(tp)) \/ i = Len(tp) + 1
    BY <1>1
  <2> QED
    BY <1>1, <2>1
<1>4. EventsTell(q, k, e, now2)
  <2> SUFFICES ASSUME NEW i \in 1..Len(q), i > k, q[i].type = e
               PROVE  Recent(q[i].told, now2, q, i, e)
    BY DEF EventsTell
  <2>1. CASE q[i] = m
    BY <2>1 DEF Recent
  <2>2. CASE i \in 1..Len(tp) /\ i \in 0..Len(tp) /\ q[i] = tp[i]
    <3>1. Recent(tp[i].told, now, tp, i, e)
      BY <2>2 DEF EventsTell
    <3> QED
      BY <1>2, <2>2, <3>1
  <2> QED
    BY <1>3, <2>1, <2>2
<1> QED
  BY <1>4 DEF q

LEMMA TellTail ==
  ASSUME NEW tp, IsSeq(tp), tp # <<>>, NEW e, NEW now
  PROVE  /\ \A k \in Nat : EventsTell(tp, k + 1, e, now) => EventsTell(Tail(tp), k, e, now)
         /\ EventsTell(tp, 0, e, now) => EventsTell(Tail(tp), 0, e, now)
<1> DEFINE q == Tail(tp)
<1>1. /\ Len(tp) \in Nat \ {0} /\ Len(q) = Len(tp) - 1 /\ \A i \in 1..Len(q) : i + 1 \in 1..Len(tp) /\ q[i] = tp[i + 1]
  BY SeqTail
<1>2. \A x : \A k \in Nat : Recent(x, now, tp, k + 1, e) => Recent(x, now, q, k, e)
  BY RecentTail
<1> HIDE DEF q
<1>3. ASSUME NEW k \in Nat, EventsTell(tp, k + 1, e, now)
      PROVE  EventsTell(q, k, e, now)
  <2> SUFFICES ASSUME NEW i \in 1..Len(q), i > k, q[i].type = e
               PROVE  Recent(q[i].told, now, q, i, e)
    BY DEF EventsTell
  <2>1. i \in Nat /\ i + 1 > k + 1
    BY <1>1
  <2>2. Recent(tp[i + 1].told, now, tp, i + 1, e)
    BY <1>1, <1>3, <2>1 DEF EventsTell
  <2> QED
    BY <1>1, <1>2, <2>1, <2>2
<1>4. EventsTell(tp, 0, e, now) => EventsTell(tp, 0 + 1, e, now)
  <2>1. \A i \in 1..Len(tp) : i > 0 + 1 => i > 0
    BY <1>1
  <2> QED
    BY <2>1 DEF EventsTell
<1>5. EventsTell(tp, 0, e, now) => EventsTell(q, 0, e, now)
  BY <1>3, <1>4
<1> QED
  BY <1>3, <1>5 DEF q

\* An event that is heard tells what is so, or another comes after it.
LEMMA EventIsRecent ==
  ASSUME NEW tp, IsSeq(tp), tp # <<>>, NEW e, NEW now, EventsTell(tp, 0, e, now), Head(tp).type = e
  PROVE  Recent(Head(tp).told, now, Tail(tp), 0, e)
<1>1. Head(tp) = tp[1] /\ 1 \in 1..Len(tp) /\ 0 + 1 = 1 /\ 1 > 0 /\ 0 \in Nat
  BY SeqTail
<1>2. Recent(tp[1].told, now, tp, 0 + 1, e)
  BY <1>1 DEF EventsTell
<1> QED
  BY <1>1, <1>2, RecentTail

\* A message is appended, which tells what is so.
LEMMA ContactsAppended ==
  ASSUME NEW tc, NEW tp, NEW v, NEW l, NEW now, NEW now2, ContactsFlow(tc, tp, v, l, now), IsSeq(tp),
         NEW m, now2 = now \/ m.type = "contacts", m.type = "contacts" => m.told = now2,
         m.type = "reply" /\ m.call.visit = v /\ m.call.op = "contacts" => m.told[1] = now2
  PROVE  ContactsFlow(tc, Append(tp, m), v, l, now2)
<1> DEFINE q == Append(tp, m)
<1>1. Len(tp) \in Nat /\ Len(q) = Len(tp) + 1 /\ (\A i \in 1..Len(tp) : q[i] = tp[i]) /\ q[Len(tp) + 1] = m
  BY SeqAppended
<1>2. \A x : \A i \in 0..Len(tp) : Recent(x, now, tp, i, "contacts") => Recent(x, now2, q, i, "contacts")
  BY RecentAppended
<1>3. \A k : EventsTell(tp, k, "contacts", now) => EventsTell(q, k, "contacts", now2)
  BY TellAppended
<1> HIDE DEF q
<1>4. /\ \A i \in 1..Len(q) : (i \in 1..Len(tp) /\ i \in 0..Len(tp) /\ q[i] = tp[i]) \/ (i = Len(tp) + 1 /\ q[i] = m)
      /\ 0 \in 0..Len(tp)
  <2>1. \A i \in 1..Len(q) : (i \in 1..Len(tp) /\ i \in 0..Len(tp)) \/ i = Len(tp) + 1
    BY <1>1
  <2> QED
    BY <1>1, <2>1
<1>5. ASSUME NEW i \in 1..Len(q), q[i].type = "reply", q[i].call.visit = v, q[i].call.op = "contacts"
      PROVE  Recent(q[i].told[1], now2, q, i, "contacts") /\ EventsTell(q, i, "contacts", now2)
  <2>1. CASE i \in 1..Len(tp) /\ i \in 0..Len(tp) /\ q[i] = tp[i]
    BY <1>2, <1>3, <1>5, <2>1 DEF ContactsFlow
  <2>2. CASE i = Len(tp) + 1 /\ q[i] = m
    <3>1. \A j \in 1..Len(q) : ~(j > i)
      BY <1>1, <2>2
    <3> QED
      BY <1>5, <2>2, <3>1 DEF Recent, EventsTell
  <2> QED
    BY <1>4, <2>1, <2>2
<1>6. l.read => Cleared(tc, v) /\ Recent(l.shown[1], now2, q, 0, "contacts") /\ EventsTell(q, 0, "contacts", now2)
  BY <1>2, <1>3, <1>4 DEF ContactsFlow
<1> QED
  BY <1>5, <1>6 DEF ContactsFlow, q

LEMMA ContactsHeard ==
  ASSUME NEW tc, NEW tp, NEW v, NEW l, NEW now, ContactsFlow(tc, tp, v, l, now), IsSeq(tp), tp # <<>>,
         NEW l2,
         \/ l2.read = l.read /\ l2.shown = l.shown /\ Head(tp).type # "contacts"
         \/ l2.read = l.read /\ l2.shown[1] = Head(tp).told /\ Head(tp).type = "contacts"
         \/ /\ l2.shown[1] = Head(tp).told[1] /\ Head(tp).type = "reply" /\ Head(tp).call.visit = v /\ Head(tp).call.op = "contacts"
            /\ Cleared(tc, v)
  PROVE  ContactsFlow(tc, Tail(tp), v, l2, now)
<1> DEFINE q == Tail(tp)
<1>1. /\ Len(tp) \in Nat \ {0} /\ Len(q) = Len(tp) - 1 /\ \A i \in 1..Len(q) : i + 1 \in 1..Len(tp) /\ q[i] = tp[i + 1]
      /\ Head(tp) = tp[1] /\ 1 \in 1..Len(tp) /\ 0 + 1 = 1 /\ 0 \in Nat
  BY SeqTail
<1>2. /\ \A x : \A k \in Nat : Recent(x, now, tp, k + 1, "contacts") => Recent(x, now, q, k, "contacts")
      /\ \A x : Recent(x, now, tp, 0, "contacts") /\ Head(tp).type # "contacts" => Recent(x, now, q, 0, "contacts")
  BY RecentTail
<1>3. /\ \A k \in Nat : EventsTell(tp, k + 1, "contacts", now) => EventsTell(q, k, "contacts", now)
      /\ EventsTell(tp, 0, "contacts", now) => EventsTell(q, 0, "contacts", now)
  BY TellTail
<1>4. EventsTell(tp, 0, "contacts", now) /\ Head(tp).type = "contacts" => Recent(Head(tp).told, now, q, 0, "contacts")
  BY EventIsRecent
<1> HIDE DEF q
<1>5. ASSUME NEW i \in 1..Len(q), q[i].type = "reply", q[i].call.visit = v, q[i].call.op = "contacts"
      PROVE  Recent(q[i].told[1], now, q, i, "contacts") /\ EventsTell(q, i, "contacts", now)
  <2>1. Recent(tp[i + 1].told[1], now, tp, i + 1, "contacts") /\ EventsTell(tp, i + 1, "contacts", now)
    BY <1>1, <1>5 DEF ContactsFlow
  <2>2. i \in Nat
    BY <1>1
  <2> QED
    BY <1>1, <1>2, <1>3, <2>1, <2>2
<1>6. ASSUME l2.read
      PROVE  Cleared(tc, v) /\ Recent(l2.shown[1], now, q, 0, "contacts") /\ EventsTell(q, 0, "contacts", now)
  <2>1. CASE l2.read = l.read /\ l2.shown = l.shown /\ Head(tp).type # "contacts"
    BY <1>2, <1>3, <1>6, <2>1 DEF ContactsFlow
  <2>2. CASE l2.read = l.read /\ l2.shown[1] = Head(tp).told /\ Head(tp).type = "contacts"
    BY <1>3, <1>4, <1>6, <2>2 DEF ContactsFlow
  <2>3. CASE /\ l2.shown[1] = Head(tp).told[1] /\ Head(tp).type = "reply" /\ Head(tp).call.visit = v /\ Head(tp).call.op = "contacts"
             /\ Cleared(tc, v)
    <3>1. Recent(tp[1].told[1], now, tp, 0 + 1, "contacts") /\ EventsTell(tp, 0 + 1, "contacts", now)
      BY <1>1, <2>3 DEF ContactsFlow
    <3> QED
      BY <1>1, <1>2, <1>3, <2>3, <3>1
  <2> QED
    BY <2>1, <2>2, <2>3
<1> QED
  BY <1>5, <1>6 DEF ContactsFlow, q

\* What was told does not count before all calls are of the page.
LEMMA UnclearedContacts ==
  ASSUME NEW tc, NEW tp, NEW v \in Nat, NEW l, NEW now, NEW now2, ContactsFlow(tc, tp, v, l, now), VisitsInOrder(tc, tp),
         \A i \in 1..Len(tc) : tc[i].visit \in Nat /\ tc[i].visit <= v,
         ~Cleared(tc, v)
  PROVE  ContactsFlow(tc, tp, v, l, now2)
<1>1. \A i \in 1..Len(tp) : tp[i].type = "reply" => tp[i].call.visit # v
  <2>1. PICK j \in 1..Len(tc) : tc[j].visit # v
    BY DEF Cleared
  <2>2. tc[j].visit < v
    BY <2>1
  <2> QED
    BY <2>2 DEF VisitsInOrder
<1> QED
  BY <1>1 DEF ContactsFlow

LEMMA DevicesAppended ==
  ASSUME NEW tp, IsSeq(tp), NEW now, NEW now2, DevicesTold(tp, now),
         NEW m, now2 = now \/ m.type = "devices", m.type = "devices" => m.told = now2,
         m.type = "reply" /\ m.call.op = "devices" => m.told[1] = now2
  PROVE  /\ DevicesTold(Append(tp, m), now2)
         /\ \A l : DevicesFlow(tp, l, now) => DevicesFlow(Append(tp, m), l, now2)
<1> DEFINE q == Append(tp, m)
<1>1. Len(tp) \in Nat /\ Len(q) = Len(tp) + 1 /\ (\A i \in 1..Len(tp) : q[i] = tp[i]) /\ q[Len(tp) + 1] = m
  BY SeqAppended
<1>2. \A x : \A i \in 0..Len(tp) : Recent(x, now, tp, i, "devices") => Recent(x, now2, q, i, "devices")
  BY RecentAppended
<1>3. EventsTell(tp, 0, "devices", now) => EventsTell(q, 0, "devices", now2)
  BY TellAppended
<1> HIDE DEF q
<1>4. /\ \A i \in 1..Len(q) : (i \in 1..Len(tp) /\ i \in 0..Len(tp) /\ q[i] = tp[i]) \/ q[i] = m
      /\ 0 \in 0..Len(tp)
  <2>1. \A i \in 1..Len(q) : (i \in 1..Len(tp) /\ i \in 0..Len(tp)) \/ i = Len(tp) + 1
    BY <1>1
  <2>2. 0 \in 0..Len(tp)
    BY <1>1
  <2> QED
    BY <1>1, <2>1, <2>2
<1>5. ASSUME NEW i \in 1..Len(q), q[i].type = "reply", q[i].call.op = "devices"
      PROVE  Recent(q[i].told[1], now2, q, i, "devices")
  <2>1. CASE i \in 1..Len(tp) /\ i \in 0..Len(tp) /\ q[i] = tp[i]
    BY <1>2, <1>5, <2>1 DEF DevicesTold
  <2>2. CASE q[i] = m
    BY <1>5, <2>2 DEF Recent
  <2> QED
    BY <1>4, <2>1, <2>2
<1>6. DevicesTold(q, now2)
  BY <1>3, <1>5 DEF DevicesTold
<1>7. \A l : DevicesFlow(tp, l, now) => DevicesFlow(q, l, now2)
  BY <1>2, <1>4 DEF DevicesFlow
<1> QED
  BY <1>6, <1>7 DEF q

LEMMA DevicesHeard ==
  ASSUME NEW tp, IsSeq(tp), tp # <<>>, NEW now, DevicesTold(tp, now)
  PROVE  /\ DevicesTold(Tail(tp), now)
         /\ Head(tp).type = "devices" => Recent(Head(tp).told, now, Tail(tp), 0, "devices")
         /\ Head(tp).type = "reply" /\ Head(tp).call.op = "devices" => Recent(Head(tp).told[1], now, Tail(tp), 0, "devices")
         /\ \A l : DevicesFlow(tp, l, now) /\ Head(tp).type # "devices" => DevicesFlow(Tail(tp), l, now)
<1> DEFINE q == Tail(tp)
<1>1. /\ Len(tp) \in Nat \ {0} /\ Len(q) = Len(tp) - 1 /\ \A i \in 1..Len(q) : i + 1 \in 1..Len(tp) /\ q[i] = tp[i + 1]
      /\ Head(tp) = tp[1] /\ 1 \in 1..Len(tp) /\ 0 + 1 = 1 /\ 0 \in Nat
  BY SeqTail
<1>2. /\ \A x : \A k \in Nat : Recent(x, now, tp, k + 1, "devices") => Recent(x, now, q, k, "devices")
      /\ \A x : Recent(x, now, tp, 0, "devices") /\ Head(tp).type # "devices" => Recent(x, now, q, 0, "devices")
  BY RecentTail
<1>3. EventsTell(tp, 0, "devices", now) => EventsTell(q, 0, "devices", now)
  BY TellTail
<1>4. EventsTell(tp, 0, "devices", now) /\ Head(tp).type = "devices" => Recent(Head(tp).told, now, q, 0, "devices")
  BY EventIsRecent
<1> HIDE DEF q
<1>5. ASSUME NEW i \in 1..Len(q), q[i].type = "reply", q[i].call.op = "devices"
      PROVE  Recent(q[i].told[1], now, q, i, "devices")
  <2>1. Recent(tp[i + 1].told[1], now, tp, i + 1, "devices")
    BY <1>1, <1>5 DEF DevicesTold
  <2>2. i \in Nat
    BY <1>1
  <2> QED
    BY <1>1, <1>2, <2>1, <2>2
<1>6. Head(tp).type = "reply" /\ Head(tp).call.op = "devices" => Recent(Head(tp).told[1], now, q, 0, "devices")
  <2>1. tp[1].type = "reply" /\ tp[1].call.op = "devices" => Recent(tp[1].told[1], now, tp, 0 + 1, "devices")
    BY <1>1 DEF DevicesTold
  <2> QED
    BY <1>1, <1>2, <2>1
<1>7. DevicesTold(q, now)
  BY <1>3, <1>5 DEF DevicesTold
<1>8. \A l : DevicesFlow(tp, l, now) /\ Head(tp).type # "devices" => DevicesFlow(q, l, now)
  BY <1>2 DEF DevicesFlow
<1>9. Head(tp).type = "devices" => Recent(Head(tp).told, now, q, 0, "devices")
  BY <1>4 DEF DevicesTold
<1> QED
  BY <1>6, <1>7, <1>8, <1>9 DEF q

-----------------------------------------------------------------------------
(* Lists: the port.                                                        *)

Port(tc, tp, p, v, l) ==
  /\ IsSeq(tc) /\ IsSeq(tp) /\ v \in Nat /\ p \in L!Lists \cup {"away"} /\ ListOk(l)
  /\ \A i \in 1..Len(tc) : ListCallOk(tc[i], p, v, l.seq)
  /\ \A i \in 1..Len(tp) : ListMessageOk(tp[i], p, v, l.seq)
  /\ VisitsInOrder(tc, tp)

\* What the page of an area, if it is mounted, was told and shows.
Flow3(tc, tp, p, v, l, w, c, d) ==
  /\ p = "waves" => WavesFlow(tc, tp, v, l, w)
  /\ p = "contacts" => ContactsFlow(tc, tp, v, l, c)
  /\ p = "devices" => DevicesFlow(tp, l, d)
  /\ DevicesTold(tp, d)

\* A dialog asks for a change that the page may ask for.
DialogFits(p, l) == l.confirm # <<>> => p # "away" /\ l.confirm[1].op \in ListOps(p) \ ListReads

ListsInv ==
  /\ DialogFits(page, list)
  /\ Port(toClient, toPage, page, visit, list)
  /\ Flow3(toClient, toPage, page, visit, list, L!WavesNow, L!ContactsNow, L!DevicesNow)

LEMMA SeqTwo ==
  ASSUME NEW s, IsSeq(s), NEW a, NEW b
  PROVE  s \o <<a, b>> = Append(Append(s, a), b)
<1>1. PICK S0 : s \in Seq(S0)
  BY DEF IsSeq
<1> DEFINE T == S0 \cup {a, b}
<1>2. s \in Seq(T) /\ a \in T /\ b \in T
  BY <1>1
<1> HIDE DEF T
<1>3. <<a, b>> \in Seq(T) /\ Len(<<a, b>>) = 2 /\ <<a, b>>[1] = a /\ <<a, b>>[2] = b
  BY <1>2
<1> DEFINE two == <<a, b>>
           x == s \o two
           y == Append(Append(s, a), b)
<1>4. two \in Seq(T) /\ Len(two) = 2 /\ two[1] = a /\ two[2] = b
  BY <1>3
<1> HIDE DEF two
<1>5. /\ x \in Seq(T) /\ Len(x) = Len(s) + 2 /\ Len(s) \in Nat
      /\ \A i \in 1..(Len(s) + 2) : x[i] = IF i <= Len(s) THEN s[i] ELSE two[i - Len(s)]
  BY <1>2, <1>4, ConcatProperties, LenProperties, SMTT(30)
<1>6. /\ Append(s, a) \in Seq(T) /\ Len(Append(s, a)) = Len(s) + 1 /\ Append(s, a)[Len(s) + 1] = a
      /\ \A i \in 1..Len(s) : Append(s, a)[i] = s[i]
  BY <1>2, AppendOf
<1> DEFINE t == Append(s, a)
<1> HIDE DEF t
<1>7. /\ Append(t, b) \in Seq(T) /\ Len(Append(t, b)) = Len(t) + 1 /\ Append(t, b)[Len(t) + 1] = b
      /\ \A i \in 1..Len(t) : Append(t, b)[i] = t[i]
  BY <1>2, <1>6, AppendOf DEF t
<1>8. /\ t \in Seq(T) /\ Len(t) = Len(s) + 1 /\ t[Len(s) + 1] = a /\ \A i \in 1..Len(s) : t[i] = s[i]
  BY <1>6 DEF t
<1>9. y = Append(t, b)
  BY DEF t
<1> HIDE DEF x, y
<1>10. y \in Seq(T) /\ Len(y) = Len(s) + 2
  BY <1>5, <1>7, <1>8, <1>9
<1>11. \A i \in 1..Len(x) : x[i] = y[i]
  <2> SUFFICES ASSUME NEW i \in 1..Len(x)
               PROVE  x[i] = y[i]
    OBVIOUS
  <2>1. CASE i <= Len(s)
    BY <2>1, <1>5, <1>7, <1>8, <1>9
  <2>2. CASE i = Len(s) + 1
    BY <2>2, <1>4, <1>5, <1>7, <1>8, <1>9
  <2>3. CASE i = Len(s) + 2
    BY <2>3, <1>4, <1>5, <1>7, <1>8, <1>9
  <2> QED
    BY <2>1, <2>2, <2>3, <1>5
<1>12. x = y
  BY <1>5, <1>10, <1>11, SeqEqual
<1> QED
  BY <1>12 DEF x, y, two

LEMMA CallVisits ==
  ASSUME NEW c, NEW p, NEW v, NEW n, ListCallOk(c, p, v, n)
  PROVE  c.visit \in Nat /\ c.visit <= v /\ c.seq \in Nat
BY DEF ListCallOk

LEMMA MessageVisits ==
  ASSUME NEW m, NEW p, NEW v, NEW n, ListMessageOk(m, p, v, n), m.type = "reply"
  PROVE  ListCallOk(m.call, p, v, n) /\ m.call.visit \in Nat /\ m.call.visit <= v /\ m.call.seq \in Nat
BY CallVisits DEF ListMessageOk

LEMMA LaterCallOk ==
  ASSUME NEW c, NEW p, NEW v, NEW n \in Nat, ListCallOk(c, p, v, n), NEW k \in Nat, n <= k
  PROVE  ListCallOk(c, p, v, k)
BY DEF ListCallOk

LEMMA LaterMessageOk ==
  ASSUME NEW m, NEW p, NEW v, NEW n \in Nat, ListMessageOk(m, p, v, n), NEW k \in Nat, n <= k
  PROVE  ListMessageOk(m, p, v, k)
BY LaterCallOk DEF ListMessageOk

\* The page changes what it holds, not the port.
LEMMA PortList ==
  ASSUME NEW tc, NEW tp, NEW p, NEW v, NEW l, Port(tc, tp, p, v, l), NEW l2, ListOk(l2), l.seq <= l2.seq
  PROVE  Port(tc, tp, p, v, l2)
<1>1. l.seq \in Nat /\ l2.seq \in Nat
  BY DEF Port, ListOk
<1>2. \A i \in 1..Len(tc) : ListCallOk(tc[i], p, v, l2.seq)
  BY <1>1, LaterCallOk DEF Port
<1>3. \A i \in 1..Len(tp) : ListMessageOk(tp[i], p, v, l2.seq)
  BY <1>1, LaterMessageOk DEF Port
<1> QED
  BY <1>2, <1>3 DEF Port

LEMMA PortAsked ==
  ASSUME NEW tc, NEW tp, NEW p, NEW v, NEW l, Port(tc, tp, p, v, l), NEW c, ListCallOk(c, p, v, l.seq), c.visit = v
  PROVE  Port(Append(tc, c), tp, p, v, l)
<1> DEFINE q == Append(tc, c)
<1>1. /\ IsSeq(q) /\ Len(tc) \in Nat /\ Len(q) = Len(tc) + 1
      /\ \A i \in 1..Len(tc) : q[i] = tc[i]
      /\ q[Len(tc) + 1] = c
  BY SeqAppended DEF Port
<1> HIDE DEF q
<1>2. \A i \in 1..Len(q) : ListCallOk(q[i], p, v, l.seq) /\ q[i].visit \in Nat /\ q[i].visit <= v
  BY <1>1, CallVisits DEF Port
<1>3. \A i \in 1..Len(tp) : tp[i].type = "reply" => tp[i].call.visit \in Nat /\ tp[i].call.visit <= v
  BY MessageVisits DEF Port
<1>4. \A i, j \in 1..Len(q) : i < j => q[i].visit <= q[j].visit
  BY <1>1, <1>2 DEF Port, VisitsInOrder
<1>5. \A i \in 1..Len(tp), j \in 1..Len(q) : tp[i].type = "reply" => tp[i].call.visit <= q[j].visit
  BY <1>1, <1>3 DEF Port, VisitsInOrder
<1> QED
  BY <1>1, <1>2, <1>4, <1>5 DEF Port, VisitsInOrder, q

LEMMA PortTold ==
  ASSUME NEW tc, NEW tp, NEW p, NEW v, NEW l, Port(tc, tp, p, v, l), NEW m, ListMessageOk(m, p, v, l.seq),
         m.type = "reply" => \A j \in 1..Len(tc) : m.call.visit <= tc[j].visit
  PROVE  Port(tc, Append(tp, m), p, v, l)
<1> DEFINE q == Append(tp, m)
<1>1. /\ IsSeq(q) /\ Len(tp) \in Nat /\ Len(q) = Len(tp) + 1
      /\ \A i \in 1..Len(tp) : q[i] = tp[i]
      /\ q[Len(tp) + 1] = m
  BY SeqAppended DEF Port
<1> HIDE DEF q
<1>2. \A i \in 1..Len(q) : ListMessageOk(q[i], p, v, l.seq)
  BY <1>1 DEF Port
<1>3. \A i \in 1..Len(q), j \in 1..Len(tc) : q[i].type = "reply" => q[i].call.visit <= tc[j].visit
  BY <1>1 DEF Port, VisitsInOrder
<1> QED
  BY <1>1, <1>2, <1>3 DEF Port, VisitsInOrder, q

\* The next call is run; those after it are of its visit or a later one.
LEMMA PortRun ==
  ASSUME NEW tc, NEW tp, NEW p, NEW v, NEW l, Port(tc, tp, p, v, l), tc # <<>>
  PROVE  /\ Port(Tail(tc), tp, p, v, l)
         /\ ListCallOk(Head(tc), p, v, l.seq) /\ Head(tc).visit \in Nat /\ Head(tc).visit <= v
         /\ \A j \in 1..Len(Tail(tc)) : Head(tc).visit <= Tail(tc)[j].visit
         /\ Head(tc) = tc[1] /\ 1 \in 1..Len(tc)
<1> DEFINE q == Tail(tc)
<1>1. /\ IsSeq(q) /\ Len(tc) \in Nat \ {0} /\ Len(q) = Len(tc) - 1
      /\ \A i \in 1..Len(q) : i + 1 \in 1..Len(tc) /\ q[i] = tc[i + 1]
      /\ Head(tc) = tc[1] /\ 1 \in 1..Len(tc)
  BY SeqTail DEF Port
<1> HIDE DEF q
<1>2. \A i \in 1..Len(q) : ListCallOk(q[i], p, v, l.seq)
  BY <1>1 DEF Port
<1>3. \A i, j \in 1..Len(q) : i < j => q[i].visit <= q[j].visit
  <2> SUFFICES ASSUME NEW i \in 1..Len(q), NEW j \in 1..Len(q), i < j
               PROVE  q[i].visit <= q[j].visit
    OBVIOUS
  <2>1. i + 1 < j + 1 /\ i + 1 \in 1..Len(tc) /\ j + 1 \in 1..Len(tc) /\ q[i] = tc[i + 1] /\ q[j] = tc[j + 1]
    BY <1>1
  <2> QED
    BY <2>1 DEF Port, VisitsInOrder
<1>4. \A i \in 1..Len(tp), j \in 1..Len(q) : tp[i].type = "reply" => tp[i].call.visit <= q[j].visit
  BY <1>1 DEF Port, VisitsInOrder
<1>5. \A j \in 1..Len(q) : Head(tc).visit <= q[j].visit
  <2> SUFFICES ASSUME NEW j \in 1..Len(q)
               PROVE  Head(tc).visit <= q[j].visit
    OBVIOUS
  <2>1. 1 < j + 1 /\ j + 1 \in 1..Len(tc) /\ q[j] = tc[j + 1]
    BY <1>1
  <2> QED
    BY <1>1, <2>1 DEF Port, VisitsInOrder
<1>6. ListCallOk(Head(tc), p, v, l.seq)
  BY <1>1 DEF Port
<1> QED
  BY <1>1, <1>2, <1>3, <1>4, <1>5, <1>6, CallVisits DEF Port, VisitsInOrder, q

\* The next message is heard; an answer to the page that is mounted comes
\* after all calls of earlier ones were run.
LEMMA PortHeard ==
  ASSUME NEW tc, NEW tp, NEW p, NEW v, NEW l, Port(tc, tp, p, v, l), tp # <<>>
  PROVE  /\ Port(tc, Tail(tp), p, v, l)
         /\ ListMessageOk(Head(tp), p, v, l.seq)
         /\ Head(tp).type = "reply" /\ Head(tp).call.visit = v => Cleared(tc, v)
<1> DEFINE q == Tail(tp)
<1>1. /\ IsSeq(q) /\ Len(tp) \in Nat \ {0} /\ Len(q) = Len(tp) - 1
      /\ \A i \in 1..Len(q) : i + 1 \in 1..Len(tp) /\ q[i] = tp[i + 1]
      /\ Head(tp) = tp[1] /\ 1 \in 1..Len(tp)
  BY SeqTail DEF Port
<1> HIDE DEF q
<1>2. \A i \in 1..Len(q) : ListMessageOk(q[i], p, v, l.seq)
  BY <1>1 DEF Port
<1>3. \A i \in 1..Len(q), j \in 1..Len(tc) : q[i].type = "reply" => q[i].call.visit <= tc[j].visit
  BY <1>1 DEF Port, VisitsInOrder
<1>4. ASSUME Head(tp).type = "reply", Head(tp).call.visit = v
      PROVE  Cleared(tc, v)
  <2>1. \A j \in 1..Len(tc) : tc[j].visit \in Nat /\ tc[j].visit <= v /\ v <= tc[j].visit /\ v \in Nat
    BY <1>1, <1>4, CallVisits DEF Port, VisitsInOrder
  <2> QED
    BY <2>1 DEF Cleared
<1> QED
  BY <1>1, <1>2, <1>3, <1>4 DEF Port, VisitsInOrder, q

\* Calls are marked as over.
LEMMA PortMarked ==
  ASSUME NEW tc, NEW tp, NEW p, NEW v, NEW l, Port(tc, tp, p, v, l), NEW b, \A j \in DOMAIN tc : b[j] \in BOOLEAN,
         NEW t, t = [j \in DOMAIN tc |-> [tc[j] EXCEPT !.over = b[j]]]
  PROVE  /\ Port(t, tp, p, v, l) /\ Len(t) = Len(tc)
         /\ \A j \in 1..Len(tc) : /\ t[j].op = tc[j].op /\ t[j].for = tc[j].for /\ t[j].seq = tc[j].seq /\ t[j].visit = tc[j].visit
                                  /\ t[j].over <=> b[j]
<1>1. IsSeq(t) /\ Len(t) = Len(tc) /\ DOMAIN tc = 1..Len(tc) /\ Len(tc) \in Nat
  BY SeqIs, SeqMarked DEF Port
<1>2. ASSUME NEW j \in 1..Len(tc)
      PROVE  /\ t[j].op = tc[j].op /\ t[j].for = tc[j].for /\ t[j].seq = tc[j].seq /\ t[j].visit = tc[j].visit
             /\ t[j].over = b[j] /\ b[j] \in BOOLEAN
             /\ ListCallOk(t[j], p, v, l.seq)
  <2> DEFINE c == tc[j]
             d == t[j]
  <2>1. ListCallOk(c, p, v, l.seq)
    BY DEF Port
  <2>2. d = [c EXCEPT !.over = b[j]] /\ b[j] \in BOOLEAN
    BY <1>1
  <2> HIDE DEF c, d
  <2>3. c = [op |-> c.op, of |-> c.of, for |-> c.for, seq |-> c.seq, visit |-> c.visit, over |-> c.over]
    BY <2>1 DEF ListCallOk
  <2>4. d = [op |-> c.op, of |-> c.of, for |-> c.for, seq |-> c.seq, visit |-> c.visit, over |-> b[j]]
    BY <2>2, <2>3
  <2>5. d.op = c.op /\ d.of = c.of /\ d.for = c.for /\ d.seq = c.seq /\ d.visit = c.visit /\ d.over = b[j]
    BY <2>4
  <2>6. d = [op |-> d.op, of |-> d.of, for |-> d.for, seq |-> d.seq, visit |-> d.visit, over |-> d.over]
    BY <2>4, <2>5
  <2>7. ListCallOk(d, p, v, l.seq)
    BY <2>1, <2>2, <2>5, <2>6 DEF ListCallOk
  <2> QED
    BY <2>2, <2>5, <2>7 DEF c, d
<1>3. \A i, j \in 1..Len(t) : i < j => t[i].visit <= t[j].visit
  BY <1>1, <1>2 DEF Port, VisitsInOrder
<1>4. \A i \in 1..Len(tp), j \in 1..Len(t) : tp[i].type = "reply" => tp[i].call.visit <= t[j].visit
  BY <1>1, <1>2 DEF Port, VisitsInOrder
<1> QED
  BY <1>1, <1>2, <1>3, <1>4 DEF Port, VisitsInOrder

\* Another page is mounted, or none.
LEMMA PortMounted ==
  ASSUME NEW tc, NEW tp, NEW p, NEW v, NEW l, Port(tc, tp, p, v, l), NEW p2, NEW v2 \in Nat, NEW l2, ListOk(l2),
         \/ p2 \in L!Lists /\ v2 = v + 1
         \/ p2 = "away" /\ v2 = v
  PROVE  /\ Port(tc, tp, p2, v2, l2)
         /\ v2 = v + 1 => /\ \A i \in 1..Len(tc) : tc[i].visit # v2
                          /\ \A i \in 1..Len(tp) : tp[i].type = "reply" => tp[i].call.visit # v2
<1>1. \A c : ListCallOk(c, p, v, l.seq) => ListCallOk(c, p2, v2, l2.seq) /\ (v2 = v + 1 => c.visit # v2)
  BY DEF ListCallOk, Port
<1>2. \A i \in 1..Len(tc) : ListCallOk(tc[i], p2, v2, l2.seq) /\ (v2 = v + 1 => tc[i].visit # v2)
  BY <1>1 DEF Port
<1>3. ASSUME NEW i \in 1..Len(tp)
      PROVE  ListMessageOk(tp[i], p2, v2, l2.seq) /\ (v2 = v + 1 /\ tp[i].type = "reply" => tp[i].call.visit # v2)
  BY <1>1 DEF ListMessageOk, Port
<1> QED
  BY <1>2, <1>3 DEF Port

-----------------------------------------------------------------------------
(* Lists: the member asks.                                                 *)

IsCall(c, op, for, n, v) ==
  /\ c = [op |-> c.op, of |-> c.of, for |-> c.for, seq |-> c.seq, visit |-> c.visit, over |-> c.over]
  /\ c.op = op /\ c.for = for /\ c.seq = n /\ c.visit = v /\ c.over = FALSE

LEMMA CallFields ==
  ASSUME NEW op, NEW of, NEW for, NEW n, NEW v
  PROVE  IsCall(L!Call(op, of, for, n, v), op, for, n, v)
BY DEF L!Call, IsCall

CallFits(op, for, p) == op \in ListOps(p) /\ IF op \in ListReads THEN for \in {"load", "after"} ELSE for = "act"

LEMMA CallIsOk ==
  ASSUME NEW c, NEW op, NEW for, NEW n \in Nat, NEW v \in Nat, IsCall(c, op, for, n, v), NEW p, NEW k \in Nat, n <= k,
         CallFits(op, for, p)
  PROVE  ListCallOk(c, p, v, k) /\ c.visit = v /\ ~c.over
<1>1. c.over \in BOOLEAN /\ ~c.over
  BY Zenon DEF IsCall
<1>2. c = [op |-> c.op, of |-> c.of, for |-> c.for, seq |-> c.seq, visit |-> c.visit, over |-> c.over]
  BY Zenon DEF IsCall
<1>3. c.op = op /\ c.for = for /\ c.seq = n /\ c.visit = v
  BY Zenon DEF IsCall
<1> QED
  BY <1>1, <1>2, <1>3 DEF ListCallOk, CallFits

LEMMA ContactsAsked ==
  ASSUME NEW tc, NEW tp, NEW v, NEW l, NEW now, ContactsFlow(tc, tp, v, l, now), IsSeq(tc),
         NEW c, c.visit = v, NEW l2, l2.read = l.read, l2.shown = l.shown
  PROVE  ContactsFlow(Append(tc, c), tp, v, l2, now)
<1> DEFINE q == Append(tc, c)
<1>1. Len(tc) \in Nat /\ Len(q) = Len(tc) + 1 /\ (\A i \in 1..Len(tc) : q[i] = tc[i]) /\ q[Len(tc) + 1] = c
  BY SeqAppended
<1> HIDE DEF q
<1>2. Cleared(tc, v) => Cleared(q, v)
  BY <1>1 DEF Cleared
<1> QED
  BY <1>2 DEF ContactsFlow, q

\* load: the list is read anew.
LEMMA LoadsKeep ==
  ASSUME NEW tc, NEW tp, NEW p \in L!Lists, NEW v, NEW l, NEW w, NEW c, NEW d, Port(tc, tp, p, v, l),
         NEW for \in {"load", "after"},
         p = "waves" => /\ ReadsInOrder(tc, tp, v, l)
                        /\ l.loaded \/ l.half # <<>> => Cleared(tc, v)
                        /\ l.shown # <<>> => l.shown[1].first = l.shown[1].second,
         p = "contacts" => ContactsFlow(tc, tp, v, l, c), p = "devices" => DevicesFlow(tp, l, d), DevicesTold(tp, d),
         NEW l2, ListOk(l2), l2.seq = l.seq + 1, l2.half = l.half, l2.shown = l.shown, l2.loaded = l.loaded, l2.read = l.read,
         NEW tc2, tc2 = tc \o L!Reads(p, for, l.seq + 1, v)
  PROVE  Port(tc2, tp, p, v, l2) /\ Flow3(tc2, tp, p, v, l2, w, c, d)
<1>1. l.seq \in Nat /\ l2.seq \in Nat /\ l.seq <= l2.seq /\ l.seq + 1 = l2.seq /\ v \in Nat /\ IsSeq(tc)
  BY DEF Port, ListOk
<1>2. Port(tc, tp, p, v, l2)
  BY <1>1, PortList
<1>3. CASE p = "waves"
  <2> DEFINE a == L!Call("incomingWaves", <<>>, for, l2.seq, v)
             b == L!Call("waveSlots", <<>>, for, l2.seq, v)
  <2>1. tc2 = tc \o <<a, b>>
    BY <1>1, <1>3 DEF L!Reads
  <2>2. IsCall(a, "incomingWaves", for, l2.seq, v)
    BY CallFields
  <2>3. IsCall(b, "waveSlots", for, l2.seq, v)
    BY CallFields
  <2> HIDE DEF a, b
  <2>4. tc2 = Append(Append(tc, a), b)
    BY <1>1, <2>1, SeqTwo
  <2>5. CallFits("incomingWaves", for, p) /\ CallFits("waveSlots", for, p)
    BY <1>3 DEF CallFits, ListOps, ListReads, L!WaveReads
  <2>6. /\ ListCallOk(a, p, v, l2.seq) /\ a.visit = v /\ ~a.over
        /\ ListCallOk(b, p, v, l2.seq) /\ b.visit = v /\ ~b.over
    <3>1. l2.seq \in Nat /\ l2.seq <= l2.seq
      BY <1>1
    <3>2. ListCallOk(a, p, v, l2.seq) /\ a.visit = v /\ ~a.over
      BY <1>1, <2>2, <2>5, <3>1, CallIsOk
    <3>3. ListCallOk(b, p, v, l2.seq) /\ b.visit = v /\ ~b.over
      BY <1>1, <2>3, <2>5, <3>1, CallIsOk
    <3> QED
      BY <3>2, <3>3
  <2>7. Port(tc2, tp, p, v, l2)
    BY <1>2, <2>4, <2>6, PortAsked
  <2>8. \A i \in 1..Len(tc) : IsRead(tc[i], v) => tc[i].seq \in 0..l.seq
    <3> SUFFICES ASSUME NEW i \in 1..Len(tc), IsRead(tc[i], v)
                 PROVE  tc[i].seq \in 0..l.seq
      OBVIOUS
    <3>1. ListCallOk(tc[i], p, v, l.seq) /\ tc[i].visit = v
      BY DEF Port, IsRead
    <3> QED
      BY <1>1, <1>3, <3>1 DEF ListCallOk
  <2>9. \A i \in 1..Len(tp) : TellsRead(tp[i], v) => tp[i].call.seq \in 0..l.seq
    <3> SUFFICES ASSUME NEW i \in 1..Len(tp), TellsRead(tp[i], v)
                 PROVE  tp[i].call.seq \in 0..l.seq
      OBVIOUS
    <3>1. ListCallOk(tp[i].call, p, v, l.seq) /\ tp[i].call.visit = v
      BY MessageVisits DEF Port, TellsRead, IsRead
    <3> QED
      BY <1>1, <1>3, <3>1 DEF ListCallOk
  <2>10. IsNew(a, v, l.seq + 1, "incomingWaves") /\ IsNew(b, v, l.seq + 1, "waveSlots") /\ ~a.over /\ ~b.over
    BY <1>1, <2>2, <2>3, <2>6 DEF IsNew, IsCall
  <2>11. WavesFlow(Append(Append(tc, a), b), tp, v, l2, w)
    BY <1>1, <1>3, <2>8, <2>9, <2>10, LoadFlows
  <2> QED
    BY <1>3, <2>4, <2>7, <2>11 DEF Flow3
<1>4. CASE p # "waves"
  <2> DEFINE a == L!Call(p, <<>>, for, l2.seq, v)
  <2>1. tc2 = tc \o <<a>>
    BY <1>1, <1>4 DEF L!Reads
  <2>2. IsCall(a, p, for, l2.seq, v)
    BY CallFields
  <2> HIDE DEF a
  <2>3. tc2 = Append(tc, a)
    BY <1>1, <2>1, SeqAppended
  <2>4. CallFits(p, for, p)
    BY <1>4 DEF CallFits, ListOps, ListReads, L!Lists
  <2>5. ListCallOk(a, p, v, l2.seq) /\ a.visit = v
    <3>1. l2.seq \in Nat /\ l2.seq <= l2.seq
      BY <1>1
    <3> QED
      BY <1>1, <2>2, <2>4, <3>1, CallIsOk, ZenonT(40)
  <2>6. Port(tc2, tp, p, v, l2)
    BY <1>2, <2>3, <2>5, PortAsked
  <2>7. p = "contacts" => ContactsFlow(tc2, tp, v, l2, c)
    BY <1>1, <2>3, <2>5, ContactsAsked
  <2>8. p = "devices" => DevicesFlow(tp, l2, d)
    BY DEF DevicesFlow
  <2> QED
    BY <1>4, <2>6, <2>7, <2>8 DEF Flow3
<1> QED
  BY <1>3, <1>4

\* The page changes its state, and may say less than it said.
LEMMA FieldsKeep ==
  ASSUME NEW tc, NEW tp, NEW p, NEW v, NEW l, NEW w, NEW c, NEW d,
         Port(tc, tp, p, v, l), Flow3(tc, tp, p, v, l, w, c, d),
         NEW l2, ListOk(l2), l2.seq = l.seq, l2.half = l.half, l2.shown = l.shown, l2.loaded = l.loaded, l2.read = l.read,
         ~l2.error => ~l.error \/ ToRenew(tc, tp, v, l)
  PROVE  Port(tc, tp, p, v, l2) /\ Flow3(tc, tp, p, v, l2, w, c, d)
<1>1. Port(tc, tp, p, v, l2)
  <2>1. l.seq <= l2.seq
    BY DEF ListOk
  <2> QED
    BY <2>1, PortList
<1>2. p = "waves" => WavesFlow(tc, tp, v, l2, w)
  BY FieldsFlow DEF Flow3
<1>3. p = "contacts" => ContactsFlow(tc, tp, v, l2, c)
  BY DEF Flow3, ContactsFlow
<1>4. p = "devices" => DevicesFlow(tp, l2, d)
  BY DEF Flow3, DevicesFlow
<1> QED
  BY <1>1, <1>2, <1>3, <1>4 DEF Flow3

\* A change is asked for.
LEMMA ActKeeps ==
  ASSUME NEW tc, NEW tp, NEW p \in L!Lists, NEW v, NEW l, NEW w, NEW c, NEW d,
         Port(tc, tp, p, v, l), Flow3(tc, tp, p, v, l, w, c, d),
         NEW a, NEW op \in ListOps(p) \ ListReads, IsCall(a, op, "act", 0, v),
         NEW l2, ListOk(l2), l2.seq = l.seq, l2.half = l.half, l2.shown = l.shown, l2.loaded = l.loaded, l2.read = l.read,
         NEW tc2, tc2 = Append(tc, a)
  PROVE  Port(tc2, tp, p, v, l2) /\ Flow3(tc2, tp, p, v, l2, w, c, d)
<1>2. l.seq \in Nat /\ v \in Nat /\ IsSeq(tc) /\ tc2 = Append(tc, a)
  BY DEF Port, ListOk
<1>3. ListCallOk(a, p, v, l.seq) /\ a.visit = v /\ ~a.over
  <2>1. CallFits(op, "act", p) /\ 0 \in Nat /\ 0 <= l.seq
    BY <1>2 DEF CallFits
  <2> QED
    BY <1>2, <2>1, CallIsOk
<1>4. Port(tc2, tp, p, v, l)
  BY <1>2, <1>3, PortAsked
<1>5. l.seq <= l2.seq
  BY <1>2
<1>6. Port(tc2, tp, p, v, l2)
  BY <1>4, <1>5, PortList
<1>7. ASSUME p = "waves"
      PROVE  WavesFlow(tc2, tp, v, l2, w)
  <2>1. a.op \notin L!WaveReads /\ a.for = "act"
    BY DEF ListReads, IsCall
  <2>2. WavesFlow(tc, tp, v, l, w)
    BY <1>7 DEF Flow3
  <2>3. WavesFlow(tc2, tp, v, l, w) /\ ToRenew(tc2, tp, v, l)
    BY <1>2, <1>3, <2>1, <2>2, ActFlows
  <2> QED
    BY <2>3, FieldsFlow
<1>8. p = "contacts" => ContactsFlow(tc2, tp, v, l2, c)
  BY <1>2, <1>3, ContactsAsked DEF Flow3
<1>9. p = "devices" => DevicesFlow(tp, l2, d)
  BY DEF Flow3, DevicesFlow
<1> QED
  BY <1>6, <1>7, <1>8, <1>9 DEF Flow3

LEMMA NewListOk == ListOk(L!NewList) /\ L!NewList.confirm = <<>> /\ L!NewList.seq = 0 /\ L!NewList.half = <<>> /\ L!NewList.shown = <<>>
                   /\ L!NewList.loaded = FALSE /\ L!NewList.read = FALSE
BY DEF L!NewList, ListOk

SameList(m, l) == m.confirm = l.confirm /\ m.shown = l.shown /\ m.half = l.half /\ m.loaded = l.loaded /\ m.read = l.read

LEMMA WithSeq ==
  ASSUME NEW l, ListOk(l), NEW n \in Nat
  PROVE  LET m == [l EXCEPT !.seq = n] IN ListOk(m) /\ SameList(m, l) /\ m.seq = n /\ m.error = l.error
<1> DEFINE m == [l EXCEPT !.seq = n]
<1>1. m = [seq |-> n, half |-> l.half, shown |-> l.shown, loaded |-> l.loaded, error |-> l.error,
           busy |-> l.busy, confirm |-> l.confirm, read |-> l.read]
  BY DEF ListOk
<1> HIDE DEF m
<1>2. m.seq = n /\ m.half = l.half /\ m.shown = l.shown /\ m.loaded = l.loaded /\ m.error = l.error
      /\ m.busy = l.busy /\ m.confirm = l.confirm /\ m.read = l.read
  BY <1>1
<1>3. ListOk(m)
  BY <1>1, <1>2 DEF ListOk
<1> QED
  BY <1>2, <1>3 DEF m, SameList

LEMMA DepartKeeps ==
  ASSUME ListsInv, L!Depart
  PROVE  ListsInv'
<1>1. /\ toClient' = toClient /\ toPage' = toPage /\ visit' = visit /\ page' = "away" /\ list' = L!NewList
      /\ L!WavesNow' = L!WavesNow /\ L!ContactsNow' = L!ContactsNow /\ L!DevicesNow' = L!DevicesNow
  BY DEF L!Depart, L!client, L!related, L!WavesNow, L!ContactsNow, L!DevicesNow
<1>2. Port(toClient, toPage, "away", visit, L!NewList)
  <2>1. visit \in Nat
    BY DEF ListsInv, Port
  <2> QED
    BY <2>1, NewListOk, PortMounted DEF ListsInv
<1> QED
  BY <1>1, <1>2, NewListOk DEF ListsInv, Flow3, DialogFits

LEMMA ListsMounted ==
  ASSUME ListsInv, NEW p \in L!Lists, L!Navigate(p)
  PROVE  ListsInv'
<1> DEFINE l == [L!NewList EXCEPT !.seq = 1]
           tc == toClient \o L!Reads(p, "load", 1, visit + 1)
<1>1. /\ toClient' = tc /\ toPage' = toPage /\ visit' = visit + 1 /\ page' = p /\ list' = l
      /\ L!WavesNow' = L!WavesNow /\ L!ContactsNow' = L!ContactsNow /\ L!DevicesNow' = L!DevicesNow
  BY DEF L!Navigate, L!client, L!related, L!WavesNow, L!ContactsNow, L!DevicesNow
<1>2. ListOk(l) /\ l.seq = 1 /\ SameList(l, L!NewList)
  BY NewListOk, WithSeq
<1> HIDE DEF l, tc
<1>3. visit \in Nat /\ visit + 1 \in Nat /\ IsSeq(toClient) /\ DevicesTold(toPage, L!DevicesNow)
  BY DEF ListsInv, Port, Flow3
<1> DEFINE v == visit + 1
<1>4. /\ Port(toClient, toPage, p, v, L!NewList)
      /\ \A i \in 1..Len(toClient) : toClient[i].visit # v
      /\ \A i \in 1..Len(toPage) : toPage[i].type = "reply" => toPage[i].call.visit # v
  BY <1>3, NewListOk, PortMounted DEF ListsInv
<1> HIDE DEF v
<1>5. tc = toClient \o L!Reads(p, "load", L!NewList.seq + 1, v)
  BY NewListOk DEF tc, v
<1> DEFINE w == L!WavesNow
           c == L!ContactsNow
           d == L!DevicesNow
<1>6. p = "waves" => ReadsInOrder(toClient, toPage, v, L!NewList)
  BY <1>4, NewListOk DEF ReadsInOrder, IsRead, TellsRead
<1>7. p = "contacts" => ContactsFlow(toClient, toPage, v, L!NewList, c)
  BY <1>4, NewListOk DEF ContactsFlow
<1>8. p = "devices" => DevicesFlow(toPage, L!NewList, d)
  BY NewListOk DEF DevicesFlow
<1>9. Port(tc, toPage, p, v, l) /\ Flow3(tc, toPage, p, v, l, w, c, d)
  <2> HIDE DEF w, c, d
  <2>1. DevicesTold(toPage, d)
    BY <1>3 DEF d
  <2>2. l.seq = L!NewList.seq + 1 /\ l.half = L!NewList.half /\ l.shown = L!NewList.shown /\ l.loaded = L!NewList.loaded
        /\ l.read = L!NewList.read
    BY <1>2, NewListOk DEF SameList
  <2> QED
    BY <1>2, <1>4, <1>5, <1>6, <1>7, <1>8, <2>1, <2>2, NewListOk, LoadsKeep
<1>10. DialogFits(p, l)
  BY <1>2, NewListOk DEF DialogFits, SameList
<1> QED
  BY <1>1, <1>9, <1>10 DEF ListsInv, v

LEMMA WithConfirm ==
  ASSUME NEW l, ListOk(l), NEW x
  PROVE  LET m == [l EXCEPT !.confirm = x] IN
           /\ ListOk(m) /\ m.seq = l.seq /\ m.error = l.error /\ m.confirm = x
           /\ m.shown = l.shown /\ m.half = l.half /\ m.loaded = l.loaded /\ m.read = l.read
<1> DEFINE m == [l EXCEPT !.confirm = x]
<1>1. m = [seq |-> l.seq, half |-> l.half, shown |-> l.shown, loaded |-> l.loaded, error |-> l.error,
           busy |-> l.busy, confirm |-> x, read |-> l.read]
  BY DEF ListOk
<1> HIDE DEF m
<1>2. m.seq = l.seq /\ m.half = l.half /\ m.shown = l.shown /\ m.loaded = l.loaded /\ m.error = l.error
      /\ m.busy = l.busy /\ m.confirm = x /\ m.read = l.read
  BY <1>1
<1>3. ListOk(m)
  BY <1>1, <1>2 DEF ListOk
<1> QED
  BY <1>2, <1>3 DEF m

LEMMA StateFields ==
  ASSUME NEW l, ListOk(l), NEW b, NEW e
  PROVE  [l EXCEPT !.busy = b, !.error = e] =
         [seq |-> l.seq, half |-> l.half, shown |-> l.shown, loaded |-> l.loaded, error |-> e,
          busy |-> b, confirm |-> l.confirm, read |-> l.read]
<1> DEFINE m == [l EXCEPT !.busy = b]
<1>1. m = [seq |-> l.seq, half |-> l.half, shown |-> l.shown, loaded |-> l.loaded, error |-> l.error,
           busy |-> b, confirm |-> l.confirm, read |-> l.read]
  BY DEF ListOk
<1>2. [l EXCEPT !.busy = b, !.error = e] = [m EXCEPT !.error = e]
  OBVIOUS
<1> HIDE DEF m
<1>3. [m EXCEPT !.error = e] = [seq |-> l.seq, half |-> l.half, shown |-> l.shown, loaded |-> l.loaded, error |-> e,
                                busy |-> b, confirm |-> l.confirm, read |-> l.read]
  BY <1>1
<1> QED
  BY <1>2, <1>3

LEMMA WithState ==
  ASSUME NEW l, ListOk(l), NEW b, NEW e \in BOOLEAN
  PROVE  LET m == [l EXCEPT !.busy = b, !.error = e] IN
           ListOk(m) /\ SameList(m, l) /\ m.seq = l.seq /\ m.error = e
<1> DEFINE m == [l EXCEPT !.busy = b, !.error = e]
<1>1. m = [seq |-> l.seq, half |-> l.half, shown |-> l.shown, loaded |-> l.loaded, error |-> e,
           busy |-> b, confirm |-> l.confirm, read |-> l.read]
  BY StateFields
<1> HIDE DEF m
<1>2. m.seq = l.seq /\ m.half = l.half /\ m.shown = l.shown /\ m.loaded = l.loaded /\ m.error = e
      /\ m.busy = b /\ m.confirm = l.confirm /\ m.read = l.read
  BY <1>1
<1>3. ListOk(m)
  BY <1>1, <1>2 DEF ListOk
<1> QED
  BY <1>2, <1>3 DEF m, SameList

LEMMA WithError ==
  ASSUME NEW l, ListOk(l), NEW e \in BOOLEAN
  PROVE  LET m == [l EXCEPT !.error = e] IN
           ListOk(m) /\ SameList(m, l) /\ m.seq = l.seq /\ m.error = e
<1> DEFINE m == [l EXCEPT !.error = e]
<1>1. m = [seq |-> l.seq, half |-> l.half, shown |-> l.shown, loaded |-> l.loaded, error |-> e,
           busy |-> l.busy, confirm |-> l.confirm, read |-> l.read]
  BY DEF ListOk
<1> HIDE DEF m
<1>2. m.seq = l.seq /\ m.half = l.half /\ m.shown = l.shown /\ m.loaded = l.loaded /\ m.error = e
      /\ m.busy = l.busy /\ m.confirm = l.confirm /\ m.read = l.read
  BY <1>1
<1>3. ListOk(m)
  BY <1>1, <1>2 DEF ListOk
<1> QED
  BY <1>2, <1>3 DEF m, SameList

\* What the client holds is what its variables say.
LEMMA ClientStays ==
  ASSUME UNCHANGED L!client
  PROVE  L!WavesNow' = L!WavesNow /\ L!ContactsNow' = L!ContactsNow /\ L!DevicesNow' = L!DevicesNow
BY DEF L!client, L!related, L!WavesNow, L!ContactsNow, L!DevicesNow

LEMMA AskedInv ==
  ASSUME ListsInv, NEW op, NEW of, L!Asked(op, of), page # "away", op \in ListOps(page) \ ListReads
  PROVE  ListsInv'
<1> DEFINE l == [list EXCEPT !.busy = TRUE, !.error = FALSE]
           tc == Append(toClient, L!Call(op, of, "act", 0, visit))
<1>1. /\ toClient' = tc /\ toPage' = toPage /\ visit' = visit /\ page' = page /\ list' = l
      /\ UNCHANGED L!client
  BY DEF L!Asked
<1>2. ListOk(list) /\ page \in L!Lists
  BY DEF ListsInv, Port
<1>3. ListOk(l) /\ SameList(l, list) /\ l.seq = list.seq
  BY <1>2, WithState
<1> HIDE DEF l, tc
<1> DEFINE w == L!WavesNow
           c == L!ContactsNow
           d == L!DevicesNow
<1>4. Port(tc, toPage, page, visit, l) /\ Flow3(tc, toPage, page, visit, l, w, c, d)
  <2> HIDE DEF w, c, d
  <2> DEFINE a == L!Call(op, of, "act", 0, visit)
  <2>1. tc = Append(toClient, a) /\ IsCall(a, op, "act", 0, visit)
    BY CallFields DEF tc
  <2> HIDE DEF a
  <2>2. Port(toClient, toPage, page, visit, list) /\ Flow3(toClient, toPage, page, visit, list, w, c, d)
    BY DEF ListsInv, w, c, d
  <2>3. l.half = list.half /\ l.shown = list.shown /\ l.loaded = list.loaded /\ l.read = list.read
    BY <1>3 DEF SameList
  <2> QED
    BY <1>2, <1>3, <2>1, <2>2, <2>3, ActKeeps
<1>5. DialogFits(page, l)
  BY <1>3 DEF DialogFits, SameList, ListsInv
<1> QED
  BY <1>1, <1>4, <1>5, ClientStays DEF ListsInv

LEMMA ElsewhereInv ==
  ASSUME ListsInv, NEW op, NEW p, L!Elsewhere(op, p)
  PROVE  ListsInv'
<1> DEFINE a == L!Call(op, <<p>>, "other", 0, visit)
<1>1. /\ toClient' = Append(toClient, a) /\ toPage' = toPage /\ visit' = visit /\ page = "away" /\ page' = page /\ list' = list
      /\ UNCHANGED L!client
  BY DEF L!Elsewhere
<1>2. IsCall(a, op, "other", 0, visit)
  BY CallFields
<1> HIDE DEF a
<1>3. a.over \in BOOLEAN /\ a.visit = visit /\ a.seq = 0
  BY <1>2, Zenon DEF IsCall
<1>4. a = [op |-> a.op, of |-> a.of, for |-> a.for, seq |-> a.seq, visit |-> a.visit, over |-> a.over]
  BY <1>2, Zenon DEF IsCall
<1>5. ListCallOk(a, page, visit, list.seq)
  <2>1. visit \in Nat
    BY DEF ListsInv, Port
  <2> QED
    BY <1>1, <1>3, <1>4, <2>1 DEF ListCallOk
<1>6. Port(Append(toClient, a), toPage, page, visit, list)
  BY <1>3, <1>5, PortAsked DEF ListsInv
<1> QED
  BY <1>1, <1>6, ClientStays DEF ListsInv, Flow3

\* The page changes what it says, and asks for nothing.
LEMMA SaysInv ==
  ASSUME ListsInv, toClient' = toClient, toPage' = toPage, page' = page, visit' = visit, UNCHANGED L!client,
         ListOk(list'), list'.seq = list.seq, list'.half = list.half, list'.shown = list.shown,
         list'.loaded = list.loaded, list'.read = list.read, ~list'.error => ~list.error,
         DialogFits(page, list')
  PROVE  ListsInv'
<1> DEFINE w == L!WavesNow
           c == L!ContactsNow
           d == L!DevicesNow
           l == list'
<1>1. Port(toClient, toPage, page, visit, list) /\ Flow3(toClient, toPage, page, visit, list, w, c, d)
  BY DEF ListsInv
<1>2. ListOk(l) /\ l.seq = list.seq /\ l.half = list.half /\ l.shown = list.shown /\ l.loaded = list.loaded
      /\ l.read = list.read /\ (~l.error => ~list.error)
  OBVIOUS
<1> HIDE DEF w, c, d, l
<1>3. Port(toClient, toPage, page, visit, l) /\ Flow3(toClient, toPage, page, visit, l, w, c, d)
  BY <1>1, <1>2, FieldsKeep
<1> QED
  BY <1>3, ClientStays DEF ListsInv, w, c, d, l

LEMMA AnswerBlankInv ==
  ASSUME ListsInv, NEW i, L!AnswerBlank(i)
  PROVE  ListsInv'
<1>1. /\ toClient' = toClient /\ toPage' = toPage /\ page' = page /\ visit' = visit /\ UNCHANGED L!client
      /\ list' = [list EXCEPT !.error = TRUE]
  BY DEF L!AnswerBlank
<1>2. ListOk(list)
  BY DEF ListsInv, Port
<1>3. ListOk(list') /\ SameList(list', list) /\ list'.seq = list.seq /\ list'.error = TRUE
  BY <1>1, <1>2, WithError
<1>4. DialogFits(page, list')
  BY <1>3 DEF DialogFits, SameList, ListsInv
<1> QED
  BY <1>1, <1>3, <1>4, SaysInv DEF SameList

LEMMA CloseDialogInv ==
  ASSUME ListsInv, L!CloseDialog
  PROVE  ListsInv'
<1>1. /\ toClient' = toClient /\ toPage' = toPage /\ page' = page /\ visit' = visit /\ UNCHANGED L!client
      /\ list' = [list EXCEPT !.confirm = <<>>]
  BY DEF L!CloseDialog
<1>2. ListOk(list)
  BY DEF ListsInv, Port
<1>3. /\ ListOk(list') /\ list'.seq = list.seq /\ list'.error = list.error /\ list'.confirm = <<>>
      /\ list'.shown = list.shown /\ list'.half = list.half /\ list'.loaded = list.loaded /\ list'.read = list.read
  BY <1>1, <1>2, WithConfirm
<1>4. DialogFits(page, list')
  BY <1>3 DEF DialogFits
<1> QED
  BY <1>1, <1>3, <1>4, SaysInv

LEMMA AskFirstInv ==
  ASSUME ListsInv, NEW op \in {"punish", "approveDevice", "removeDevice"}, NEW x, L!AskFirst(op, x)
  PROVE  ListsInv'
<1> DEFINE ask == <<[op |-> op, of |-> x]>>
<1>1. /\ toClient' = toClient /\ toPage' = toPage /\ page' = page /\ visit' = visit /\ UNCHANGED L!client
      /\ list' = [list EXCEPT !.confirm = ask]
  BY DEF L!AskFirst
<1>2. ListOk(list)
  BY DEF ListsInv, Port
<1>3. ask[1].op = op
  OBVIOUS
<1> HIDE DEF ask
<1>4. /\ ListOk(list') /\ list'.seq = list.seq /\ list'.error = list.error /\ list'.confirm = ask
      /\ list'.shown = list.shown /\ list'.half = list.half /\ list'.loaded = list.loaded /\ list'.read = list.read
  BY <1>1, <1>2, WithConfirm
<1>5. page # "away" /\ op \in ListOps(page) \ ListReads
  <2>1. IF op = "punish" THEN page = "waves" ELSE page = "devices"
    BY DEF L!AskFirst, L!Waiting, L!Listed
  <2> QED
    BY <2>1 DEF ListOps, ListReads, L!WaveReads
<1>6. DialogFits(page, list')
  BY <1>3, <1>4, <1>5 DEF DialogFits
<1> QED
  BY <1>1, <1>4, <1>6, SaysInv

LEMMA ReloadInv ==
  ASSUME ListsInv, L!Reload
  PROVE  ListsInv'
<1> DEFINE e == IF page = "devices" THEN FALSE ELSE list.error
           m == [list EXCEPT !.error = IF page = "devices" THEN FALSE ELSE @]
           l == [m EXCEPT !.seq = m.seq + 1]
           tc == toClient \o L!Reads(page, "load", m.seq + 1, visit)
<1>1. /\ toClient' = tc /\ toPage' = toPage /\ page' = page /\ visit' = visit /\ UNCHANGED L!client /\ list' = l
      /\ page \in L!Lists
  BY DEF L!Reload, L!Loads, L!Lists
<1>2. ListOk(list) /\ e \in BOOLEAN /\ list.seq \in Nat
  BY DEF ListsInv, Port, ListOk
<1>3. m = [list EXCEPT !.error = e]
  OBVIOUS
<1> HIDE DEF m, e
<1>4. ListOk(m) /\ SameList(m, list) /\ m.seq = list.seq
  BY <1>2, <1>3, WithError
<1>5. ListOk(l) /\ SameList(l, m) /\ l.seq = list.seq + 1
  BY <1>2, <1>4, WithSeq
<1>6. tc = toClient \o L!Reads(page, "load", list.seq + 1, visit)
  BY <1>4
<1> HIDE DEF l, tc
<1> DEFINE w == L!WavesNow
           c == L!ContactsNow
           d == L!DevicesNow
<1>7. Port(tc, toPage, page, visit, l) /\ Flow3(tc, toPage, page, visit, l, w, c, d)
  <2>1. Port(toClient, toPage, page, visit, list) /\ Flow3(toClient, toPage, page, visit, list, w, c, d)
    BY DEF ListsInv
  <2> HIDE DEF w, c, d
  <2>2. page = "waves" => /\ ReadsInOrder(toClient, toPage, visit, list)
                          /\ list.loaded \/ list.half # <<>> => Cleared(toClient, visit)
                          /\ list.shown # <<>> => list.shown[1].first = list.shown[1].second
    BY <2>1 DEF Flow3, WavesFlow, WavesShown
  <2>3. l.half = list.half /\ l.shown = list.shown /\ l.loaded = list.loaded /\ l.read = list.read
    BY <1>4, <1>5 DEF SameList
  <2>4. (page = "contacts" => ContactsFlow(toClient, toPage, visit, list, c))
        /\ (page = "devices" => DevicesFlow(toPage, list, d)) /\ DevicesTold(toPage, d)
    BY <2>1 DEF Flow3
  <2> QED
    BY <1>1, <1>5, <1>6, <2>1, <2>2, <2>3, <2>4, LoadsKeep
<1>8. DialogFits(page, l)
  BY <1>4, <1>5 DEF DialogFits, SameList, ListsInv
<1> QED
  BY <1>1, <1>7, <1>8, ClientStays DEF ListsInv

-----------------------------------------------------------------------------
(* Lists: the client runs what was asked for.                              *)

LEMMA ContactsTail ==
  ASSUME NEW tc, NEW tp, NEW v, NEW l, NEW now, ContactsFlow(tc, tp, v, l, now), IsSeq(tc), tc # <<>>
  PROVE  ContactsFlow(Tail(tc), tp, v, l, now)
<1> DEFINE q == Tail(tc)
<1>1. Len(q) \in Nat /\ \A i \in 1..Len(q) : i + 1 \in 1..Len(tc) /\ q[i] = tc[i + 1]
  BY SeqTail
<1> HIDE DEF q
<1>2. Cleared(tc, v) => Cleared(q, v)
  BY <1>1 DEF Cleared
<1> QED
  BY <1>2 DEF ContactsFlow, q

LEMMA NotCleared ==
  ASSUME NEW tc, NEW tp, NEW p, NEW v, NEW l, Port(tc, tp, p, v, l), tc # <<>>, Head(tc).visit # v
  PROVE  /\ ~Cleared(tc, v) /\ VisitsInOrder(tc, tp) /\ v \in Nat
         /\ \A i \in 1..Len(tc) : tc[i].visit \in Nat /\ tc[i].visit <= v
<1>1. Head(tc) = tc[1] /\ 1 \in 1..Len(tc)
  BY PortRun
<1>2. \A i \in 1..Len(tc) : tc[i].visit \in Nat /\ tc[i].visit <= v
  BY CallVisits DEF Port
<1> QED
  BY <1>1, <1>2 DEF Port, Cleared

\* A call that the page did not ask for changes what the client holds.
LEMMA ChangeKeeps ==
  ASSUME NEW tc, NEW tp, NEW p, NEW v, NEW l, NEW w, NEW c, NEW d,
         Port(tc, tp, p, v, l), Flow3(tc, tp, p, v, l, w, c, d), tc # <<>>,
         NEW w2, p = "waves" /\ Head(tc).visit = v => w2 = w,
         NEW c2, p = "contacts" /\ Head(tc).visit = v => c2 = c
  PROVE  Flow3(tc, tp, p, v, l, w2, c2, d)
<1>1. ASSUME p = "waves"
      PROVE  WavesFlow(tc, tp, v, l, w2)
  <2>1. WavesFlow(tc, tp, v, l, w)
    BY <1>1 DEF Flow3
  <2>2. CASE Head(tc).visit # v
    BY <2>1, <2>2, NotCleared, UnclearedFlows
  <2> QED
    BY <1>1, <2>1, <2>2
<1>2. ASSUME p = "contacts"
      PROVE  ContactsFlow(tc, tp, v, l, c2)
  <2>1. ContactsFlow(tc, tp, v, l, c)
    BY <1>2 DEF Flow3
  <2>2. CASE Head(tc).visit # v
    BY <2>1, <2>2, NotCleared, UnclearedContacts
  <2> QED
    BY <1>2, <2>1, <2>2
<1> QED
  BY <1>1, <1>2 DEF Flow3

\* A message that tells of all that changed.
TellsAll(m, w, c, d, w2, c2, d2) ==
  /\ m.type \in {"wave-updated", "contacts", "devices"}
  /\ w2 = w \/ m.type = "wave-updated"
  /\ c2 = c \/ m.type = "contacts"
  /\ m.type = "contacts" => m.told = c2
  /\ d2 = d \/ m.type = "devices"
  /\ m.type = "devices" => m.told = d2

\* The client tells of what it changed.
LEMMA EventKeeps ==
  ASSUME NEW tc, NEW tp, NEW p, NEW v, NEW l, NEW w, NEW c, NEW d,
         Port(tc, tp, p, v, l), Flow3(tc, tp, p, v, l, w, c, d),
         NEW m, NEW w2, NEW c2, NEW d2, TellsAll(m, w, c, d, w2, c2, d2)
  PROVE  Port(tc, Append(tp, m), p, v, l) /\ Flow3(tc, Append(tp, m), p, v, l, w2, c2, d2)
<1>1. /\ IsSeq(tp) /\ m.type # "reply" /\ m.type \in {"wave-updated", "contacts", "devices"}
      /\ w2 = w \/ m.type = "wave-updated"
      /\ c2 = c \/ m.type = "contacts"
      /\ m.type = "contacts" => m.told = c2
      /\ d2 = d \/ m.type = "devices"
      /\ m.type = "devices" => m.told = d2
  BY DEF Port, TellsAll
<1>2. Port(tc, Append(tp, m), p, v, l)
  BY <1>1, PortTold DEF ListMessageOk
<1>3. p = "waves" => WavesFlow(tc, Append(tp, m), v, l, w2)
  BY <1>1, EventFlows DEF Flow3
<1>4. p = "contacts" => ContactsFlow(tc, Append(tp, m), v, l, c2)
  BY <1>1, ContactsAppended DEF Flow3
<1>5. DevicesTold(Append(tp, m), d2) /\ (p = "devices" => DevicesFlow(Append(tp, m), l, d2))
  BY <1>1, DevicesAppended DEF Flow3
<1> QED
  BY <1>2, <1>3, <1>4, <1>5 DEF Flow3

\* Nobody waits for the answer.
LEMMA OverKeeps ==
  ASSUME NEW tc, NEW tp, NEW p, NEW v, NEW l, NEW w, NEW c, NEW d,
         Port(tc, tp, p, v, l), Flow3(tc, tp, p, v, l, w, c, d), tc # <<>>, Head(tc).over
  PROVE  Port(Tail(tc), tp, p, v, l) /\ Flow3(Tail(tc), tp, p, v, l, w, c, d)
<1>1. IsSeq(tc)
  BY DEF Port
<1>2. p = "waves" => WavesFlow(Tail(tc), tp, v, l, w)
  BY <1>1, OverFlows DEF Flow3
<1>3. p = "contacts" => ContactsFlow(Tail(tc), tp, v, l, c)
  BY <1>1, ContactsTail DEF Flow3
<1> QED
  BY <1>2, <1>3, PortRun DEF Flow3

\* The answer: a read tells what is so.
LEMMA AnswerKeeps ==
  ASSUME NEW tc, NEW tp, NEW p, NEW v, NEW l, NEW w, NEW c, NEW d,
         Port(tc, tp, p, v, l), Flow3(tc, tp, p, v, l, w, c, d), tc # <<>>, ~Head(tc).over,
         NEW m, m.type = "reply", m.call = Head(tc), m.call.op \in ListReads => m.ok /\ m.told # <<>>,
         m.call.op \in L!WaveReads => m.told[1] = w, m.call.op = "contacts" => m.told[1] = c,
         m.call.op = "devices" => m.told[1] = d
  PROVE  Port(Tail(tc), Append(tp, m), p, v, l) /\ Flow3(Tail(tc), Append(tp, m), p, v, l, w, c, d)
<1>1. IsSeq(tc) /\ IsSeq(tp)
  BY DEF Port
<1>2. Port(Tail(tc), Append(tp, m), p, v, l)
  <2>1. Port(Tail(tc), tp, p, v, l) /\ ListCallOk(Head(tc), p, v, l.seq)
        /\ \A j \in 1..Len(Tail(tc)) : Head(tc).visit <= Tail(tc)[j].visit
    BY PortRun
  <2>2. ListMessageOk(m, p, v, l.seq)
    BY <2>1 DEF ListMessageOk
  <2> QED
    BY <2>1, <2>2, PortTold
<1>3. ASSUME p = "waves"
      PROVE  WavesFlow(Tail(tc), Append(tp, m), v, l, w)
  <2>1. \A i \in 1..Len(tc) : tc[i].seq \in Nat
    BY CallVisits DEF Port
  <2>2. \A i \in 1..Len(tp) : tp[i].type = "reply" => tp[i].call.seq \in Nat
    BY MessageVisits DEF Port
  <2>3. IsRead(m.call, v) => m.told[1] = w
    BY DEF IsRead
  <2>4. WavesFlow(tc, tp, v, l, w)
    BY <1>3 DEF Flow3
  <2> QED
    BY <1>1, <2>1, <2>2, <2>3, <2>4, AnsweredFlows
<1>4. ASSUME p = "contacts"
      PROVE  ContactsFlow(Tail(tc), Append(tp, m), v, l, c)
  <2>1. ContactsFlow(tc, tp, v, l, c)
    BY <1>4 DEF Flow3
  <2>2. ContactsFlow(tc, Append(tp, m), v, l, c)
    BY <1>1, <2>1, ContactsAppended
  <2> QED
    BY <1>1, <2>2, ContactsTail
<1>5. DevicesTold(Append(tp, m), d) /\ (p = "devices" => DevicesFlow(Append(tp, m), l, d))
  BY <1>1, DevicesAppended DEF Flow3
<1> QED
  BY <1>2, <1>3, <1>4, <1>5 DEF Flow3

\* What a call changes of the client, and what is told of it.
LEMMA RelatesChanges ==
  ASSUME NEW x, L!Relates(x)
  PROVE  /\ L!WavesNow' = L!WavesNow \/ x.op \in {"answer", "close", "punish", "sendWave"}
         /\ \/ L!ContactsNow' = L!ContactsNow
            \/ x.op \in {"answer", "close", "punish", "thread", "block", "unblock", "reopen", "closeConversation", "punishConversation"}
BY DEF L!Relates, L!related, L!WavesNow, L!ContactsNow, L!R!AnswerWave, L!R!CloseWave, L!R!PunishWave, L!R!BlockMember,
       L!R!UnblockMember, L!R!RequestReopen, L!R!SendWave, L!R!OpenThread, L!R!CloseConversation, L!R!PunishConversation

WaveChanges == {"answer", "close", "punish"}
ContactChanges == {"block", "unblock", "reopen", "closeConversation", "punishConversation"}
DeviceChanges == {"addDevice", "approveDevice", "removeDevice", "renameDevice"}

LEMMA AsksOfPage ==
  ASSUME NEW x, NEW p \in L!Lists, NEW v, NEW n, ListCallOk(x, p, v, n), x.visit = v
  PROVE  x.op \in ListOps(p) /\ p # "away"
BY DEF ListCallOk, L!Lists

LEMMA OpsApart ==
  /\ ListOps("waves") \cap {"sendWave", "thread"} = {}
  /\ ListOps("contacts") \cap (WaveChanges \cup {"sendWave", "thread"}) = {}
BY DEF ListOps, WaveChanges, L!WaveReads

LEMMA EventsOf ==
  ASSUME NEW x
  PROVE  /\ x.op \in WaveChanges => L!Event(x) = <<[type |-> "wave-updated"]>>
         /\ x.op \in ContactChanges => L!Event(x) = <<[type |-> "contacts", told |-> L!ContactsNow']>>
         /\ x.op \in DeviceChanges => L!Event(x) = <<[type |-> "devices", told |-> L!DevicesNow']>>
         /\ x.op \notin WaveChanges \cup ContactChanges \cup DeviceChanges => L!Event(x) = <<>>
BY DEF L!Event, WaveChanges, ContactChanges, DeviceChanges

LEMMA DevicesChange ==
  ASSUME NEW x, devices' = L!DevicesAfter(x), x.op \notin DeviceChanges
  PROVE  L!DevicesNow' = L!DevicesNow
BY DEF L!DevicesAfter, DeviceChanges, L!DevicesNow

\* The client changes, and tells of it.
LEMMA RunTells ==
  ASSUME ListsInv, toClient # <<>>, NEW x, x = Head(toClient), L!Relates(x), devices' = L!DevicesAfter(x),
         NEW tp, tp = toPage \o L!Event(x)
  PROVE  /\ Port(toClient, tp, page, visit, list)
         /\ Flow3(toClient, tp, page, visit, list, L!WavesNow', L!ContactsNow', L!DevicesNow')
<1> DEFINE w == L!WavesNow
           c == L!ContactsNow
           d == L!DevicesNow
           w2 == L!WavesNow'
           c2 == L!ContactsNow'
           d2 == L!DevicesNow'
<1>1. Port(toClient, toPage, page, visit, list) /\ Flow3(toClient, toPage, page, visit, list, w, c, d)
  BY DEF ListsInv
<1>2. IsSeq(toPage)
  BY DEF ListsInv, Port
<1>3. /\ w2 = w \/ x.op \in WaveChanges \cup {"sendWave"}
      /\ c2 = c \/ x.op \in WaveChanges \cup ContactChanges \cup {"thread"}
  BY RelatesChanges DEF WaveChanges, ContactChanges
<1>4. x.op \notin DeviceChanges => d2 = d
  BY DevicesChange
<1>5. /\ x.op \in WaveChanges => L!Event(x) = <<[type |-> "wave-updated"]>>
      /\ x.op \in ContactChanges => L!Event(x) = <<[type |-> "contacts", told |-> c2]>>
      /\ x.op \in DeviceChanges => L!Event(x) = <<[type |-> "devices", told |-> d2]>>
      /\ x.op \notin WaveChanges \cup ContactChanges \cup DeviceChanges => L!Event(x) = <<>>
  BY EventsOf
<1>6. /\ page = "waves" /\ x.visit = visit => x.op \notin {"sendWave"}
      /\ page = "contacts" /\ x.visit = visit => x.op \notin WaveChanges \cup {"thread"}
  <2>1. ListCallOk(x, page, visit, list.seq)
    BY <1>1, PortRun
  <2>2. {"waves", "contacts"} \subseteq L!Lists
    BY DEF L!Lists
  <2> QED
    BY <2>1, <2>2, AsksOfPage, OpsApart
<1>7. /\ WaveChanges \cap (ContactChanges \cup DeviceChanges \cup {"sendWave", "thread"}) = {}
      /\ ContactChanges \cap (DeviceChanges \cup {"sendWave", "thread"}) = {}
      /\ DeviceChanges \cap {"sendWave", "thread"} = {}
  BY DEF WaveChanges, ContactChanges, DeviceChanges
<1> HIDE DEF w, c, d, w2, c2, d2
<1>8. CASE x.op \in WaveChanges
  <2> DEFINE m == [type |-> "wave-updated"]
  <2>1. m.type = "wave-updated" /\ tp = toPage \o <<m>>
    BY <1>5, <1>8
  <2> HIDE DEF m
  <2>2. tp = Append(toPage, m)
    BY <1>2, <2>1, SeqAppended
  <2>3. Flow3(toClient, toPage, page, visit, list, w, c2, d)
    BY <1>1, <1>6, <1>8, ChangeKeeps
  <2>5. TellsAll(m, w, c2, d, w2, c2, d)
    BY <2>1 DEF TellsAll
  <2>4. Port(toClient, tp, page, visit, list) /\ Flow3(toClient, tp, page, visit, list, w2, c2, d)
    BY <1>1, <2>2, <2>3, <2>5, EventKeeps
  <2> QED
    BY <1>4, <1>7, <1>8, <2>4 DEF w2, c2, d2
<1>9. CASE x.op \in ContactChanges
  <2> DEFINE m == [type |-> "contacts", told |-> c2]
  <2>1. m.type = "contacts" /\ m.told = c2 /\ tp = toPage \o <<m>>
    BY <1>5, <1>9
  <2> HIDE DEF m
  <2>2. tp = Append(toPage, m)
    BY <1>2, <2>1, SeqAppended
  <2>3. w2 = w /\ d2 = d
    BY <1>3, <1>4, <1>7, <1>9
  <2>5. TellsAll(m, w, c, d, w, c2, d)
    BY <2>1 DEF TellsAll
  <2>4. Port(toClient, tp, page, visit, list) /\ Flow3(toClient, tp, page, visit, list, w, c2, d)
    BY <1>1, <2>2, <2>5, EventKeeps
  <2> QED
    BY <2>3, <2>4 DEF w2, c2, d2
<1>10. CASE x.op \in DeviceChanges
  <2> DEFINE m == [type |-> "devices", told |-> d2]
  <2>1. m.type = "devices" /\ m.told = d2 /\ tp = toPage \o <<m>>
    BY <1>5, <1>10
  <2> HIDE DEF m
  <2>2. tp = Append(toPage, m)
    BY <1>2, <2>1, SeqAppended
  <2>3. w2 = w /\ c2 = c
    BY <1>3, <1>7, <1>10
  <2>5. TellsAll(m, w, c, d, w, c, d2)
    BY <2>1 DEF TellsAll
  <2>4. Port(toClient, tp, page, visit, list) /\ Flow3(toClient, tp, page, visit, list, w, c, d2)
    BY <1>1, <2>2, <2>5, EventKeeps
  <2> QED
    BY <2>3, <2>4 DEF w2, c2, d2
<1>11. CASE x.op \notin WaveChanges \cup ContactChanges \cup DeviceChanges
  <2>1. tp = toPage
    BY <1>2, <1>5, <1>11, SeqAppended
  <2>2. page = "waves" /\ Head(toClient).visit = visit => w2 = w
    BY <1>3, <1>6, <1>11
  <2>3. page = "contacts" /\ Head(toClient).visit = visit => c2 = c
    BY <1>3, <1>6, <1>11
  <2>4. Flow3(toClient, toPage, page, visit, list, w2, c2, d)
    BY <1>1, <2>2, <2>3, ChangeKeeps
  <2> QED
    BY <1>1, <1>4, <1>11, <2>1, <2>4 DEF w2, c2, d2
<1> QED
  BY <1>8, <1>9, <1>10, <1>11

LEMMA ReadsAllowed ==
  ASSUME NEW x, x.op \in ListReads
  PROVE  L!Allowed(x)
BY DEF L!Allowed, ListReads, L!WaveReads

\* The answer is sent if somebody waits for it.
LEMMA RunAnswers ==
  ASSUME NEW tp, NEW tc, NEW p, NEW v, NEW l, NEW ok \in BOOLEAN, tc # <<>>, NEW x, x = Head(tc),
         Port(tc, tp, p, v, l), Flow3(tc, tp, p, v, l, L!WavesNow', L!ContactsNow', L!DevicesNow'),
         x.op \in ListReads => ok,
         NEW tp2, tp2 = tp \o L!Reply(x, ok)
  PROVE  Port(Tail(tc), tp2, p, v, l) /\ Flow3(Tail(tc), tp2, p, v, l, L!WavesNow', L!ContactsNow', L!DevicesNow')
<1> DEFINE w2 == L!WavesNow'
           c2 == L!ContactsNow'
           d2 == L!DevicesNow'
           told == IF ok THEN L!Told(x) ELSE <<>>
           m == [type |-> "reply", call |-> x, ok |-> ok, told |-> told]
<1>1. IsSeq(tp)
  BY DEF Port
<1>2. /\ x.op \in L!WaveReads => told = <<w2>>
      /\ x.op = "contacts" => told = <<c2>>
      /\ x.op = "devices" => told = <<d2>>
  BY DEF L!Told, ListReads, L!WaveReads
<1>3. L!Reply(x, ok) = IF x.over THEN <<>> ELSE <<m>>
  BY DEF L!Reply
<1>4. Flow3(tc, tp, p, v, l, w2, c2, d2)
  OBVIOUS
<1> HIDE DEF w2, c2, d2, told
<1>5. m.type = "reply" /\ m.call = x /\ m.told = told /\ (m.ok <=> ok)
  OBVIOUS
<1> HIDE DEF m
<1>6. CASE x.over
  <2>1. tp2 = tp
    BY <1>1, <1>3, <1>6, SeqAppended
  <2> QED
    BY <1>4, <1>6, <2>1, OverKeeps DEF w2, c2, d2
<1>7. CASE ~x.over
  <2>1. tp2 = Append(tp, m)
    <3>1. L!Reply(x, ok) = <<m>>
      BY <1>3, <1>7, Zenon
    <3>2. tp2 = tp \o <<m>>
      BY <3>1, Zenon
    <3> QED
      BY <1>1, <3>2, SeqAppended
  <2>2. /\ m.call.op \in ListReads => m.ok /\ m.told # <<>>
        /\ m.call.op \in L!WaveReads => m.told[1] = w2
        /\ m.call.op = "contacts" => m.told[1] = c2
        /\ m.call.op = "devices" => m.told[1] = d2
    BY <1>2, <1>5 DEF ListReads
  <2>3. Port(Tail(tc), tp2, p, v, l) /\ Flow3(Tail(tc), tp2, p, v, l, w2, c2, d2)
    BY <1>4, <1>5, <1>7, <2>1, <2>2, AnswerKeeps, ZenonT(40)
  <2> QED
    BY <2>3 DEF w2, c2, d2
<1> QED
  BY <1>6, <1>7

LEMMA ListsRunCall ==
  ASSUME ListsInv, L!RunCall
  PROVE  ListsInv'
<1> DEFINE x == Head(toClient)
           tp == toPage \o L!Event(x)
<1>1. /\ toClient # <<>> /\ toClient' = Tail(toClient)
      /\ page' = page /\ visit' = visit /\ list' = list
  BY DEF L!RunCall
<1>2. CASE L!Allowed(x)
  <2>1. L!Relates(x) /\ devices' = L!DevicesAfter(x) /\ toPage' = tp \o L!Reply(x, TRUE)
    BY <1>2 DEF L!RunCall
  <2>2. /\ Port(toClient, tp, page, visit, list)
        /\ Flow3(toClient, tp, page, visit, list, L!WavesNow', L!ContactsNow', L!DevicesNow')
    BY <1>1, <2>1, RunTells
  <2> HIDE DEF tp, x
  <2>3. /\ Port(Tail(toClient), toPage', page, visit, list)
        /\ Flow3(Tail(toClient), toPage', page, visit, list, L!WavesNow', L!ContactsNow', L!DevicesNow')
    BY <1>1, <2>1, <2>2, RunAnswers DEF x
  <2> QED
    BY <1>1, <2>3 DEF ListsInv
<1>3. CASE ~L!Allowed(x)
  <2>1. UNCHANGED L!client /\ toPage' = toPage \o L!Reply(x, FALSE)
    BY <1>3 DEF L!RunCall
  <2>2. x.op \notin ListReads
    BY <1>3, ReadsAllowed
  <2>3. /\ Port(toClient, toPage, page, visit, list)
        /\ Flow3(toClient, toPage, page, visit, list, L!WavesNow', L!ContactsNow', L!DevicesNow')
    BY <2>1, ClientStays DEF ListsInv
  <2> HIDE DEF x
  <2>4. /\ Port(Tail(toClient), toPage', page, visit, list)
        /\ Flow3(Tail(toClient), toPage', page, visit, list, L!WavesNow', L!ContactsNow', L!DevicesNow')
    BY <1>1, <2>1, <2>2, <2>3, RunAnswers DEF x
  <2> QED
    BY <1>1, <2>4 DEF ListsInv
<1> QED
  BY <1>2, <1>3

LEMMA ListsTimerFires ==
  ASSUME ListsInv, NEW i, L!TimerFires(i)
  PROVE  ListsInv'
<1> DEFINE m == [type |-> "wave-updated"]
           w == L!WavesNow
           c == L!ContactsNow
           d == L!DevicesNow
           w2 == L!WavesNow'
<1>1. /\ toPage' = Append(toPage, m) /\ toClient' = toClient /\ page' = page /\ visit' = visit /\ list' = list
      /\ devices' = devices
      /\ L!R!ReleaseFires(i) \/ L!R!ReturnFires(i)
  BY DEF L!TimerFires
<1>2. L!ContactsNow' = c /\ L!DevicesNow' = d
  BY <1>1 DEF L!R!ReleaseFires, L!R!ReturnFires, L!ContactsNow, L!DevicesNow
<1>3. Port(toClient, toPage, page, visit, list) /\ Flow3(toClient, toPage, page, visit, list, w, c, d)
  BY DEF ListsInv
<1>4. m.type = "wave-updated"
  OBVIOUS
<1> HIDE DEF m, w, c, d, w2
<1>5. Port(toClient, Append(toPage, m), page, visit, list) /\ Flow3(toClient, Append(toPage, m), page, visit, list, w2, c, d)
  <2>1. TellsAll(m, w, c, d, w2, c, d)
    BY <1>4 DEF TellsAll
  <2> QED
    BY <1>3, <2>1, EventKeeps
<1> QED
  BY <1>1, <1>2, <1>5 DEF ListsInv, w2

-----------------------------------------------------------------------------
(* Lists: the page hears of it.                                            *)

HeardOk(tc, tp, p, v, l, w, c, d) ==
  /\ p = "waves" => WavesFlow(tc, tp, v, l, w)
  /\ p = "contacts" => ContactsFlow(tc, tp, v, l, c)
  /\ p = "devices" => DevicesFlow(tp, l, d)

LEMMA HeardKeeps ==
  ASSUME NEW tc, NEW tp, NEW p, NEW v, NEW l, NEW w, NEW c, NEW d,
         Port(tc, tp, p, v, l), Flow3(tc, tp, p, v, l, w, c, d), tp # <<>>,
         NEW l2, ListOk(l2), l.seq <= l2.seq, HeardOk(tc, Tail(tp), p, v, l2, w, c, d)
  PROVE  Port(tc, Tail(tp), p, v, l2) /\ Flow3(tc, Tail(tp), p, v, l2, w, c, d)
<1>1. Port(tc, Tail(tp), p, v, l)
  BY PortHeard
<1>2. Port(tc, Tail(tp), p, v, l2)
  BY <1>1, PortList
<1>3. DevicesTold(Tail(tp), d)
  BY DevicesHeard DEF Flow3, Port
<1> QED
  BY <1>2, <1>3 DEF Flow3, HeardOk

\* The page goes on showing what it shows.
LEMMA GoesOnHearing ==
  ASSUME NEW tc, NEW tp, NEW p, NEW v, NEW l, NEW w, NEW c, NEW d,
         Port(tc, tp, p, v, l), Flow3(tc, tp, p, v, l, w, c, d), tp # <<>>,
         p = "waves" /\ Head(tp).type = "reply" =>
           ~IsNew(Head(tp).call, v, l.seq, "incomingWaves") /\ (l.error \/ ~Renews(Head(tp).call, v, l.seq)),
         Head(tp).type # "reply" => Head(tp).type # (CASE p = "waves" -> "wave-updated" [] OTHER -> p)
  PROVE  HeardOk(tc, Tail(tp), p, v, l, w, c, d)
<1>1. IsSeq(tp)
  BY DEF Port
<1>2. p = "waves" => WavesFlow(tc, Tail(tp), v, l, w)
  <2> SUFFICES ASSUME p = "waves"
               PROVE  WavesFlow(tc, Tail(tp), v, l, w)
    OBVIOUS
  <2>1. WavesFlow(tc, tp, v, l, w) /\ Head(tp).type # "wave-updated"
    BY DEF Flow3
  <2>2. Head(tp).type = "reply" => /\ ~IsNew(Head(tp).call, v, l.seq, "incomingWaves")
                                   /\ l.error \/ ~Renews(Head(tp).call, v, l.seq)
    OBVIOUS
  <2> QED
    BY <1>1, <2>1, <2>2, OthersFlow
<1>3. p = "contacts" => ContactsFlow(tc, Tail(tp), v, l, c)
  <2> SUFFICES ASSUME p = "contacts"
               PROVE  ContactsFlow(tc, Tail(tp), v, l, c)
    OBVIOUS
  <2>1. ContactsFlow(tc, tp, v, l, c) /\ Head(tp).type # "contacts"
    BY DEF Flow3
  <2> QED
    BY <1>1, <2>1, ContactsHeard
<1>4. p = "devices" => DevicesFlow(Tail(tp), l, d)
  <2> SUFFICES ASSUME p = "devices"
               PROVE  DevicesFlow(Tail(tp), l, d)
    OBVIOUS
  <2>1. DevicesFlow(tp, l, d) /\ DevicesTold(tp, d) /\ Head(tp).type # "devices"
    BY DEF Flow3
  <2> QED
    BY <1>1, <2>1, DevicesHeard
<1> QED
  BY <1>2, <1>3, <1>4 DEF HeardOk

\* An answer or an event makes the page read anew.
LEMMA HeardLoads ==
  ASSUME NEW tc, NEW tp, NEW p \in L!Lists, NEW v, NEW l, NEW w, NEW c, NEW d,
         Port(tc, tp, p, v, l), Flow3(tc, tp, p, v, l, w, c, d), tp # <<>>,
         p # "devices", p = "contacts" => Head(tp).type # "contacts",
         NEW for \in {"load", "after"},
         NEW l2, ListOk(l2), l2.seq = l.seq + 1, l2.half = l.half, l2.shown = l.shown, l2.loaded = l.loaded, l2.read = l.read,
         NEW tc2, tc2 = tc \o L!Reads(p, for, l.seq + 1, v)
  PROVE  Port(tc2, Tail(tp), p, v, l2) /\ Flow3(tc2, Tail(tp), p, v, l2, w, c, d)
<1>1. Port(tc, Tail(tp), p, v, l)
  BY PortHeard
<1>2. IsSeq(tp)
  BY DEF Port
<1>3. DevicesTold(Tail(tp), d)
  BY <1>2, DevicesHeard DEF Flow3
<1>4. p = "waves" => /\ ReadsInOrder(tc, Tail(tp), v, l)
                     /\ l.loaded \/ l.half # <<>> => Cleared(tc, v)
                     /\ l.shown # <<>> => l.shown[1].first = l.shown[1].second
  BY <1>2, OrderHears DEF Flow3, WavesFlow, WavesShown
<1>5. p = "contacts" => ContactsFlow(tc, Tail(tp), v, l, c)
  <2> SUFFICES ASSUME p = "contacts"
               PROVE  ContactsFlow(tc, Tail(tp), v, l, c)
    OBVIOUS
  <2>1. ContactsFlow(tc, tp, v, l, c) /\ Head(tp).type # "contacts"
    BY DEF Flow3
  <2> QED
    BY <1>2, <2>1, ContactsHeard
<1>6. p = "devices" => DevicesFlow(Tail(tp), l, d)
  OBVIOUS
<1> DEFINE q == Tail(tp)
<1> HIDE DEF q
<1>7. /\ Port(tc, q, p, v, l) /\ DevicesTold(q, d)
      /\ p = "contacts" => ContactsFlow(tc, q, v, l, c)
      /\ p = "devices" => DevicesFlow(q, l, d)
  BY <1>1, <1>3, <1>5, <1>6 DEF q
<1>8. p = "waves" => /\ ReadsInOrder(tc, q, v, l)
                     /\ l.loaded \/ l.half # <<>> => Cleared(tc, v)
                     /\ l.shown # <<>> => l.shown[1].first = l.shown[1].second
  BY <1>4 DEF q
<1>9. Port(tc2, q, p, v, l2) /\ Flow3(tc2, q, p, v, l2, w, c, d)
  BY <1>7, <1>8, LoadsKeep
<1> QED
  BY <1>9 DEF q

-----------------------------------------------------------------------------

LEMMA WithBusy ==
  ASSUME NEW l, ListOk(l), NEW b
  PROVE  LET m == [l EXCEPT !.busy = b] IN ListOk(m) /\ SameList(m, l) /\ m.seq = l.seq /\ m.error = l.error
<1> DEFINE m == [l EXCEPT !.busy = b]
<1>1. m = [seq |-> l.seq, half |-> l.half, shown |-> l.shown, loaded |-> l.loaded, error |-> l.error,
           busy |-> b, confirm |-> l.confirm, read |-> l.read]
  BY DEF ListOk
<1> HIDE DEF m
<1>2. m.seq = l.seq /\ m.half = l.half /\ m.shown = l.shown /\ m.loaded = l.loaded /\ m.error = l.error
      /\ m.busy = b /\ m.confirm = l.confirm /\ m.read = l.read
  BY <1>1
<1>3. ListOk(m)
  BY <1>1, <1>2 DEF ListOk
<1> QED
  BY <1>2, <1>3 DEF m, SameList

HalfSet(m, l, x) ==
  /\ ListOk(m) /\ m.seq = l.seq /\ m.half = x /\ m.shown = l.shown /\ m.loaded = l.loaded
  /\ m.error = l.error /\ m.confirm = l.confirm /\ m.read = l.read

LEMMA WithHalf ==
  ASSUME NEW l, ListOk(l), NEW x
  PROVE  HalfSet([l EXCEPT !.half = x], l, x)
<1> DEFINE m == [l EXCEPT !.half = x]
<1>1. m = [seq |-> l.seq, half |-> x, shown |-> l.shown, loaded |-> l.loaded, error |-> l.error,
           busy |-> l.busy, confirm |-> l.confirm, read |-> l.read]
  BY DEF ListOk
<1> HIDE DEF m
<1>2. m.seq = l.seq /\ m.half = x /\ m.shown = l.shown /\ m.loaded = l.loaded /\ m.error = l.error
      /\ m.busy = l.busy /\ m.confirm = l.confirm /\ m.read = l.read
  BY <1>1
<1>3. ListOk(m)
  BY <1>1, <1>2 DEF ListOk
<1> QED
  BY <1>2, <1>3 DEF m, HalfSet

LEMMA WithShown ==
  ASSUME NEW l, ListOk(l), NEW x
  PROVE  LET m == [l EXCEPT !.shown = x] IN
           /\ ListOk(m) /\ m.seq = l.seq /\ m.half = l.half /\ m.shown = x /\ m.loaded = l.loaded
           /\ m.error = l.error /\ m.confirm = l.confirm /\ m.read = l.read
<1> DEFINE m == [l EXCEPT !.shown = x]
<1>1. m = [seq |-> l.seq, half |-> l.half, shown |-> x, loaded |-> l.loaded, error |-> l.error,
           busy |-> l.busy, confirm |-> l.confirm, read |-> l.read]
  BY DEF ListOk
<1> HIDE DEF m
<1>2. m.seq = l.seq /\ m.half = l.half /\ m.shown = x /\ m.loaded = l.loaded /\ m.error = l.error
      /\ m.busy = l.busy /\ m.confirm = l.confirm /\ m.read = l.read
  BY <1>1
<1>3. ListOk(m)
  BY <1>1, <1>2 DEF ListOk
<1> QED
  BY <1>2, <1>3 DEF m

LEMMA WithLoaded ==
  ASSUME NEW l, ListOk(l), NEW x \in BOOLEAN
  PROVE  LET m == [l EXCEPT !.loaded = x] IN
           /\ ListOk(m) /\ m.seq = l.seq /\ m.half = l.half /\ m.shown = l.shown /\ m.loaded = x
           /\ m.error = l.error /\ m.confirm = l.confirm /\ m.read = l.read
<1> DEFINE m == [l EXCEPT !.loaded = x]
<1>1. m = [seq |-> l.seq, half |-> l.half, shown |-> l.shown, loaded |-> x, error |-> l.error,
           busy |-> l.busy, confirm |-> l.confirm, read |-> l.read]
  BY DEF ListOk
<1> HIDE DEF m
<1>2. m.seq = l.seq /\ m.half = l.half /\ m.shown = l.shown /\ m.loaded = x /\ m.error = l.error
      /\ m.busy = l.busy /\ m.confirm = l.confirm /\ m.read = l.read
  BY <1>1
<1>3. ListOk(m)
  BY <1>1, <1>2 DEF ListOk
<1> QED
  BY <1>2, <1>3 DEF m

LEMMA WithRead ==
  ASSUME NEW l, ListOk(l), NEW x \in BOOLEAN
  PROVE  LET m == [l EXCEPT !.read = x] IN
           /\ ListOk(m) /\ m.seq = l.seq /\ m.half = l.half /\ m.shown = l.shown /\ m.loaded = l.loaded
           /\ m.error = l.error /\ m.confirm = l.confirm /\ m.read = x
<1> DEFINE m == [l EXCEPT !.read = x]
<1>1. m = [seq |-> l.seq, half |-> l.half, shown |-> l.shown, loaded |-> l.loaded, error |-> l.error,
           busy |-> l.busy, confirm |-> l.confirm, read |-> x]
  BY DEF ListOk
<1> HIDE DEF m
<1>2. m.seq = l.seq /\ m.half = l.half /\ m.shown = l.shown /\ m.loaded = l.loaded /\ m.error = l.error
      /\ m.busy = l.busy /\ m.confirm = l.confirm /\ m.read = x
  BY <1>1
<1>3. ListOk(m)
  BY <1>1, <1>2 DEF ListOk
<1> QED
  BY <1>2, <1>3 DEF m

\* What is shown of a load, and what is kept.
LoadShown(m, x, content) ==
  /\ ListOk(m) /\ m.seq = list.seq /\ m.half = list.half /\ m.confirm = list.confirm
  /\ L!Newest(x) => m.shown = <<content>> /\ m.read = TRUE
  /\ ~L!Newest(x) => m.shown = list.shown /\ m.loaded = list.loaded /\ m.error = list.error /\ m.read = list.read

LEMMA LoadEndsFields ==
  ASSUME ListOk(list), NEW x, NEW content
  PROVE  LoadShown(L!LoadEnds(x, content), x, content)
<1> DEFINE m0 == L!Settled(x)
           one == <<content>>
           yes == TRUE
           e == IF page = "devices" THEN list.error ELSE FALSE
           m1 == [m0 EXCEPT !.shown = one]
           m2 == [m1 EXCEPT !.loaded = yes]
           m3 == [m2 EXCEPT !.read = yes]
           m4 == [m3 EXCEPT !.error = IF page = "devices" THEN m3.error ELSE FALSE]
           m == L!LoadEnds(x, content)
<1>1. m = IF L!Newest(x) THEN m4 ELSE m0
  BY DEF L!LoadEnds
<1>2. m0 = [list EXCEPT !.busy = IF x.for = "after" THEN FALSE ELSE list.busy]
  BY DEF L!Settled
<1>3. yes \in BOOLEAN /\ e \in BOOLEAN /\ yes = TRUE
  BY DEF ListOk
<1> HIDE DEF m0, one, yes, m
<1>4. ListOk(m0) /\ SameList(m0, list) /\ m0.seq = list.seq /\ m0.error = list.error
  BY <1>2, WithBusy
<1>5. /\ ListOk(m1) /\ m1.seq = m0.seq /\ m1.half = m0.half /\ m1.shown = one
      /\ m1.error = m0.error /\ m1.confirm = m0.confirm
  BY <1>4, WithShown
<1> HIDE DEF m1
<1>6. /\ ListOk(m2) /\ m2.seq = m0.seq /\ m2.half = m0.half /\ m2.shown = one
      /\ m2.error = m0.error /\ m2.confirm = m0.confirm
  BY <1>3, <1>5, WithLoaded
<1> HIDE DEF m2
<1>7. /\ ListOk(m3) /\ m3.seq = m0.seq /\ m3.half = m0.half /\ m3.shown = one
      /\ m3.error = m0.error /\ m3.confirm = m0.confirm /\ m3.read = yes
  BY <1>3, <1>6, WithRead
<1> HIDE DEF m3
<1>8. m4 = [m3 EXCEPT !.error = e]
  BY <1>4, <1>7
<1> HIDE DEF m4, e
<1>9. ListOk(m4) /\ SameList(m4, m3) /\ m4.seq = m3.seq
  BY <1>3, <1>7, <1>8, WithError
<1>10. ASSUME L!Newest(x)
       PROVE  m.shown = <<content>> /\ m.read = TRUE
  <2>1. m = m4
    BY <1>1, <1>10
  <2>2. m.read = TRUE
    BY <1>3, <1>7, <1>9, <2>1, Zenon DEF SameList
  <2>3. m.shown = <<content>>
    BY <1>7, <1>9, <2>1 DEF SameList, one
  <2> QED
    BY <2>2, <2>3
<1>11. ASSUME ~L!Newest(x)
       PROVE  m.shown = list.shown /\ m.loaded = list.loaded /\ m.error = list.error /\ m.read = list.read
  BY <1>1, <1>4, <1>11 DEF SameList
<1>12. ListOk(m) /\ m.seq = list.seq /\ m.half = list.half /\ m.confirm = list.confirm
  <2>1. CASE L!Newest(x)
    BY <1>1, <1>4, <1>7, <1>9, <2>1 DEF SameList
  <2>2. CASE ~L!Newest(x)
    BY <1>1, <1>4, <2>2 DEF SameList
  <2> QED
    BY <2>1, <2>2
<1> QED
  BY <1>10, <1>11, <1>12, Zenon DEF LoadShown, m

\* What the page does with an answer to one of its reads.
LEMMA ReadHeard ==
  ASSUME ListsInv, toPage # <<>>, Head(toPage).type = "reply",
         NEW x, x = Head(toPage).call, x.visit = visit, page # "away", x.for # "act",
         NEW told, told = Head(toPage).told, NEW l2, l2 = L!ReadAnswered(x, Head(toPage).ok, told)
  PROVE  /\ ListOk(l2) /\ l2.seq = list.seq /\ l2.confirm = list.confirm
         /\ HeardOk(toClient, Tail(toPage), page, visit, l2, L!WavesNow, L!ContactsNow, L!DevicesNow)
<1> DEFINE w == L!WavesNow
           c == L!ContactsNow
           d == L!DevicesNow
           q == Tail(toPage)
           ok == Head(toPage).ok
<1>1. Port(toClient, toPage, page, visit, list) /\ Flow3(toClient, toPage, page, visit, list, w, c, d)
  BY DEF ListsInv
<1>2. IsSeq(toPage) /\ IsSeq(toClient) /\ ListOk(list) /\ list.seq \in Nat /\ page \in L!Lists /\ visit \in Nat
  BY <1>1 DEF Port, ListOk
<1>3. Cleared(toClient, visit) /\ ListMessageOk(Head(toPage), page, visit, list.seq)
  BY <1>1, PortHeard
<1>4. ListCallOk(x, page, visit, list.seq)
  BY <1>3, MessageVisits
<1>5. x.op \in ListOps(page) /\ x.op \in ListReads /\ x.seq \in 0..list.seq /\ x.seq \in Nat
  BY <1>2, <1>4 DEF ListCallOk, L!Lists
<1>6. ok /\ x.op \in ListReads
  BY <1>3, <1>5 DEF ListMessageOk
<1> HIDE DEF w, c, d, ok
<1>7. CASE page = "waves"
  <2>1. x.op \in L!WaveReads
    BY <1>5, <1>7 DEF ListOps, ListReads, L!WaveReads
  <2>2. WavesFlow(toClient, toPage, visit, list, w)
    BY <1>1, <1>7 DEF Flow3
  <2>3. CASE x.op = "incomingWaves"
    <3> DEFINE h == <<[seq |-> x.seq, told |-> told[1]]>>
    <3>1. l2 = [list EXCEPT !.half = h]
      BY <1>6, <2>3 DEF L!ReadAnswered, ok
    <3>2. h # <<>> /\ h[1].seq = x.seq /\ h[1].told = told[1]
      OBVIOUS
    <3> HIDE DEF h
    <3>3. /\ ListOk(l2) /\ l2.seq = list.seq /\ l2.half = h /\ l2.shown = list.shown /\ l2.loaded = list.loaded
          /\ l2.error = list.error /\ l2.confirm = list.confirm
      <4>1. ListOk(list)
        BY <1>2
      <4>2. HalfSet([list EXCEPT !.half = h], list, h)
        BY <4>1, WithHalf, Zenon
      <4>3. HalfSet(l2, list, h)
        BY <3>1, <4>2, Zenon
      <4> QED
        BY <4>3 DEF HalfSet
    <3>4. WavesFlow(toClient, q, visit, l2, w)
      BY <1>2, <1>3, <1>5, <2>2, <2>3, <3>2, <3>3, FirstFlows
    <3> QED
      BY <1>7, <3>3, <3>4 DEF HeardOk, w, c, d
  <2>4. CASE x.op = "waveSlots" /\ ~Half(list, x.seq)
    <3>1. l2 = list
      BY <1>6, <2>4 DEF L!ReadAnswered, ok, Half
    <3>2. WavesFlow(toClient, q, visit, list, w)
      BY <1>2, <1>5, <2>2, <2>4, SecondAloneFlows
    <3> QED
      BY <1>2, <1>7, <3>1, <3>2 DEF HeardOk, w, c, d
  <2>5. CASE x.op = "waveSlots" /\ Half(list, x.seq)
    <3> DEFINE content == [first |-> list.half[1].told, second |-> told[1]]
               m == L!LoadEnds(x, content)
               none == <<>>
    <3>1. l2 = [m EXCEPT !.half = none]
      BY <1>6, <2>5 DEF L!ReadAnswered, ok, Half
    <3>2. /\ ListOk(m) /\ m.seq = list.seq /\ m.half = list.half /\ m.confirm = list.confirm
          /\ L!Newest(x) => m.shown = <<content>>
          /\ ~L!Newest(x) => m.shown = list.shown /\ m.loaded = list.loaded /\ m.error = list.error
      <4>1. LoadShown(m, x, content)
        BY <1>2, LoadEndsFields, Zenon
      <4> HIDE DEF m, content
      <4> QED
        BY <4>1 DEF LoadShown
    <3>3. content.first = list.half[1].told /\ content.second = told[1] /\ none = <<>>
      OBVIOUS
    <3> HIDE DEF content, m, none
    <3>4. /\ ListOk(l2) /\ l2.seq = list.seq /\ l2.half = <<>> /\ l2.shown = m.shown /\ l2.loaded = m.loaded
          /\ l2.error = m.error /\ l2.confirm = list.confirm
      <4>1. HalfSet(l2, m, none)
        BY <3>1, <3>2, WithHalf, Zenon
      <4> QED
        BY <3>2, <3>3, <4>1 DEF HalfSet
    <3>5. CASE x.seq = list.seq
      <4>1. L!Newest(x)
        BY <3>5 DEF L!Newest
      <4>2. l2.shown[1].first = list.half[1].told /\ l2.shown[1].second = told[1]
        BY <3>2, <3>3, <3>4, <4>1
      <4>3. WavesFlow(toClient, q, visit, l2, w)
        BY <1>2, <2>2, <2>5, <3>4, <3>5, <4>2, LoadedFlows
      <4> QED
        BY <1>7, <3>4, <4>3 DEF HeardOk, w, c, d
    <3>6. CASE x.seq # list.seq
      <4>1. ~L!Newest(x)
        BY <1>7, <3>6 DEF L!Newest
      <4>2. l2.shown = list.shown /\ l2.loaded = list.loaded /\ l2.error = list.error
        BY <3>2, <3>4, <4>1
      <4>3. WavesFlow(toClient, q, visit, l2, w)
        BY <1>2, <2>2, <2>5, <3>4, <3>6, <4>2, EarlierFlows
      <4> QED
        BY <1>7, <3>4, <4>3 DEF HeardOk, w, c, d
    <3> QED
      BY <3>5, <3>6
  <2> QED
    BY <2>1, <2>3, <2>4, <2>5 DEF L!WaveReads
<1>8. CASE page # "waves"
  <2>1. x.op = page /\ page \in {"contacts", "devices"}
    BY <1>2, <1>5, <1>8 DEF ListOps, ListReads, L!WaveReads, L!Lists
  <2>2. l2 = L!LoadEnds(x, told[1])
    BY <1>6, <2>1 DEF L!ReadAnswered, ok, L!WaveReads
  <2>3. /\ ListOk(l2) /\ l2.seq = list.seq /\ l2.confirm = list.confirm
        /\ L!Newest(x) => l2.shown = <<told[1]>>
        /\ ~L!Newest(x) => l2.shown = list.shown /\ l2.read = list.read
    <3>1. LoadShown(l2, x, told[1])
      BY <1>2, <2>2, LoadEndsFields, Zenon
    <3> QED
      BY <3>1 DEF LoadShown
  <2>4. L!Newest(x) => l2.shown[1] = told[1]
    BY <2>3
  <2>5. CASE page = "contacts"
    <3>1. ContactsFlow(toClient, toPage, visit, list, c)
      BY <1>1, <2>5 DEF Flow3
    <3>2. \/ l2.read = list.read /\ l2.shown = list.shown /\ Head(toPage).type # "contacts"
          \/ /\ l2.shown[1] = Head(toPage).told[1] /\ Head(toPage).type = "reply"
             /\ Head(toPage).call.visit = visit /\ Head(toPage).call.op = "contacts" /\ Cleared(toClient, visit)
      BY <1>3, <2>1, <2>3, <2>4, <2>5
    <3>3. ContactsFlow(toClient, q, visit, l2, c)
      BY <1>2, <3>1, <3>2, ContactsHeard
    <3> QED
      BY <2>3, <2>5, <3>3 DEF HeardOk, w, c, d
  <2>6. CASE page = "devices"
    <3>1. DevicesTold(toPage, d)
      BY <1>1 DEF Flow3
    <3>2. Recent(Head(toPage).told[1], d, q, 0, "devices")
      BY <1>2, <2>1, <2>6, <3>1, DevicesHeard
    <3>3. L!Newest(x)
      BY <2>6 DEF L!Newest
    <3>4. DevicesFlow(q, l2, d)
      BY <2>4, <3>2, <3>3 DEF DevicesFlow
    <3> QED
      BY <2>3, <2>6, <3>4 DEF HeardOk, w, c, d
  <2> QED
    BY <2>1, <2>5, <2>6
<1> QED
  BY <1>7, <1>8

\* The page hears, and its calls stay as they are.
LEMMA HeardInv ==
  ASSUME ListsInv, toPage # <<>>, toPage' = Tail(toPage), toClient' = toClient, page' = page, visit' = visit, UNCHANGED L!client,
         ListOk(list'), list.seq <= list'.seq, DialogFits(page, list'),
         HeardOk(toClient, Tail(toPage), page, visit, list', L!WavesNow, L!ContactsNow, L!DevicesNow)
  PROVE  ListsInv'
<1> DEFINE w == L!WavesNow
           c == L!ContactsNow
           d == L!DevicesNow
           l == list'
<1>1. Port(toClient, toPage, page, visit, list) /\ Flow3(toClient, toPage, page, visit, list, w, c, d)
  BY DEF ListsInv
<1>2. ListOk(l) /\ list.seq <= l.seq /\ HeardOk(toClient, Tail(toPage), page, visit, l, w, c, d)
  OBVIOUS
<1> HIDE DEF w, c, d, l
<1>3. Port(toClient, Tail(toPage), page, visit, l) /\ Flow3(toClient, Tail(toPage), page, visit, l, w, c, d)
  BY <1>1, <1>2, HeardKeeps
<1> QED
  BY <1>3, ClientStays DEF ListsInv, w, c, d, l

\* The page hears, and reads anew.
LEMMA HeardLoadsInv ==
  ASSUME ListsInv, toPage # <<>>, toPage' = Tail(toPage), page' = page, visit' = visit, UNCHANGED L!client,
         page \in {"waves", "contacts"}, page = "contacts" => Head(toPage).type # "contacts",
         NEW for \in {"load", "after"}, NEW new, ListOk(new), new.seq = list.seq, new.half = list.half,
         new.shown = list.shown, new.loaded = list.loaded, new.read = list.read, DialogFits(page, new),
         L!Loads(for, new, toClient)
  PROVE  ListsInv'
<1> DEFINE n == new.seq + 1
           l == [new EXCEPT !.seq = n]
           tc == toClient \o L!Reads(page, for, new.seq + 1, visit)
           w == L!WavesNow
           c == L!ContactsNow
           d == L!DevicesNow
<1>1. list' = l /\ toClient' = tc
  BY DEF L!Loads
<1>2. ListOk(l) /\ SameList(l, new) /\ l.seq = n
  <2>1. n \in Nat
    BY DEF ListOk
  <2> HIDE DEF n
  <2> QED
    BY <2>1, WithSeq
<1>3. l.seq = list.seq + 1 /\ l.half = list.half /\ l.shown = list.shown /\ l.loaded = list.loaded /\ l.read = list.read
      /\ l.confirm = new.confirm
  BY <1>2 DEF SameList
<1>4. Port(toClient, toPage, page, visit, list) /\ Flow3(toClient, toPage, page, visit, list, w, c, d)
  BY DEF ListsInv
<1>5. tc = toClient \o L!Reads(page, for, list.seq + 1, visit)
  OBVIOUS
<1>6. page \in L!Lists /\ page # "devices"
  BY DEF L!Lists
<1> HIDE DEF l, tc, w, c, d
<1>7. Port(tc, Tail(toPage), page, visit, l) /\ Flow3(tc, Tail(toPage), page, visit, l, w, c, d)
  BY <1>2, <1>3, <1>4, <1>5, <1>6, HeardLoads
<1>8. DialogFits(page, l)
  BY <1>3 DEF DialogFits
<1> QED
  BY <1>1, <1>7, <1>8, ClientStays DEF ListsInv, w, c, d

\* What the page holds is of its visit; answers to other visits say nothing.
LEMMA StrangerHeard ==
  ASSUME ListsInv, toPage # <<>>, Head(toPage).type = "reply", Head(toPage).call.visit # visit \/ page = "away"
  PROVE  HeardOk(toClient, Tail(toPage), page, visit, list, L!WavesNow, L!ContactsNow, L!DevicesNow)
<1> DEFINE w == L!WavesNow
           c == L!ContactsNow
           d == L!DevicesNow
<1>1. Port(toClient, toPage, page, visit, list) /\ Flow3(toClient, toPage, page, visit, list, w, c, d)
  BY DEF ListsInv
<1>2. page = "waves" /\ Head(toPage).type = "reply" =>
        ~IsNew(Head(toPage).call, visit, list.seq, "incomingWaves") /\ ~Renews(Head(toPage).call, visit, list.seq)
  BY DEF IsNew, Renews
<1> HIDE DEF w, c, d
<1>3. HeardOk(toClient, Tail(toPage), page, visit, list, w, c, d)
  BY <1>1, <1>2, GoesOnHearing
<1> QED
  BY <1>3 DEF w, c, d

\* A change is answered, and the page changes what it says.
LEMMA ChangeHeard ==
  ASSUME ListsInv, toPage # <<>>, Head(toPage).type = "reply", Head(toPage).call.visit = visit, page # "away",
         Head(toPage).call.for = "act",
         NEW l2, ListOk(l2), l2.seq = list.seq, l2.half = list.half,
         l2.shown = list.shown, l2.loaded = list.loaded, l2.read = list.read, page = "waves" => l2.error
  PROVE  HeardOk(toClient, Tail(toPage), page, visit, l2, L!WavesNow, L!ContactsNow, L!DevicesNow)
<1> DEFINE w == L!WavesNow
           c == L!ContactsNow
           d == L!DevicesNow
<1>1. Port(toClient, toPage, page, visit, list) /\ Flow3(toClient, toPage, page, visit, list, w, c, d)
  BY DEF ListsInv
<1> HIDE DEF w, c, d
<1>2. Port(toClient, toPage, page, visit, l2)
  <2>1. list.seq <= l2.seq
    BY DEF ListOk
  <2> QED
    BY <1>1, <2>1, PortList
<1>3. Flow3(toClient, toPage, page, visit, l2, w, c, d)
  <2>1. page = "waves" => WavesFlow(toClient, toPage, visit, l2, w)
    BY <1>1, FieldsFlow DEF Flow3
  <2>2. page = "contacts" => ContactsFlow(toClient, toPage, visit, l2, c)
    BY <1>1 DEF Flow3, ContactsFlow
  <2>3. page = "devices" => DevicesFlow(toPage, l2, d)
    BY <1>1 DEF Flow3, DevicesFlow
  <2> QED
    BY <1>1, <2>1, <2>2, <2>3 DEF Flow3
<1>4. page = "waves" => ~IsNew(Head(toPage).call, visit, list.seq, "incomingWaves")
  <2> SUFFICES ASSUME page = "waves", IsNew(Head(toPage).call, visit, list.seq, "incomingWaves")
               PROVE  FALSE
    OBVIOUS
  <2>1. ListCallOk(Head(toPage).call, page, visit, list.seq)
    BY <1>1, PortHeard, MessageVisits
  <2>2. Head(toPage).call.op = "incomingWaves"
    BY DEF IsNew
  <2> QED
    BY <2>1, <2>2 DEF ListCallOk, ListReads, L!WaveReads
<1>5. page = "waves" /\ Head(toPage).type = "reply" =>
        /\ ~IsNew(Head(toPage).call, visit, l2.seq, "incomingWaves")
        /\ l2.error \/ ~Renews(Head(toPage).call, visit, l2.seq)
  BY <1>4
<1>6. HeardOk(toClient, Tail(toPage), page, visit, l2, w, c, d)
  BY <1>2, <1>3, <1>5, GoesOnHearing
<1> QED
  BY <1>6 DEF w, c, d

LEMMA HearReplyInv ==
  ASSUME ListsInv, L!HearReply
  PROVE  ListsInv'
<1> DEFINE m == Head(toPage)
           x == Head(toPage).call
<1>1. /\ toPage # <<>> /\ m.type = "reply" /\ toPage' = Tail(toPage) /\ UNCHANGED L!client
      /\ page' = page /\ visit' = visit /\ L!Continue(x, m.ok, m.told, toClient)
  BY DEF L!HearReply
<1>2. ListOk(list) /\ list.seq \in Nat /\ DialogFits(page, list) /\ page \in L!Lists \cup {"away"}
  BY DEF ListsInv, Port, ListOk
<1>3. CASE x.visit # visit \/ page = "away"
  <2>1. toClient' = toClient /\ list' = list
    BY <1>1, <1>3 DEF L!Continue
  <2>2. HeardOk(toClient, Tail(toPage), page, visit, list, L!WavesNow, L!ContactsNow, L!DevicesNow)
    BY <1>1, <1>3, StrangerHeard
  <2>3. list.seq <= list.seq
    BY <1>2
  <2> QED
    BY <1>1, <1>2, <2>1, <2>2, <2>3, HeardInv
<1>4. CASE x.visit = visit /\ page # "away" /\ x.for = "act" /\ m.ok
  <2> DEFINE none == <<>>
             closed == [list EXCEPT !.confirm = none]
  <2>1. L!ActDone(toClient)
    BY <1>1, <1>4 DEF L!Continue
  <2>2. /\ ListOk(closed) /\ closed.seq = list.seq /\ closed.error = list.error /\ closed.confirm = none
        /\ closed.shown = list.shown /\ closed.half = list.half /\ closed.loaded = list.loaded /\ closed.read = list.read
    BY <1>2, WithConfirm
  <2>3. DialogFits(page, closed)
    BY <2>2 DEF DialogFits
  <2>4. CASE page = "devices"
    <3>1. list' = [closed EXCEPT !.busy = FALSE] /\ toClient' = toClient
      BY <2>1, <2>4 DEF L!ActDone
    <3> HIDE DEF closed
    <3>2. ListOk(list') /\ SameList(list', closed) /\ list'.seq = closed.seq
      BY <2>2, <3>1, WithBusy
    <3>3. /\ list'.seq = list.seq /\ list'.half = list.half /\ list'.shown = list.shown
          /\ list'.loaded = list.loaded /\ list'.read = list.read /\ DialogFits(page, list') /\ list.seq <= list'.seq
      BY <1>2, <2>2, <2>3, <3>2 DEF SameList, DialogFits
    <3>4. HeardOk(toClient, Tail(toPage), page, visit, list', L!WavesNow, L!ContactsNow, L!DevicesNow)
      BY <1>1, <1>4, <2>4, <3>2, <3>3, ChangeHeard
    <3> QED
      BY <1>1, <3>1, <3>2, <3>3, <3>4, HeardInv
  <2>5. CASE page # "devices"
    <3>1. L!Loads("after", closed, toClient) /\ page \in {"waves", "contacts"}
      BY <1>2, <1>4, <2>1, <2>5 DEF L!ActDone, L!Lists
    <3> HIDE DEF closed
    <3>2. page = "contacts" => m.type # "contacts"
      BY <1>1
    <3> QED
      BY <1>1, <2>2, <2>3, <3>1, <3>2, HeardLoadsInv
  <2> QED
    BY <2>4, <2>5
<1>5. CASE x.visit = visit /\ page # "away" /\ x.for = "act" /\ ~m.ok
  <2>1. list' = [list EXCEPT !.busy = FALSE, !.error = TRUE] /\ toClient' = toClient
    BY <1>1, <1>5 DEF L!Continue
  <2>2. ListOk(list') /\ SameList(list', list) /\ list'.seq = list.seq /\ list'.error = TRUE
    BY <1>2, <2>1, WithState
  <2>3. /\ list'.half = list.half /\ list'.shown = list.shown /\ list'.loaded = list.loaded /\ list'.read = list.read
        /\ DialogFits(page, list') /\ list.seq <= list'.seq
    BY <1>2, <2>2 DEF SameList, DialogFits
  <2>4. HeardOk(toClient, Tail(toPage), page, visit, list', L!WavesNow, L!ContactsNow, L!DevicesNow)
    BY <1>1, <1>5, <2>2, <2>3, ChangeHeard
  <2> QED
    BY <1>1, <2>1, <2>2, <2>3, <2>4, HeardInv
<1>6. CASE x.visit = visit /\ page # "away" /\ x.for # "act"
  <2>1. list' = L!ReadAnswered(x, m.ok, m.told) /\ toClient' = toClient
    BY <1>1, <1>6 DEF L!Continue
  <2>2. /\ ListOk(list') /\ list'.seq = list.seq /\ list'.confirm = list.confirm
        /\ HeardOk(toClient, Tail(toPage), page, visit, list', L!WavesNow, L!ContactsNow, L!DevicesNow)
    BY <1>1, <1>6, <2>1, ReadHeard
  <2>3. DialogFits(page, list') /\ list.seq <= list'.seq
    BY <1>2, <2>2 DEF DialogFits
  <2> QED
    BY <1>1, <2>1, <2>2, <2>3, HeardInv
<1> QED
  BY <1>3, <1>4, <1>5, <1>6

\* An event is heard.
LEMMA HearEventInv ==
  ASSUME ListsInv, L!HearEvent
  PROVE  ListsInv'
<1> DEFINE m == Head(toPage)
           w == L!WavesNow
           c == L!ContactsNow
           d == L!DevicesNow
<1>1. toPage # <<>> /\ m.type # "reply" /\ toPage' = Tail(toPage) /\ UNCHANGED L!client /\ page' = page /\ visit' = visit
  BY DEF L!HearEvent
<1>2. /\ ListOk(list) /\ list.seq \in Nat /\ DialogFits(page, list) /\ IsSeq(toPage)
      /\ Port(toClient, toPage, page, visit, list) /\ Flow3(toClient, toPage, page, visit, list, w, c, d)
  BY DEF ListsInv, Port, ListOk
<1>3. m.type \in {"wave-updated", "contacts", "devices"}
  BY <1>1, <1>2, PortHeard DEF ListMessageOk
<1>4. CASE m.type = "wave-updated" /\ page = "waves"
  <2>1. L!Loads("load", list, toClient)
    BY <1>4 DEF L!HearEvent
  <2> QED
    BY <1>1, <1>2, <1>4, <2>1, HeardLoadsInv
<1>5. CASE m.type = "contacts" /\ page = "contacts"
  <2> DEFINE one == <<m.told>>
             n == list.seq + 1
             yes == TRUE
             no == FALSE
             m1 == [list EXCEPT !.seq = n]
             m2 == [m1 EXCEPT !.shown = one]
             m3 == [m2 EXCEPT !.loaded = yes]
             m4 == [m3 EXCEPT !.error = no]
  <2>1. list' = m4 /\ toClient' = toClient
    BY <1>5 DEF L!HearEvent
  <2>2. n \in Nat /\ yes \in BOOLEAN /\ no \in BOOLEAN /\ one[1] = m.told /\ list.seq <= n
    BY <1>2
  <2> HIDE DEF one, n, yes, no
  <2>3. ListOk(m1) /\ SameList(m1, list) /\ m1.seq = n
    BY <1>2, <2>2, WithSeq
  <2> HIDE DEF m1
  <2>4. ListOk(m2) /\ m2.seq = n /\ m2.shown = one /\ m2.confirm = list.confirm /\ m2.read = list.read
    BY <2>3, WithShown DEF SameList
  <2> HIDE DEF m2
  <2>5. ListOk(m3) /\ m3.seq = n /\ m3.shown = one /\ m3.confirm = list.confirm /\ m3.read = list.read
    BY <2>2, <2>4, WithLoaded
  <2> HIDE DEF m3
  <2>6. ListOk(m4) /\ SameList(m4, m3) /\ m4.seq = n
    BY <2>2, <2>5, WithError
  <2> HIDE DEF m4
  <2>7. ListOk(list') /\ list.seq <= list'.seq /\ list'.confirm = list.confirm /\ list'.read = list.read /\ list'.shown[1] = m.told
    BY <2>1, <2>2, <2>5, <2>6 DEF SameList
  <2> DEFINE l == list'
  <2>8. ContactsFlow(toClient, Tail(toPage), visit, l, c)
    <3>1. ContactsFlow(toClient, toPage, visit, list, c)
      BY <1>2, <1>5 DEF Flow3
    <3>2. l.read = list.read /\ l.shown[1] = Head(toPage).told /\ Head(toPage).type = "contacts"
      BY <1>5, <2>7
    <3> HIDE DEF c, l
    <3> QED
      BY <1>1, <1>2, <3>1, <3>2, ContactsHeard
  <2>9. HeardOk(toClient, Tail(toPage), page, visit, list', L!WavesNow, L!ContactsNow, L!DevicesNow)
    BY <1>5, <2>8 DEF HeardOk
  <2>10. DialogFits(page, list')
    BY <1>2, <2>7 DEF DialogFits
  <2> QED
    BY <1>1, <2>1, <2>7, <2>9, <2>10, HeardInv
<1>6. CASE m.type = "devices" /\ page = "devices"
  <2> DEFINE one == <<m.told>>
             l == list'
  <2>1. list' = [list EXCEPT !.shown = one] /\ toClient' = toClient
    BY <1>6 DEF L!HearEvent
  <2>2. one[1] = m.told
    OBVIOUS
  <2> HIDE DEF one
  <2>3. ListOk(l) /\ l.seq = list.seq /\ l.shown = one /\ l.confirm = list.confirm /\ list.seq <= l.seq
    BY <1>2, <2>1, WithShown
  <2>4. DevicesTold(toPage, d)
    BY <1>2 DEF Flow3
  <2>5. Recent(m.told, d, Tail(toPage), 0, "devices")
    BY <1>1, <1>2, <1>6, <2>4, DevicesHeard
  <2>6. DevicesFlow(Tail(toPage), l, d)
    BY <2>2, <2>3, <2>5 DEF DevicesFlow
  <2>7. HeardOk(toClient, Tail(toPage), page, visit, l, L!WavesNow, L!ContactsNow, L!DevicesNow)
    BY <1>6, <2>6 DEF HeardOk
  <2>8. DialogFits(page, l)
    BY <1>2, <2>3 DEF DialogFits
  <2> QED
    BY <1>1, <2>1, <2>3, <2>7, <2>8, HeardInv
<1>7. CASE /\ ~(m.type = "wave-updated" /\ page = "waves") /\ ~(m.type = "contacts" /\ page = "contacts")
           /\ ~(m.type = "devices" /\ page = "devices")
  <2>1. list' = list /\ toClient' = toClient
    BY <1>7 DEF L!HearEvent
  <2>2. m.type # (CASE page = "waves" -> "wave-updated" [] OTHER -> page)
    <3> DEFINE y == m.type
    <3>1. y \in {"wave-updated", "contacts", "devices"} /\ page \in L!Lists \cup {"away"}
      BY <1>2, <1>3 DEF Port
    <3>2. ~(y = "wave-updated" /\ page = "waves") /\ ~(y = "contacts" /\ page = "contacts") /\ ~(y = "devices" /\ page = "devices")
      BY <1>7
    <3> HIDE DEF y
    <3>3. y # (CASE page = "waves" -> "wave-updated" [] OTHER -> page)
      BY <3>1, <3>2 DEF L!Lists
    <3> QED
      BY <3>3 DEF y
  <2>3. HeardOk(toClient, Tail(toPage), page, visit, list, w, c, d)
    <3> HIDE DEF w, c, d
    <3> QED
      BY <1>1, <1>2, <2>2, GoesOnHearing
  <2>4. list.seq <= list.seq
    BY <1>2
  <2> QED
    BY <1>1, <1>2, <2>1, <2>3, <2>4, HeardInv
<1> QED
  BY <1>4, <1>5, <1>6, <1>7

\* A call of the page takes too long, and its load with it.
LEMMA OverdueKeeps ==
  ASSUME NEW tc, NEW tp, NEW p, NEW v, NEW l, NEW w, NEW c, NEW d,
         Port(tc, tp, p, v, l), Flow3(tc, tp, p, v, l, w, c, d), p # "away",
         NEW i \in 1..Len(tc), tc[i].visit = v,
         NEW t, Port(t, tp, p, v, l), Overdue(tc, i, t),
         NEW l2, ListOk(l2), l2.seq = l.seq, l2.half = l.half, l2.shown = l.shown, l2.loaded = l.loaded, l2.read = l.read,
         p = "waves" /\ ~l2.error => ~l.error /\ tc[i].for # "act" /\ ~(tc[i].op \in L!WaveReads /\ tc[i].seq = l.seq)
  PROVE  Port(t, tp, p, v, l2) /\ Flow3(t, tp, p, v, l2, w, c, d)
<1>1. IsSeq(tc) /\ Len(tc) \in Nat /\ DOMAIN tc = 1..Len(tc) /\ \A j \in 1..Len(tc) : ListCallOk(tc[j], p, v, l.seq)
  BY SeqIs DEF Port
<1>3. Port(t, tp, p, v, l2)
  <2>1. l.seq <= l2.seq
    BY DEF ListOk
  <2> QED
    BY <2>1, PortList
<1>4. p = "waves" => WavesFlow(t, tp, v, l2, w)
  <2> SUFFICES ASSUME p = "waves"
               PROVE  WavesFlow(t, tp, v, l2, w)
    OBVIOUS
  <2>1. WavesFlow(tc, tp, v, l, w)
    BY DEF Flow3
  <2>2. ReadsAreNoActs(tc, v)
    BY <1>1 DEF ReadsAreNoActs, ListCallOk, IsRead, ListReads
  <2>4. ~l2.error => ~l.error /\ tc[i].for # "act" /\ ~(tc[i].op \in L!WaveReads /\ tc[i].seq = l.seq)
    OBVIOUS
  <2> QED
    BY <1>1, <2>1, <2>2, <2>4, OverdueFlows
<1>5. p = "contacts" => ContactsFlow(t, tp, v, l2, c)
  BY DEF Flow3, ContactsFlow, Cleared, Overdue
<1>6. p = "devices" => DevicesFlow(tp, l2, d)
  BY DEF Flow3, DevicesFlow
<1> QED
  BY <1>3, <1>4, <1>5, <1>6 DEF Flow3

LEMMA TimeOutInv ==
  ASSUME ListsInv, NEW i \in DOMAIN toClient, L!TimeOut(i)
  PROVE  ListsInv'
<1> DEFINE x == toClient[i]
           b == [j \in DOMAIN toClient |-> toClient[j].over \/ L!SameLoad(toClient[j], x)]
           t == [j \in DOMAIN toClient |-> [toClient[j] EXCEPT !.over = b[j]]]
           w == L!WavesNow
           c == L!ContactsNow
           d == L!DevicesNow
           l == list'
<1>1. /\ x.visit = visit /\ page # "away" /\ toPage' = toPage /\ page' = page /\ visit' = visit /\ UNCHANGED L!client
  BY DEF L!TimeOut, L!Live
<1>2. toClient' = t /\ list' = IF x.for = "act" THEN [list EXCEPT !.busy = FALSE, !.error = TRUE] ELSE L!LoadFailed(x)
  <2>1. t = [j \in DOMAIN toClient |-> [toClient[j] EXCEPT !.over = @ \/ L!SameLoad(toClient[j], x)]]
    OBVIOUS
  <2> HIDE DEF t
  <2>2. L!Continue(x, FALSE, <<>>, t)
    BY <2>1 DEF L!TimeOut
  <2> QED
    BY <1>1, <2>2 DEF L!Continue, L!ReadAnswered
<1>3. /\ ListOk(list) /\ DialogFits(page, list) /\ IsSeq(toClient)
      /\ Port(toClient, toPage, page, visit, list) /\ Flow3(toClient, toPage, page, visit, list, w, c, d)
  BY DEF ListsInv, Port
<1>4. i \in 1..Len(toClient)
  BY <1>3, SeqIs
<1>5. \A j \in DOMAIN toClient : b[j] \in BOOLEAN /\ (b[j] <=> toClient[j].over \/ L!SameLoad(toClient[j], x))
  OBVIOUS
<1>6. /\ ListOk(l) /\ SameList(l, list) /\ l.seq = list.seq
      /\ page = "waves" /\ ~l.error => ~list.error /\ x.for # "act" /\ ~(x.op \in L!WaveReads /\ x.seq = list.seq)
  <2>1. CASE x.for = "act"
    <3>1. list' = [list EXCEPT !.busy = FALSE, !.error = TRUE]
      BY <1>2, <2>1
    <3>2. ListOk(list') /\ SameList(list', list) /\ list'.seq = list.seq /\ list'.error = TRUE
      BY <1>3, <3>1, WithState
    <3>3. l.error
      BY <3>2, Zenon
    <3> QED
      BY <3>2, <3>3, Zenon
  <2>2. CASE x.for # "act"
    <3> DEFINE y == L!Settled(x)
               e == L!Newest(x) \/ y.error
    <3>1. list' = [y EXCEPT !.error = e]
      BY <1>2, <2>2 DEF L!LoadFailed
    <3>2. y = [list EXCEPT !.busy = IF x.for = "after" THEN FALSE ELSE list.busy]
      BY DEF L!Settled
    <3> HIDE DEF y
    <3>3. ListOk(y) /\ SameList(y, list) /\ y.seq = list.seq /\ y.error = list.error
      BY <1>3, <3>2, WithBusy
    <3>4. e \in BOOLEAN
      BY Zenon
    <3>5. ~e => ~list.error /\ ~L!Newest(x)
      BY <3>3
    <3> HIDE DEF e
    <3>6. ListOk(l) /\ SameList(l, y) /\ l.seq = y.seq /\ l.error = e
      BY <3>1, <3>3, <3>4, WithError
    <3>7. ~l.error => ~list.error /\ x.seq # list.seq
      BY <3>5, <3>6 DEF L!Newest
    <3>8. SameList(l, list)
      BY <3>3, <3>6 DEF SameList
    <3> QED
      BY <2>2, <3>3, <3>6, <3>7, <3>8
  <2> QED
    BY <2>1, <2>2
<1>7. DialogFits(page, l)
  BY <1>3, <1>6 DEF DialogFits, SameList
<1>8. Port(t, toPage, page, visit, l) /\ Flow3(t, toPage, page, visit, l, w, c, d)
  <2>1. t = [j \in DOMAIN toClient |-> [toClient[j] EXCEPT !.over = b[j]]]
    OBVIOUS
  <2> HIDE DEF w, c, d, l, b, t
  <2>2. l.half = list.half /\ l.shown = list.shown /\ l.loaded = list.loaded /\ l.read = list.read
    BY <1>6 DEF SameList
  <2>3. Port(t, toPage, page, visit, list) /\ Len(t) = Len(toClient)
        /\ \A j \in 1..Len(toClient) :
             /\ t[j].op = toClient[j].op /\ t[j].for = toClient[j].for /\ t[j].seq = toClient[j].seq /\ t[j].visit = toClient[j].visit
             /\ t[j].over <=> b[j]
    BY <1>3, <1>5, <2>1, PortMarked
  <2>4. DOMAIN toClient = 1..Len(toClient)
    BY <1>3, SeqIs
  <2>5. Overdue(toClient, i, t)
    BY <1>5, <2>3, <2>4 DEF Overdue
  <2> QED
    BY <1>1, <1>3, <1>4, <1>6, <2>2, <2>3, <2>5, OverdueKeeps
<1> QED
  BY <1>1, <1>2, <1>7, <1>8, ClientStays DEF ListsInv

-----------------------------------------------------------------------------
(* Lists: what they show.                                                  *)

LEMMA ConfirmInv ==
  ASSUME ListsInv, L!Confirm
  PROVE  ListsInv'
<1> DEFINE op == list.confirm[1].op
           of == <<list.confirm[1].of>>
<1>1. L!Asked(op, of) /\ page # "away" /\ op \in ListOps(page) \ ListReads
  BY DEF L!Confirm, ListsInv, DialogFits
<1> HIDE DEF op, of
<1> QED
  BY <1>1, AskedInv

LEMMA DecideInv ==
  ASSUME ListsInv, NEW op \in {"answer", "close"}, NEW i, L!DecideWave(op, i)
  PROVE  ListsInv'
<1> DEFINE of == <<i>>
<1>1. L!Asked(op, of) /\ page = "waves"
  BY DEF L!DecideWave, L!Waiting
<1>2. page # "away" /\ op \in ListOps(page) \ ListReads
  BY <1>1 DEF ListOps, ListReads, L!WaveReads
<1> HIDE DEF of
<1> QED
  BY <1>1, <1>2, AskedInv

LEMMA MutateInv ==
  ASSUME ListsInv, NEW op \in {"block", "unblock", "reopen"}, NEW p, L!Mutate(op, p)
  PROVE  ListsInv'
<1> DEFINE of == <<p>>
<1>1. L!Asked(op, of) /\ page = "contacts"
  BY DEF L!Mutate
<1>2. page # "away" /\ op \in ListOps(page) \ ListReads
  BY <1>1 DEF ListOps, ListReads, L!WaveReads
<1> HIDE DEF of
<1> QED
  BY <1>1, <1>2, AskedInv

LEMMA DevicesInv ==
  ASSUME ListsInv, NEW n, L!AddDevice(n) \/ \E e : L!RenameDevice(e, n)
  PROVE  ListsInv'
<1>1. ASSUME NEW op \in {"addDevice", "renameDevice"}, NEW of, L!Asked(op, of), page = "devices"
      PROVE  ListsInv'
  <2>1. page # "away" /\ op \in ListOps(page) \ ListReads
    BY <1>1 DEF ListOps, ListReads, L!WaveReads
  <2> QED
    BY <1>1, <2>1, AskedInv
<1>2. CASE L!AddDevice(n)
  BY <1>1, <1>2 DEF L!AddDevice
<1>3. ASSUME NEW e, L!RenameDevice(e, n)
      PROVE  ListsInv'
  BY <1>1, <1>3 DEF L!RenameDevice, L!Listed
<1> QED
  BY <1>2, <1>3

LEMMA MemberInv ==
  ASSUME ListsInv, L!Member
  PROVE  ListsInv'
<1>1. ASSUME NEW p \in L!Lists, L!Navigate(p)
      PROVE  ListsInv'
  BY <1>1, ListsMounted
<1>2. CASE L!Depart \/ L!Reload \/ L!Confirm \/ L!CloseDialog
  BY <1>2, DepartKeeps, ReloadInv, ConfirmInv, CloseDialogInv
<1>3. ASSUME NEW p, NEW op, L!Elsewhere(op, p)
      PROVE  ListsInv'
  BY <1>3, ElsewhereInv
<1>4. ASSUME NEW p, NEW op \in {"block", "unblock", "reopen"}, L!Mutate(op, p)
      PROVE  ListsInv'
  BY <1>4, MutateInv
<1>5. ASSUME NEW i, L!DecideWave("answer", i) \/ L!DecideWave("close", i)
      PROVE  ListsInv'
  BY <1>5, DecideInv
<1>6. ASSUME NEW i, L!AnswerBlank(i) \/ L!AskFirst("punish", i) \/ L!AskFirst("approveDevice", i) \/ L!AskFirst("removeDevice", i)
      PROVE  ListsInv'
  BY <1>6, AnswerBlankInv, AskFirstInv
<1>7. ASSUME NEW n, L!AddDevice(n) \/ \E e : L!RenameDevice(e, n)
      PROVE  ListsInv'
  BY <1>7, DevicesInv
<1> QED
  BY <1>1, <1>2, <1>3, <1>4, <1>5, <1>6, <1>7 DEF L!Member

LEMMA ListsInvStep ==
  ASSUME ListsInv, L!Next
  PROVE  ListsInv'
<1>1. CASE L!Member
  BY <1>1, MemberInv
<1>2. CASE L!RunCall
  BY <1>2, ListsRunCall
<1>3. CASE L!HearReply
  BY <1>3, HearReplyInv
<1>4. CASE L!HearEvent
  BY <1>4, HearEventInv
<1>5. ASSUME NEW i \in DOMAIN waves, L!TimerFires(i)
      PROVE  ListsInv'
  BY <1>5, ListsTimerFires
<1>6. ASSUME NEW i \in DOMAIN toClient, L!TimeOut(i)
      PROVE  ListsInv'
  BY <1>6, TimeOutInv
<1> QED
  BY <1>1, <1>2, <1>3, <1>4, <1>5, <1>6 DEF L!Next

LEMMA ListsInvInit ==
  ASSUME L!Init
  PROVE  ListsInv
<1>1. toClient = <<>> /\ toPage = <<>> /\ page = "away" /\ visit = 0 /\ list = L!NewList
  BY DEF L!Init
<1>2. IsSeq(toClient) /\ IsSeq(toPage) /\ Len(toClient) = 0 /\ Len(toPage) = 0
  <2>1. <<>> \in Seq({})
    OBVIOUS
  <2> QED
    BY <1>1, <2>1 DEF IsSeq
<1>3. 1..0 = {}
  OBVIOUS
<1>4. Port(toClient, toPage, page, visit, list)
  BY <1>1, <1>2, <1>3, NewListOk DEF Port, VisitsInOrder
<1>5. Flow3(toClient, toPage, page, visit, list, L!WavesNow, L!ContactsNow, L!DevicesNow)
  BY <1>1, <1>2, <1>3 DEF Flow3, DevicesTold, EventsTell
<1>6. DialogFits(page, list)
  BY <1>1, NewListOk DEF DialogFits
<1> QED
  BY <1>4, <1>5, <1>6 DEF ListsInv

LEMMA ListsInvKept ==
  ASSUME ListsInv, UNCHANGED L!vars
  PROVE  ListsInv'
<1>1. UNCHANGED L!client /\ UNCHANGED <<toClient, toPage, page, visit, list>>
  BY DEF L!vars
<1> QED
  BY <1>1, ClientStays DEF ListsInv

LEMMA ListsSteps ==
  ASSUME [Next]_vars, area' = "lists"
  PROVE  area = "lists" /\ (L!Next \/ UNCHANGED L!vars)
BY DEF Next, GroupsStep, ForumStep, AdminStep, ListsStep, vars, listsOnly, wavers, L!vars, L!client, L!related

\* Calls and replies of the lists keep their order over the port, the reads of
\* the waves stand together, and what was told is so or is told anew.
THEOREM ListsInvHolds == Spec => [](area = "lists" => ListsInv)
<1> DEFINE Inv == area = "lists" => ListsInv
<1>1. Init => Inv
  BY ListsInvInit DEF Init
<1>2. Inv /\ [Next]_vars => Inv'
  <2> SUFFICES ASSUME Inv, [Next]_vars, area' = "lists"
               PROVE  ListsInv'
    OBVIOUS
  <2>1. ListsInv /\ (L!Next \/ UNCHANGED L!vars)
    BY ListsSteps
  <2> QED
    BY <2>1, ListsInvStep, ListsInvKept
<1> QED
  BY <1>1, <1>2, PTL DEF Spec

\* The waves and the slots that the page shows are of one moment, although it
\* reads them with two calls between which anything may happen.
THEOREM WavesOfOneMomentHolds == Spec => []WavesOfOneMoment
<1>1. (area = "lists" => ListsInv) => WavesOfOneMoment
  <2> SUFFICES ASSUME ListsInv, page = "waves", list.shown # <<>>
               PROVE  list.shown[1].first = list.shown[1].second
    BY DEF WavesOfOneMoment, L!WavesOfOneMoment
  <2> QED
    BY DEF ListsInv, Flow3, WavesFlow, WavesShown
<1> QED
  BY <1>1, ListsInvHolds, PTL

\* Once all is heard, a list shows what the client holds, whoever changed it
\* and whatever timed out, in three cases: waves that were loaded without an
\* error; contacts that were, and of which a read was answered before any event
\* took its place; devices, once shown.
THEOREM ListsShownHolds == Spec => []ListsShown
<1>1. (area = "lists" => ListsInv) => ListsShown
  <2> SUFFICES ASSUME ListsInv, L!Quiet
               PROVE  /\ page = "waves" /\ L!Loaded => list.shown[1].first = L!WavesNow
                      /\ page = "contacts" /\ L!Loaded /\ list.read => list.shown[1] = L!ContactsNow
                      /\ page = "devices" /\ list.shown # <<>> => list.shown[1] = L!DevicesNow
    BY DEF ListsShown, L!ListsShown
  <2>1. toClient = <<>> /\ toPage = <<>> /\ Len(toClient) = 0 /\ Len(toPage) = 0 /\ 1..0 = {}
    BY DEF L!Quiet
  <2>2. \A x, now, e : Recent(x, now, toPage, 0, e) => x = now
    BY <2>1 DEF Recent, Later
  <2>3. ~ToRenew(toClient, toPage, visit, list)
    BY <2>1 DEF ToRenew
  <2>4. page = "waves" /\ L!Loaded => list.shown[1].first = L!WavesNow
    BY <2>2, <2>3 DEF ListsInv, Flow3, WavesFlow, WavesShown, L!Loaded
  <2>5. page = "contacts" /\ L!Loaded /\ list.read => list.shown[1] = L!ContactsNow
    BY <2>2 DEF ListsInv, Flow3, ContactsFlow
  <2>6. page = "devices" /\ list.shown # <<>> => list.shown[1] = L!DevicesNow
    BY <2>2 DEF ListsInv, Flow3, DevicesFlow
  <2> QED
    BY <2>4, <2>5, <2>6
<1> QED
  BY <1>1, ListsInvHolds, PTL
=============================================================================
