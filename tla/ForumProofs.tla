------------------------------ MODULE ForumProofs ------------------------------
(***************************************************************************)
(* Proofs about the forum and the profile, whatever is asked for in        *)
(* whatever order, and however late it is answered: each flag that says    *)
(* that a page is busy has one call under way that clears it; a save comes *)
(* to the client in its order, and what the page says is saved is what the *)
(* client holds; and once all is heard the forum shows who matches.        *)
(***************************************************************************)
EXTENDS PagesProofs, FiniteSetTheorems

-----------------------------------------------------------------------------
(* Queues: no element of M comes after an element of X, itself among them. *)

Last(q, X, M) == \A i, j \in 1..Len(q) : q[i] \in X /\ q[j] \in M => j <= i

LEMMA TailLast ==
  ASSUME NEW S, NEW q \in Seq(S), q # <<>>, NEW X, NEW M, Last(q, X, M)
  PROVE  Last(Tail(q), X, M) /\ (Head(q) \in X => ~Some(Tail(q), M))
<1> DEFINE rest == Tail(q)
<1>1. /\ Len(rest) = Len(q) - 1 /\ Len(q) \in Nat \ {0}
      /\ \A i \in 1..(Len(q) - 1) : i + 1 \in 1..Len(q) /\ rest[i] = q[i + 1]
      /\ Head(q) = q[1] /\ 1 \in 1..Len(q)
  BY TailOf
<1> HIDE DEF rest
<1>2. \A i \in 1..Len(rest) : i \in Nat /\ i > 0 /\ i + 1 \in 1..Len(q) /\ rest[i] = q[i + 1]
  BY <1>1
<1>3. Last(rest, X, M)
  <2> SUFFICES ASSUME NEW i \in 1..Len(rest), NEW j \in 1..Len(rest), rest[i] \in X, rest[j] \in M
               PROVE  j <= i
    BY DEF Last
  <2>1. j + 1 <= i + 1
    BY <1>2 DEF Last
  <2> QED
    BY <1>2, <2>1
<1>4. ASSUME q[1] \in X, NEW i \in 1..Len(rest), rest[i] \in M
      PROVE  FALSE
  <2>1. i + 1 <= 1
    BY <1>1, <1>2, <1>4 DEF Last
  <2> QED
    BY <1>2, <2>1
<1> QED
  BY <1>1, <1>3, <1>4 DEF rest, Some

LEMMA AppendLast ==
  ASSUME NEW S, NEW q \in Seq(S), NEW e \in S, NEW X, NEW M, Last(q, X, M),
         e \in M => ~Some(q, X)
  PROVE  Last(Append(q, e), X, M)
<1> DEFINE more == Append(q, e)
<1>1. /\ Len(more) = Len(q) + 1 /\ Len(q) \in Nat
      /\ \A i \in 1..Len(q) : i \in 1..Len(more) /\ more[i] = q[i]
      /\ more[Len(q) + 1] = e /\ Len(q) + 1 \in 1..Len(more)
  BY AppendOf
<1> HIDE DEF more
<1>2. \A i \in 1..Len(more) : i <= Len(q) + 1 /\ (i \in 1..Len(q) \/ i = Len(q) + 1)
  BY <1>1
<1> SUFFICES ASSUME NEW i \in 1..Len(more), NEW j \in 1..Len(more), more[i] \in X, more[j] \in M
             PROVE  j <= i
  BY DEF Last, more
<1>3. CASE i = Len(q) + 1
  BY <1>2, <1>3
<1>4. CASE i \in 1..Len(q) /\ j \in 1..Len(q)
  BY <1>1, <1>4 DEF Last
<1>5. CASE i \in 1..Len(q) /\ j = Len(q) + 1
  <2>1. e \in M /\ Some(q, X)
    BY <1>1, <1>5 DEF Some
  <2> QED
    BY <2>1
<1> QED
  BY <1>2, <1>3, <1>4, <1>5

LEMMA ExceptLast ==
  ASSUME NEW S, NEW q \in Seq(S), NEW i \in 1..Len(q), NEW e \in S, NEW X, NEW M, Last(q, X, M),
         e \in X => q[i] \in X, e \in M => q[i] \in M
  PROVE  Last([q EXCEPT ![i] = e], X, M)
<1> DEFINE p == [q EXCEPT ![i] = e]
<1>1. Len(p) = Len(q) /\ \A j \in 1..Len(q) : p[j] = IF j = i THEN e ELSE q[j]
  BY ExceptSeq
<1> HIDE DEF p
<1>2. \A j \in 1..Len(q) : (p[j] \in X => q[j] \in X) /\ (p[j] \in M => q[j] \in M)
  BY <1>1
<1>3. Last(p, X, M)
  BY <1>1, <1>2 DEF Last
<1> QED
  BY <1>3 DEF p

\* A queue without one of its elements.
LEMMA WithoutOf ==
  ASSUME NEW S, NEW q \in Seq(S), NEW i \in 1..Len(q)
  PROVE  /\ F!Without(q, i) \in Seq(S) /\ Len(F!Without(q, i)) = Len(q) - 1 /\ Len(q) \in Nat
         /\ \A j \in 1..(Len(q) - 1) : F!Without(q, i)[j] = IF j < i THEN q[j] ELSE q[j + 1]
<1> DEFINE a == SubSeq(q, 1, i - 1)
           b == SubSeq(q, i + 1, Len(q))
           n == Len(q)
<1>1. n \in Nat /\ i \in 1..n /\ \A j \in 1..n : q[j] \in S
  BY LenProperties, ElementOfSeq
<1>2. a \in Seq(S) /\ Len(a) = i - 1 /\ \A j \in 1..(i - 1) : a[j] = q[j]
  <2>1. \A j \in 1..(i - 1) : q[j] \in S
    BY <1>1
  <2>2. 1 \in Int /\ i - 1 \in Int
    BY <1>1
  <2>3. /\ a \in Seq(S) /\ Len(a) = IF 1 <= i - 1 THEN i - 1 - 1 + 1 ELSE 0
        /\ \A j \in 1..(i - 1 - 1 + 1) : a[j] = q[1 + j - 1]
    BY <2>1, <2>2, SubSeqProperties
  <2> HIDE DEF a
  <2> QED
    BY <1>1, <2>3
<1>3. b \in Seq(S) /\ Len(b) = n - i /\ \A j \in 1..(n - i) : b[j] = q[i + j]
  <2>1. \A j \in (i + 1)..n : q[j] \in S
    BY <1>1
  <2>2. i + 1 \in Int /\ n \in Int
    BY <1>1
  <2>3. /\ b \in Seq(S) /\ Len(b) = IF i + 1 <= n THEN n - (i + 1) + 1 ELSE 0
        /\ \A j \in 1..(n - (i + 1) + 1) : b[j] = q[i + 1 + j - 1]
    BY <2>1, <2>2, SubSeqProperties
  <2> HIDE DEF b, n
  <2> QED
    BY <1>1, <2>3
<1> HIDE DEF a, b
<1>4. /\ a \o b \in Seq(S) /\ Len(a \o b) = Len(a) + Len(b)
      /\ \A j \in 1..(Len(a) + Len(b)) : (a \o b)[j] = IF j <= Len(a) THEN a[j] ELSE b[j - Len(a)]
  BY <1>2, <1>3, ConcatProperties
<1> DEFINE w == a \o b
<1>5. F!Without(q, i) = w
  BY DEF F!Without, a, b
<1> HIDE DEF w, n
<1>6. w \in Seq(S) /\ Len(w) = n - 1
  BY <1>1, <1>2, <1>3, <1>4 DEF w
<1>7. \A j \in 1..(n - 1) : w[j] = IF j < i THEN q[j] ELSE q[j + 1]
  <2> TAKE j \in 1..(n - 1)
  <2>1. j \in 1..(Len(a) + Len(b))
    BY <1>1, <1>2, <1>3
  <2>2. w[j] = IF j <= Len(a) THEN a[j] ELSE b[j - Len(a)]
    BY <1>4, <2>1 DEF w
  <2>3. CASE j < i
    BY <1>1, <1>2, <2>2, <2>3
  <2>4. CASE ~(j < i)
    <3>1. j - (i - 1) \in 1..(n - i) /\ i + (j - (i - 1)) = j + 1 /\ ~(j <= i - 1)
      BY <1>1, <2>4
    <3> QED
      BY <1>2, <1>3, <2>2, <2>4, <3>1
  <2> QED
    BY <2>3, <2>4
<1> QED
  BY <1>1, <1>5, <1>6, <1>7 DEF n

LEMMA WithoutPlaces ==
  ASSUME NEW S, NEW q \in Seq(S), NEW i \in 1..Len(q), NEW X, NEW M
  PROVE  /\ Some(q, X) <=> q[i] \in X \/ Some(F!Without(q, i), X)
         /\ AtMostOne(q, X) => AtMostOne(F!Without(q, i), X) /\ (q[i] \in X => ~Some(F!Without(q, i), X))
         /\ Last(q, X, M) => Last(F!Without(q, i), X, M)
         /\ Last(q, X, M) /\ q[i] \in X /\ (\A j \in 1..(i - 1) : q[j] \notin M) => ~Some(F!Without(q, i), M)
<1> DEFINE w == F!Without(q, i)
           at(j) == IF j < i THEN j ELSE j + 1
<1>1. /\ Len(w) = Len(q) - 1 /\ Len(q) \in Nat /\ i \in 1..Len(q)
      /\ \A j \in 1..Len(w) : w[j] = q[at(j)]
  BY WithoutOf
<1> HIDE DEF w
<1>2. \A j \in 1..Len(w) : at(j) \in 1..Len(q) /\ at(j) # i /\ j \in Nat
  BY <1>1
<1>3. \A j, k \in 1..Len(w) : (at(j) = at(k) => j = k) /\ (at(j) <= at(k) => j <= k)
  BY <1>1
<1>4. \A k \in 1..Len(q) : k # i => \E j \in 1..Len(w) : at(j) = k
  <2> SUFFICES ASSUME NEW k \in 1..Len(q), k # i
               PROVE  \E j \in 1..Len(w) : at(j) = k
    OBVIOUS
  <2>1. CASE k < i
    <3>1. k \in 1..Len(w) /\ at(k) = k
      BY <1>1, <2>1
    <3> QED
      BY <3>1
  <2>2. CASE k > i
    <3>1. k - 1 \in 1..Len(w) /\ at(k - 1) = k
      BY <1>1, <2>2
    <3> QED
      BY <3>1
  <2> QED
    BY <1>1, <2>1, <2>2
<1> HIDE DEF at
<1>5. \A Z : Some(q, Z) <=> q[i] \in Z \/ Some(w, Z)
  BY <1>1, <1>2, <1>4 DEF Some
<1>6. AtMostOne(q, X) => AtMostOne(w, X) /\ (q[i] \in X => ~Some(w, X))
  BY <1>1, <1>2, <1>3 DEF AtMostOne, Some
<1>7. Last(q, X, M) => Last(w, X, M)
  BY <1>1, <1>2, <1>3 DEF Last
<1>8. ASSUME Last(q, X, M), q[i] \in X, \A j \in 1..(i - 1) : q[j] \notin M
      PROVE  ~Some(w, M)
  <2> SUFFICES ASSUME NEW j \in 1..Len(w), w[j] \in M
               PROVE  FALSE
    BY DEF Some
  <2>1. at(j) \in 1..Len(q) /\ at(j) # i /\ q[at(j)] \in M
    BY <1>1, <1>2
  <2>2. at(j) <= i
    BY <1>1, <1>8, <2>1 DEF Last
  <2> QED
    BY <1>1, <1>8, <2>1, <2>2
<1> QED
  BY <1>5, <1>6, <1>7, <1>8 DEF w

-----------------------------------------------------------------------------
(* Forum: what is in the queues and on the pages.                          *)

SaveOps == {"validate", "saveRules", "publish"}
ForumOps == SaveOps \cup {"schema", "load", "exchanges", "discover", "key", "wave", "block", "unblock"}
ForumFors == {"page", "search", "more", "event", "key"}

ForumCall ==
  [op : ForumOps, for : ForumFors, gen : Nat, exchangeGen : Nat, peer : Nat, at : Nat,
   set : SUBSET F!Members, rules : SUBSET F!Members, visit : Nat, accepted : BOOLEAN, over : BOOLEAN]

\* What a call may be part of.
PartOf(op) ==
  CASE op = "schema"    -> {"page", "search"}
    [] op = "discover"  -> {"search", "more"}
    [] op = "exchanges" -> {"page", "event", "key"}
    [] OTHER            -> {"page"}

\* Calls until visit v; the rules and the profile that are saved were validated.
ForumCalls(v) ==
  {c \in ForumCall : c.visit <= v /\ c.for \in PartOf(c.op) /\ (c.op \in {"saveRules", "publish"} => c.set \notin Invalid)}
ForumWaits(v) == {c \in ForumCalls(v) : c.op \in {"key", "publish"}}

ForumFinds == [entries : SUBSET F!Members, cursor : Nat]
Exchange == [peer : Nat, accepted : BOOLEAN]
ForumReplies(v) ==
  {m \in [type : {"reply"}, call : ForumCalls(v), ok : BOOLEAN, found : ForumFinds, under : SUBSET F!Members,
          exchanges : Seq(Exchange), values : SUBSET F!Members, rules : SUBSET F!Members, revision : Nat] :
     ~m.call.over /\ (m.ok /\ m.call.op = "validate" => m.call.set \notin Invalid)}
ForumEvents == [type : {"contacts", "key-decision"}]
ForumMessages(v) == ForumReplies(v) \cup ForumEvents

ForumClient ==
  /\ rules \in SUBSET F!Members /\ profile \in SUBSET F!Members /\ revision \in Nat
  /\ blocked \in SUBSET Nat /\ exchanges \in Seq(Exchange) /\ senderSlots \in Nat

ForumStates ==
  [schema : BOOLEAN, filters : SUBSET F!Members, entries : SUBSET F!Members, cursor : Nat, exchanges : Seq(Exchange),
   loading : BOOLEAN, more : BOOLEAN, error : BOOLEAN, requestGen : Nat, exchangeGen : Nat,
   keyBusy : SUBSET Nat, keyResults : SUBSET Nat, peer : Nat, drafts : SUBSET Nat, waveBusy : SUBSET Nat,
   under : SUBSET SUBSET F!Members]
EditorValues ==
  [loaded : BOOLEAN, values : SUBSET F!Members, rules : SUBSET F!Members, revision : Nat, busy : BOOLEAN, saved : BOOLEAN]

ForumPage == page \in {"away", "forum", "profile"} /\ visit \in Nat /\ forum \in ForumStates /\ editor \in EditorValues

ForumPort ==
  toClient \in Seq(ForumCalls(visit)) /\ waiting \in Seq(ForumWaits(visit)) /\ toPage \in Seq(ForumMessages(visit))

ForumType == ForumClient /\ ForumPage /\ ForumPort

\* A call by its fields.
PlainCall(op, for, gen, xgen, peer, at, set, chosen, v) ==
  [op |-> op, for |-> for, gen |-> gen, exchangeGen |-> xgen, peer |-> peer, at |-> at, set |-> set, rules |-> chosen,
   visit |-> v, accepted |-> FALSE, over |-> FALSE]

LEMMA PlainCallOf ==
  ASSUME NEW op \in ForumOps, NEW for \in ForumFors, for \in PartOf(op), NEW gen \in Nat, NEW xgen \in Nat, NEW peer \in Nat, NEW at \in Nat,
         NEW set \in SUBSET F!Members, NEW chosen \in SUBSET F!Members, NEW v \in Nat,
         op \notin {"saveRules", "publish"},
         NEW c, c = PlainCall(op, for, gen, xgen, peer, at, set, chosen, v)
  PROVE  /\ c \in ForumCalls(v) /\ c.op = op /\ c.for = for /\ c.gen = gen /\ c.exchangeGen = xgen /\ c.peer = peer
         /\ c.at = at /\ c.set = set /\ c.rules = chosen /\ c.visit = v /\ ~c.over
<1> DEFINE no == FALSE
<1>1. /\ c = [op |-> op, for |-> for, gen |-> gen, exchangeGen |-> xgen, peer |-> peer, at |-> at, set |-> set,
              rules |-> chosen, visit |-> v, accepted |-> no, over |-> no]
      /\ no \in BOOLEAN /\ ~no
  BY DEF PlainCall
<1> HIDE DEF no
<1>2. c \in ForumCall
  BY <1>1 DEF ForumCall
<1>3. /\ c.op = op /\ c.for = for /\ c.gen = gen /\ c.exchangeGen = xgen /\ c.peer = peer
      /\ c.at = at /\ c.set = set /\ c.rules = chosen /\ c.visit = v /\ c.over = no
  BY <1>1
<1> QED
  BY <1>1, <1>2, <1>3 DEF ForumCalls

\* The calls of the pages, by their fields.
LEMMA PlainForm ==
  ASSUME NEW op, NEW for, NEW gen
  PROVE  F!Call(op, for, gen) = PlainCall(op, for, gen, 0, 0, 0, {}, {}, visit)
<1> DEFINE no == FALSE
           zero == 0
           none == {}
           w == visit
           c == F!Call(op, for, gen)
<1>1. c = [op |-> op, for |-> for, gen |-> gen, exchangeGen |-> zero, peer |-> zero, at |-> zero, set |-> none, rules |-> none, visit |-> w,
           accepted |-> no, over |-> no]
  BY DEF F!Call
<1>2. \A xg, p, a, s, r, u :
        PlainCall(op, for, gen, xg, p, a, s, r, u) =
          [op |-> op, for |-> for, gen |-> gen, exchangeGen |-> xg, peer |-> p, at |-> a, set |-> s,
           rules |-> r, visit |-> u, accepted |-> no, over |-> no]
  BY DEF PlainCall
<1> HIDE DEF no, zero, none, w, c
<1>3. c = PlainCall(op, for, gen, zero, zero, zero, none, none, w)
  BY <1>1, <1>2
<1> QED
  BY <1>3 DEF zero, none, w, c

LEMMA VisitForm ==
  ASSUME NEW op, NEW for, NEW gen, NEW v
  PROVE  [F!Call(op, for, gen) EXCEPT !.visit = v] = PlainCall(op, for, gen, 0, 0, 0, {}, {}, v)
<1> DEFINE no == FALSE
           zero == 0
           none == {}
           w == visit
           c == F!Call(op, for, gen)
<1>1. c = [op |-> op, for |-> for, gen |-> gen, exchangeGen |-> zero, peer |-> zero, at |-> zero, set |-> none, rules |-> none, visit |-> w,
           accepted |-> no, over |-> no]
  BY DEF F!Call
<1>2. \A xg, p, a, s, r, u :
        PlainCall(op, for, gen, xg, p, a, s, r, u) =
          [op |-> op, for |-> for, gen |-> gen, exchangeGen |-> xg, peer |-> p, at |-> a, set |-> s,
           rules |-> r, visit |-> u, accepted |-> no, over |-> no]
  BY DEF PlainCall
<1> HIDE DEF no, zero, none, w, c
<1>3. [c EXCEPT !.visit = v] = PlainCall(op, for, gen, zero, zero, zero, none, none, v)
  BY <1>1, <1>2
<1> QED
  BY <1>3 DEF zero, none, w, c

LEMMA PeerForm ==
  ASSUME NEW op, NEW for, NEW gen, NEW peer
  PROVE  [F!Call(op, for, gen) EXCEPT !.peer = peer] = PlainCall(op, for, gen, 0, peer, 0, {}, {}, visit)
<1> DEFINE no == FALSE
           zero == 0
           none == {}
           w == visit
           c == F!Call(op, for, gen)
<1>1. c = [op |-> op, for |-> for, gen |-> gen, exchangeGen |-> zero, peer |-> zero, at |-> zero, set |-> none, rules |-> none, visit |-> w,
           accepted |-> no, over |-> no]
  BY DEF F!Call
<1>2. \A xg, p, a, s, r, u :
        PlainCall(op, for, gen, xg, p, a, s, r, u) =
          [op |-> op, for |-> for, gen |-> gen, exchangeGen |-> xg, peer |-> p, at |-> a, set |-> s,
           rules |-> r, visit |-> u, accepted |-> no, over |-> no]
  BY DEF PlainCall
<1> HIDE DEF no, zero, none, w, c
<1>3. [c EXCEPT !.peer = peer] = PlainCall(op, for, gen, zero, peer, zero, none, none, w)
  BY <1>1, <1>2
<1> QED
  BY <1>3 DEF zero, none, w, c

LEMMA SearchForm ==
  ASSUME NEW op, NEW for, NEW gen, NEW at, NEW set
  PROVE  [F!Call(op, for, gen) EXCEPT !.at = at, !.set = set] = PlainCall(op, for, gen, 0, 0, at, set, {}, visit)
<1> DEFINE no == FALSE
           zero == 0
           none == {}
           w == visit
           c == F!Call(op, for, gen)
<1>1. c = [op |-> op, for |-> for, gen |-> gen, exchangeGen |-> zero, peer |-> zero, at |-> zero, set |-> none, rules |-> none, visit |-> w,
           accepted |-> no, over |-> no]
  BY DEF F!Call
<1>2. \A xg, p, a, s, r, u :
        PlainCall(op, for, gen, xg, p, a, s, r, u) =
          [op |-> op, for |-> for, gen |-> gen, exchangeGen |-> xg, peer |-> p, at |-> a, set |-> s,
           rules |-> r, visit |-> u, accepted |-> no, over |-> no]
  BY DEF PlainCall
<1> HIDE DEF no, zero, none, w, c
<1> DEFINE d == [c EXCEPT !.at = at]
<1>3. [c EXCEPT !.at = at, !.set = set] = [d EXCEPT !.set = set]
  OBVIOUS
<1>4. d = [op |-> op, for |-> for, gen |-> gen, exchangeGen |-> zero, peer |-> zero, at |-> at, set |-> none, rules |-> none, visit |-> w,
           accepted |-> no, over |-> no]
  BY <1>1
<1> HIDE DEF d
<1>5. [d EXCEPT !.set = set] = PlainCall(op, for, gen, zero, zero, at, set, none, w)
  BY <1>2, <1>4
<1> QED
  BY <1>3, <1>5 DEF zero, none, w, c

LEMMA ReloadForm ==
  ASSUME NEW op, NEW for, NEW gen, NEW xgen, NEW peer
  PROVE  [F!Call(op, for, gen) EXCEPT !.exchangeGen = xgen, !.peer = peer] = PlainCall(op, for, gen, xgen, peer, 0, {}, {}, visit)
<1> DEFINE no == FALSE
           zero == 0
           none == {}
           w == visit
           c == F!Call(op, for, gen)
<1>1. c = [op |-> op, for |-> for, gen |-> gen, exchangeGen |-> zero, peer |-> zero, at |-> zero, set |-> none, rules |-> none, visit |-> w,
           accepted |-> no, over |-> no]
  BY DEF F!Call
<1>2. \A xg, p, a, s, r, u :
        PlainCall(op, for, gen, xg, p, a, s, r, u) =
          [op |-> op, for |-> for, gen |-> gen, exchangeGen |-> xg, peer |-> p, at |-> a, set |-> s,
           rules |-> r, visit |-> u, accepted |-> no, over |-> no]
  BY DEF PlainCall
<1> HIDE DEF no, zero, none, w, c
<1> DEFINE d == [c EXCEPT !.exchangeGen = xgen]
<1>3. [c EXCEPT !.exchangeGen = xgen, !.peer = peer] = [d EXCEPT !.peer = peer]
  OBVIOUS
<1>4. d = [op |-> op, for |-> for, gen |-> gen, exchangeGen |-> xgen, peer |-> zero, at |-> zero, set |-> none, rules |-> none, visit |-> w,
           accepted |-> no, over |-> no]
  BY <1>1
<1> HIDE DEF d
<1>5. [d EXCEPT !.peer = peer] = PlainCall(op, for, gen, xgen, peer, zero, none, none, w)
  BY <1>2, <1>4
<1> QED
  BY <1>3, <1>5 DEF zero, none, w, c

LEMMA SaveForm ==
  ASSUME NEW op, NEW for, NEW gen, NEW set, NEW chosen
  PROVE  [F!Call(op, for, gen) EXCEPT !.set = set, !.rules = chosen] = PlainCall(op, for, gen, 0, 0, 0, set, chosen, visit)
<1> DEFINE no == FALSE
           zero == 0
           none == {}
           w == visit
           c == F!Call(op, for, gen)
<1>1. c = [op |-> op, for |-> for, gen |-> gen, exchangeGen |-> zero, peer |-> zero, at |-> zero, set |-> none, rules |-> none, visit |-> w,
           accepted |-> no, over |-> no]
  BY DEF F!Call
<1>2. \A xg, p, a, s, r, u :
        PlainCall(op, for, gen, xg, p, a, s, r, u) =
          [op |-> op, for |-> for, gen |-> gen, exchangeGen |-> xg, peer |-> p, at |-> a, set |-> s,
           rules |-> r, visit |-> u, accepted |-> no, over |-> no]
  BY DEF PlainCall
<1> HIDE DEF no, zero, none, w, c
<1> DEFINE d == [c EXCEPT !.set = set]
<1>3. [c EXCEPT !.set = set, !.rules = chosen] = [d EXCEPT !.rules = chosen]
  OBVIOUS
<1>4. d = [op |-> op, for |-> for, gen |-> gen, exchangeGen |-> zero, peer |-> zero, at |-> zero, set |-> set, rules |-> none, visit |-> w,
           accepted |-> no, over |-> no]
  BY <1>1
<1> HIDE DEF d
<1>5. [d EXCEPT !.rules = chosen] = PlainCall(op, for, gen, zero, zero, zero, set, chosen, w)
  BY <1>2, <1>4
<1> QED
  BY <1>3, <1>5 DEF zero, none, w, c

\* A new call of the page that is mounted.
PageCall(c) == c \in ForumCalls(visit) /\ c.visit = visit /\ ~c.over

\* What a search resets, and what it leaves.
LEMMA ResetOf ==
  ASSUME NEW f \in ForumStates
  PROVE  /\ F!Reset(f) \in ForumStates
         /\ F!Reset(f).entries = {} /\ F!Reset(f).cursor = 0 /\ F!Reset(f).under = {} /\ F!Reset(f).keyResults = {}
         /\ F!Reset(f).peer = 0
         /\ F!Reset(f).loading
         /\ F!Reset(f).requestGen = f.requestGen /\ F!Reset(f).exchangeGen = f.exchangeGen /\ F!Reset(f).more = f.more
         /\ F!Reset(f).schema = f.schema /\ F!Reset(f).filters = f.filters /\ F!Reset(f).exchanges = f.exchanges
         /\ F!Reset(f).error = f.error /\ F!Reset(f).keyBusy = f.keyBusy /\ F!Reset(f).waveBusy = f.waveBusy
<1> DEFINE none == {}
           zero == 0
           yes == TRUE
           new == [f EXCEPT !.keyResults = none, !.peer = zero, !.entries = none, !.cursor = zero, !.under = none,
                            !.loading = yes]
<1>1. /\ none \in SUBSET F!Members /\ none \in SUBSET Nat /\ zero \in Nat /\ none \in SUBSET SUBSET F!Members
      /\ yes \in BOOLEAN /\ yes
  OBVIOUS
<1>2. F!Reset(f) = new
  BY DEF F!Reset
<1> HIDE DEF none, zero, yes
<1>3. new \in ForumStates
  BY <1>1 DEF ForumStates
<1>4. /\ new.entries = none /\ new.cursor = zero /\ new.under = none /\ new.keyResults = none /\ new.peer = zero /\ new.loading
      /\ new.requestGen = f.requestGen /\ new.exchangeGen = f.exchangeGen /\ new.more = f.more
      /\ new.schema = f.schema /\ new.filters = f.filters /\ new.exchanges = f.exchanges /\ new.error = f.error
      /\ new.keyBusy = f.keyBusy /\ new.waveBusy = f.waveBusy
  BY <1>1 DEF ForumStates
<1> QED
  BY <1>2, <1>3, <1>4 DEF none, zero

\* Before anything is asked a search has a number and shows no error.
LEMMA BeginsOf ==
  ASSUME NEW f \in ForumStates, NEW g, g = [f EXCEPT !.requestGen = @ + 1, !.error = FALSE]
  PROVE  /\ g \in ForumStates /\ g.requestGen = f.requestGen + 1 /\ ~g.error
         /\ g.exchangeGen = f.exchangeGen /\ g.more = f.more /\ g.schema = f.schema /\ g.filters = f.filters
         /\ g.exchanges = f.exchanges /\ g.keyBusy = f.keyBusy /\ g.waveBusy = f.waveBusy /\ g.loading = f.loading
         /\ g.entries = f.entries /\ g.cursor = f.cursor /\ g.under = f.under /\ g.keyResults = f.keyResults /\ g.peer = f.peer
<1> DEFINE no == FALSE
           n == f.requestGen + 1
<1>1. no \in BOOLEAN /\ n \in Nat /\ ~no
  BY DEF ForumStates
<1>2. g = [f EXCEPT !.requestGen = n, !.error = no]
  OBVIOUS
<1> HIDE DEF no, n
<1>3. g \in ForumStates
  BY <1>1, <1>2 DEF ForumStates
<1>4. /\ g.requestGen = n /\ ~g.error
      /\ g.exchangeGen = f.exchangeGen /\ g.more = f.more /\ g.schema = f.schema /\ g.filters = f.filters
      /\ g.exchanges = f.exchanges /\ g.keyBusy = f.keyBusy /\ g.waveBusy = f.waveBusy /\ g.loading = f.loading
      /\ g.entries = f.entries /\ g.cursor = f.cursor /\ g.under = f.under /\ g.keyResults = f.keyResults /\ g.peer = f.peer
  BY <1>1, <1>2 DEF ForumStates
<1> QED
  BY <1>3, <1>4 DEF n

\* A call for a page of members.
LEMMA DiscoverOf ==
  ASSUME visit \in Nat, NEW f \in ForumStates, NEW at \in Nat, NEW reset \in BOOLEAN,
         NEW d, d = F!Discover(f, at, reset)
  PROVE  /\ PageCall(d) /\ d.op = "discover" /\ d.for = (IF reset THEN "search" ELSE "more")
         /\ d.gen = f.requestGen /\ d.at = at /\ d.set = f.filters
<1> DEFINE op == "discover"
           for == IF reset THEN "search" ELSE "more"
           gen == f.requestGen
           set == f.filters
           zero == 0
           none == {}
<1>1. /\ op \in ForumOps /\ op \notin {"saveRules", "publish"} /\ for \in ForumFors /\ for \in PartOf(op)
      /\ gen \in Nat /\ set \in SUBSET F!Members /\ zero \in Nat /\ none \in SUBSET F!Members
  BY DEF ForumOps, ForumFors, PartOf, ForumStates
<1>2. d = [F!Call(op, for, gen) EXCEPT !.at = at, !.set = set]
  BY DEF F!Discover
<1> HIDE DEF op, for, gen, set
<1>5. d = PlainCall(op, for, gen, zero, zero, at, set, none, visit)
  BY <1>2, SearchForm, Zenon
<1> HIDE DEF zero, none
<1>4. d \in ForumCalls(visit) /\ d.op = op /\ d.for = for /\ d.gen = gen /\ d.at = at /\ d.set = set /\ d.visit = visit /\ ~d.over
  BY <1>1, <1>5, PlainCallOf
<1> QED
  BY <1>4 DEF PageCall, op, for, gen, set

\* What a search asks for, and what the page shows meanwhile.
Searching(g, f, reset) ==
  /\ g \in ForumStates /\ g.requestGen = f.requestGen + 1 /\ ~g.error
  /\ g.exchangeGen = f.exchangeGen /\ g.schema = f.schema /\ g.filters = f.filters
  /\ g.exchanges = f.exchanges /\ g.keyBusy = f.keyBusy /\ g.waveBusy = f.waveBusy
  /\ reset => /\ g.loading /\ g.more = f.more
              /\ g.entries = {} /\ g.cursor = 0 /\ g.under = {} /\ g.keyResults = {} /\ g.peer = 0
  /\ ~reset => /\ g.loading = f.loading /\ g.more
               /\ g.entries = f.entries /\ g.cursor = f.cursor /\ g.under = f.under /\ g.keyResults = f.keyResults
               /\ g.peer = f.peer

SearchCall(d, g, reset) ==
  /\ PageCall(d) /\ d.gen = g.requestGen
  /\ \/ g.schema /\ d.op = "discover" /\ d.for = (IF reset THEN "search" ELSE "more") /\ d.at = g.cursor /\ d.set = g.filters
     \/ ~g.schema /\ d.op = "schema" /\ d.for = "search"

LEMMA SearchSends ==
  ASSUME visit \in Nat, NEW f \in ForumStates, NEW reset \in BOOLEAN, NEW q, F!Search(f, reset, q)
  PROVE  Searching(forum', f, reset) /\ \E d : toClient' = Append(q, d) /\ SearchCall(d, forum', reset)
<1> DEFINE g == [f EXCEPT !.requestGen = @ + 1, !.error = FALSE]
           h == IF reset THEN F!Reset(g) ELSE [g EXCEPT !.more = TRUE]
           d == IF h.schema THEN F!Discover(h, h.cursor, reset) ELSE F!Call("schema", "search", h.requestGen)
<1>1. forum' = h /\ toClient' = Append(q, d)
  BY DEF F!Search
<1>2. /\ g \in ForumStates /\ g.requestGen = f.requestGen + 1 /\ ~g.error
      /\ g.exchangeGen = f.exchangeGen /\ g.more = f.more /\ g.schema = f.schema /\ g.filters = f.filters
      /\ g.exchanges = f.exchanges /\ g.keyBusy = f.keyBusy /\ g.waveBusy = f.waveBusy /\ g.loading = f.loading
      /\ g.entries = f.entries /\ g.cursor = f.cursor /\ g.under = f.under /\ g.keyResults = f.keyResults /\ g.peer = f.peer
  BY BeginsOf
<1> HIDE DEF g
<1>3. Searching(h, f, reset)
  <2>1. CASE reset
    <3>1. h = F!Reset(g)
      BY <2>1
    <3> QED
      BY <1>2, <2>1, <3>1, ResetOf DEF Searching
  <2>2. CASE ~reset
    <3> DEFINE yes == TRUE
    <3>1. h = [g EXCEPT !.more = yes] /\ yes \in BOOLEAN /\ yes
      BY <2>2
    <3> HIDE DEF h, yes
    <3>2. h \in ForumStates
      BY <1>2, <3>1 DEF ForumStates
    <3>3. /\ h.more /\ h.requestGen = g.requestGen /\ h.error = g.error /\ h.exchangeGen = g.exchangeGen
          /\ h.schema = g.schema /\ h.filters = g.filters
          /\ h.exchanges = g.exchanges /\ h.keyBusy = g.keyBusy /\ h.waveBusy = g.waveBusy /\ h.loading = g.loading
          /\ h.entries = g.entries /\ h.cursor = g.cursor /\ h.under = g.under /\ h.keyResults = g.keyResults /\ h.peer = g.peer
      BY <1>2, <3>1 DEF ForumStates
    <3> QED
      BY <1>2, <2>2, <3>2, <3>3 DEF Searching
  <2> QED
    BY <2>1, <2>2
<1> HIDE DEF h
<1>4. SearchCall(d, h, reset)
  <2>1. h \in ForumStates /\ h.cursor \in Nat /\ h.requestGen \in Nat /\ h.schema \in BOOLEAN
    BY <1>3 DEF Searching, ForumStates
  <2>2. CASE h.schema
    <3>1. d = F!Discover(h, h.cursor, reset)
      BY <2>2
    <3> HIDE DEF d
    <3>2. /\ PageCall(d) /\ d.op = "discover" /\ d.for = (IF reset THEN "search" ELSE "more")
          /\ d.gen = h.requestGen /\ d.at = h.cursor /\ d.set = h.filters
      BY <2>1, <3>1, DiscoverOf
    <3> QED
      BY <2>2, <3>2 DEF SearchCall
  <2>3. CASE ~h.schema
    <3> DEFINE op == "schema"
               for == "search"
               gen == h.requestGen
               zero == 0
               none == {}
    <3>1. d = F!Call(op, for, gen)
      BY <2>3
    <3>3. /\ op \in ForumOps /\ op \notin {"saveRules", "publish"} /\ for \in ForumFors /\ for \in PartOf(op)
          /\ gen \in Nat /\ zero \in Nat /\ none \in SUBSET F!Members
      BY <2>1 DEF ForumOps, ForumFors, PartOf
    <3> HIDE DEF d, op, for, gen
    <3>2. d = PlainCall(op, for, gen, zero, zero, zero, none, none, visit)
      BY <3>1, PlainForm, Zenon
    <3> HIDE DEF zero, none
    <3>4. d \in ForumCalls(visit) /\ d.op = op /\ d.for = for /\ d.gen = gen /\ d.visit = visit /\ ~d.over
      BY <3>2, <3>3, PlainCallOf
    <3> QED
      BY <2>3, <3>4 DEF SearchCall, PageCall, op, for, gen
  <2> QED
    BY <2>1, <2>2, <2>3
<1> QED
  BY <1>1, <1>3, <1>4

\* What else the forum may send: for its exchanges.
Reloading(g, f) == g = [f EXCEPT !.exchangeGen = @ + 1] /\ g \in ForumStates

ReloadCall(d, for, gen, peer, xgen) ==
  PageCall(d) /\ d.op = "exchanges" /\ d.for = for /\ d.gen = gen /\ d.peer = peer /\ d.exchangeGen = xgen

LEMMA ReloadSends ==
  ASSUME visit \in Nat, NEW f \in ForumStates, NEW for \in {"page", "event", "key"}, NEW c, c.gen \in Nat, c.peer \in Nat,
         NEW q, F!ReloadExchanges(f, for, c, q)
  PROVE  /\ Reloading(forum', f)
         /\ \E d : toClient' = Append(q, d) /\ ReloadCall(d, for, c.gen, c.peer, f.exchangeGen + 1)
<1> DEFINE op == "exchanges"
           gen == c.gen
           peer == c.peer
           x == f.exchangeGen + 1
           zero == 0
           none == {}
           d == [F!Call(op, for, gen) EXCEPT !.exchangeGen = x, !.peer = peer]
<1>1. forum' = [f EXCEPT !.exchangeGen = x] /\ toClient' = Append(q, d)
  BY DEF F!ReloadExchanges
<1>6. d = [F!Call(op, for, gen) EXCEPT !.exchangeGen = x, !.peer = peer]
  OBVIOUS
<1>3. /\ op \in ForumOps /\ op \notin {"saveRules", "publish"} /\ for \in ForumFors /\ for \in PartOf(op)
      /\ gen \in Nat /\ peer \in Nat /\ zero \in Nat /\ none \in SUBSET F!Members /\ x \in Nat
  BY DEF ForumOps, ForumFors, PartOf, ForumStates
<1> HIDE DEF d, op, gen, peer, x
<1>2. d = PlainCall(op, for, gen, x, peer, zero, none, none, visit)
  BY <1>6, ReloadForm, Zenon
<1> HIDE DEF zero, none
<1>4. d \in ForumCalls(visit) /\ d.op = op /\ d.for = for /\ d.gen = gen /\ d.peer = peer /\ d.exchangeGen = x
      /\ d.visit = visit /\ ~d.over
  BY <1>2, <1>3, PlainCallOf
<1>5. forum' \in ForumStates
  BY <1>1, <1>3 DEF ForumStates
<1> QED
  BY <1>1, <1>4, <1>5 DEF Reloading, ReloadCall, PageCall, op, gen, peer, x

-----------------------------------------------------------------------------
(* Forum: where the calls of a set are, from the page to its answer.       *)

Answers(v, X) == {m \in ForumReplies(v) : m.call \in X}

Present(tc, w, tp, v, X) == Some(tc, X) \/ Some(w, X) \/ Some(tp, Answers(v, X))
Sole(tc, w, tp, v, X) ==
  /\ AtMostOne(tc, X) /\ AtMostOne(w, X) /\ AtMostOne(tp, Answers(v, X))
  /\ ~(Some(tc, X) /\ Some(w, X)) /\ ~(Some(tc, X) /\ Some(tp, Answers(v, X))) /\ ~(Some(w, X) /\ Some(tp, Answers(v, X)))

Queues(tc, w, tp, v) == tc \in Seq(ForumCalls(v)) /\ w \in Seq(ForumWaits(v)) /\ tp \in Seq(ForumMessages(v))

\* The places that a save passes, one after the other: in the queue to the
\* client, in the client, and in the queue to the page.
Stage(a) == CASE a \in {1, 2} -> "validate" [] a \in {3, 4} -> "saveRules" [] OTHER -> "publish"
At(tc, w, tp, v, a, X) ==
  IF a \in {1, 3, 5} THEN Some(tc, X) ELSE IF a = 6 THEN Some(w, X) ELSE Some(tp, Answers(v, X))
LastAt(tc, w, tp, v, a, X, M) ==
  IF a \in {1, 3, 5} THEN Last(tc, X, M) ELSE IF a = 6 THEN Last(w, X, M) ELSE Last(tp, Answers(v, X), Answers(v, M))

Saves(v, op) == {c \in ForumCalls(v) : c.op = op}
LiveSaves(v, op) == {c \in Saves(v, op) : c.visit = v /\ ~c.over}

\* No save of an earlier page comes after the one of this page.
SaveOrder(tc, w, tp, v) ==
  /\ \A a \in 1..7 : LastAt(tc, w, tp, v, a, LiveSaves(v, Stage(a)), Saves(v, Stage(a)))
  /\ \A a, b \in 1..7 : At(tc, w, tp, v, a, LiveSaves(v, Stage(a))) /\ At(tc, w, tp, v, b, Saves(v, Stage(b))) => a <= b

\* Call e has left these places.
Left(tc, w, tp, tc2, w2, tp2, v, e, places) ==
  /\ Queues(tc2, w2, tp2, v)
  /\ \A X : (\A c \in X : ~c.over) =>
       /\ Sole(tc, w, tp, v, X) => Sole(tc2, w2, tp2, v, X) /\ (e \in X => ~Present(tc2, w2, tp2, v, X))
       /\ e \in X => Present(tc, w, tp, v, X)
       /\ e \notin X => (Present(tc2, w2, tp2, v, X) <=> Present(tc, w, tp, v, X))
  /\ \A a \in 1..7 :
       LET K == Saves(v, Stage(a))
           live == LiveSaves(v, Stage(a))
       IN /\ At(tc2, w2, tp2, v, a, K) => At(tc, w, tp, v, a, K)
          /\ LastAt(tc, w, tp, v, a, live, K) => LastAt(tc2, w2, tp2, v, a, live, K)
          /\ a \in places /\ e \in K => At(tc, w, tp, v, a, K)
          /\ a \in places /\ e \in live /\ LastAt(tc, w, tp, v, a, live, K) => ~At(tc2, w2, tp2, v, a, K)
  /\ \A a \in 1..7 : \A X : (\A c \in X : ~c.over) =>
       /\ At(tc2, w2, tp2, v, a, X) => At(tc, w, tp, v, a, X)
       /\ a \in places /\ e \in X => At(tc, w, tp, v, a, X)

LEMMA CallLeft ==
  ASSUME NEW v, NEW tc, NEW w, NEW tp, Queues(tc, w, tp, v), tc # <<>>
  PROVE  Left(tc, w, tp, Tail(tc), w, tp, v, Head(tc), {1, 3, 5})
<1> DEFINE e == Head(tc)
           rest == Tail(tc)
<1>1. tc \in Seq(ForumCalls(v)) /\ rest \in Seq(ForumCalls(v)) /\ Queues(rest, w, tp, v)
  BY TailOf DEF Queues
<1>2. \A X, M : /\ Some(tc, X) <=> e \in X \/ Some(rest, X)
                /\ AtMostOne(tc, X) => AtMostOne(rest, X) /\ (e \in X => ~Some(rest, X))
                /\ Last(tc, X, M) => Last(rest, X, M) /\ (e \in X => ~Some(rest, M))
  BY <1>1, TailPlaces, TailLast
<1> HIDE DEF e, rest
<1>3. ASSUME NEW X
      PROVE  /\ Sole(tc, w, tp, v, X) => Sole(rest, w, tp, v, X) /\ (e \in X => ~Present(rest, w, tp, v, X))
             /\ e \in X => Present(tc, w, tp, v, X)
             /\ e \notin X => (Present(rest, w, tp, v, X) <=> Present(tc, w, tp, v, X))
  BY <1>2 DEF Sole, Present
<1>4. ASSUME NEW a \in 1..7, NEW X, NEW M
      PROVE  /\ At(rest, w, tp, v, a, X) => At(tc, w, tp, v, a, X)
             /\ LastAt(tc, w, tp, v, a, X, M) => LastAt(rest, w, tp, v, a, X, M)
             /\ a \in {1, 3, 5} /\ e \in X => At(tc, w, tp, v, a, X)
             /\ a \in {1, 3, 5} /\ e \in X /\ LastAt(tc, w, tp, v, a, X, M) => ~At(rest, w, tp, v, a, M)
  BY <1>2 DEF At, LastAt
<1> QED
  BY <1>1, <1>3, <1>4 DEF Left, e, rest

LEMMA ReplyLeft ==
  ASSUME NEW v, NEW tc, NEW w, NEW tp, Queues(tc, w, tp, v), tp # <<>>, Head(tp) \in ForumReplies(v)
  PROVE  Left(tc, w, tp, tc, w, Tail(tp), v, Head(tp).call, {2, 4, 7})
<1> DEFINE m == Head(tp)
           e == m.call
           rest == Tail(tp)
<1>1. tp \in Seq(ForumMessages(v)) /\ rest \in Seq(ForumMessages(v)) /\ Queues(tc, w, rest, v)
  BY TailOf DEF Queues
<1>2. \A X, M : /\ Some(tp, X) <=> m \in X \/ Some(rest, X)
                /\ AtMostOne(tp, X) => AtMostOne(rest, X) /\ (m \in X => ~Some(rest, X))
                /\ Last(tp, X, M) => Last(rest, X, M) /\ (m \in X => ~Some(rest, M))
  BY <1>1, TailPlaces, TailLast
<1>3. \A X : m \in Answers(v, X) <=> e \in X
  BY DEF Answers
<1> HIDE DEF e, rest, m
<1>4. ASSUME NEW X
      PROVE  /\ Sole(tc, w, tp, v, X) => Sole(tc, w, rest, v, X) /\ (e \in X => ~Present(tc, w, rest, v, X))
             /\ e \in X => Present(tc, w, tp, v, X)
             /\ e \notin X => (Present(tc, w, rest, v, X) <=> Present(tc, w, tp, v, X))
  BY <1>2, <1>3 DEF Sole, Present
<1>5. ASSUME NEW a \in 1..7, NEW X, NEW M
      PROVE  /\ At(tc, w, rest, v, a, X) => At(tc, w, tp, v, a, X)
             /\ LastAt(tc, w, tp, v, a, X, M) => LastAt(tc, w, rest, v, a, X, M)
             /\ a \in {2, 4, 7} /\ e \in X => At(tc, w, tp, v, a, X)
             /\ a \in {2, 4, 7} /\ e \in X /\ LastAt(tc, w, tp, v, a, X, M) => ~At(tc, w, rest, v, a, M)
  BY <1>2, <1>3 DEF At, LastAt
<1> QED
  BY <1>1, <1>4, <1>5 DEF Left, e, rest, m

\* The first of its kind leaves where calls wait.
LEMMA WaitLeft ==
  ASSUME NEW v, NEW tc, NEW w, NEW tp, Queues(tc, w, tp, v), NEW i \in 1..Len(w),
         \A j \in 1..(i - 1) : w[j].op # w[i].op
  PROVE  Left(tc, w, tp, tc, F!Without(w, i), tp, v, w[i], IF w[i].op = "publish" THEN {6} ELSE {})
<1> DEFINE e == w[i]
           rest == F!Without(w, i)
<1>1. w \in Seq(ForumWaits(v)) /\ rest \in Seq(ForumWaits(v)) /\ Queues(tc, rest, tp, v)
  BY WithoutOf DEF Queues
<1>2. \A X, M : /\ Some(w, X) <=> e \in X \/ Some(rest, X)
                /\ AtMostOne(w, X) => AtMostOne(rest, X) /\ (e \in X => ~Some(rest, X))
                /\ Last(w, X, M) => Last(rest, X, M)
                /\ Last(w, X, M) /\ e \in X /\ (\A j \in 1..(i - 1) : w[j] \notin M) => ~Some(rest, M)
  BY <1>1, WithoutPlaces
<1>3. e.op = "publish" => \A j \in 1..(i - 1) : w[j] \notin Saves(v, "publish")
  BY DEF Saves
<1> HIDE DEF e, rest
<1>4. ASSUME NEW X
      PROVE  /\ Sole(tc, w, tp, v, X) => Sole(tc, rest, tp, v, X) /\ (e \in X => ~Present(tc, rest, tp, v, X))
             /\ e \in X => Present(tc, w, tp, v, X)
             /\ e \notin X => (Present(tc, rest, tp, v, X) <=> Present(tc, w, tp, v, X))
  BY <1>2 DEF Sole, Present
<1>5. ASSUME NEW a \in 1..7, NEW X, NEW M
      PROVE  /\ At(tc, rest, tp, v, a, X) => At(tc, w, tp, v, a, X)
             /\ LastAt(tc, w, tp, v, a, X, M) => LastAt(tc, rest, tp, v, a, X, M)
             /\ a = 6 /\ e \in X => At(tc, w, tp, v, a, X)
             /\ a = 6 /\ e.op = "publish" /\ e \in X /\ M = Saves(v, "publish") /\ LastAt(tc, w, tp, v, a, X, M)
                  => ~At(tc, rest, tp, v, a, M)
  BY <1>2, <1>3 DEF At, LastAt
<1>6. Stage(6) = "publish"
  BY DEF Stage
<1> QED
  BY <1>1, <1>4, <1>5, <1>6 DEF Left, e, rest

\* A call that is marked is in no set of those that are not over.
LEMMA MarkedOf ==
  ASSUME NEW v, NEW e \in ForumCalls(v), NEW over, over = [e EXCEPT !.over = TRUE]
  PROVE  /\ over \in ForumCalls(v) /\ over.over /\ over.op = e.op /\ over.visit = e.visit /\ over.set = e.set
         /\ e \in ForumWaits(v) => over \in ForumWaits(v)
<1> DEFINE yes == TRUE
<1>1. yes \in BOOLEAN /\ yes
  OBVIOUS
<1>2. over = [e EXCEPT !.over = yes]
  OBVIOUS
<1> HIDE DEF yes
<1>3. over \in ForumCall
  BY <1>1, <1>2 DEF ForumCalls, ForumCall
<1>4. over.over /\ over.op = e.op /\ over.visit = e.visit /\ over.set = e.set /\ over.for = e.for
  BY <1>1, <1>2 DEF ForumCalls, ForumCall
<1> QED
  BY <1>3, <1>4 DEF ForumCalls, ForumWaits

LEMMA CallMarked ==
  ASSUME NEW v, NEW tc, NEW w, NEW tp, Queues(tc, w, tp, v), NEW i \in 1..Len(tc), ~tc[i].over
  PROVE  Left(tc, w, tp, [tc EXCEPT ![i].over = TRUE], w, tp, v, tc[i], {})
<1> DEFINE e == tc[i]
           over == [e EXCEPT !.over = TRUE]
           q == [tc EXCEPT ![i] = over]
<1>1. tc \in Seq(ForumCalls(v)) /\ e \in ForumCalls(v)
  BY ElementOfSeq DEF Queues
<1>2. over \in ForumCalls(v) /\ over.over /\ over.op = e.op
  <2> HIDE DEF e
  <2> QED
    BY <1>1, MarkedOf
<1> HIDE DEF over
<1>3. q \in Seq(ForumCalls(v)) /\ Queues(q, w, tp, v)
  BY <1>1, <1>2, ExceptSeq DEF Queues
<1>4. \A X : (over \in X => e \in X) =>
        /\ (e \in X <=> over \in X) => (Some(q, X) <=> Some(tc, X))
        /\ AtMostOne(tc, X) => AtMostOne(q, X) /\ (e \in X /\ over \notin X => ~Some(q, X))
        /\ Some(q, X) => Some(tc, X)
        /\ \A M : (over \in M => e \in M) /\ Last(tc, X, M) => Last(q, X, M)
  <2> SUFFICES ASSUME NEW X, over \in X => e \in X
               PROVE  /\ (e \in X <=> over \in X) => (Some(q, X) <=> Some(tc, X))
                      /\ AtMostOne(tc, X) => AtMostOne(q, X) /\ (e \in X /\ over \notin X => ~Some(q, X))
                      /\ Some(q, X) => Some(tc, X)
                      /\ \A M : (over \in M => e \in M) /\ Last(tc, X, M) => Last(q, X, M)
    OBVIOUS
  <2>1. /\ (e \in X <=> over \in X) => (Some(q, X) <=> Some(tc, X))
        /\ AtMostOne(tc, X) => AtMostOne(q, X) /\ (e \in X /\ over \notin X => ~Some(q, X))
    BY <1>1, <1>2, ExceptPlaces
  <2>2. Some(q, X) => Some(tc, X)
    <3>1. e \in X => Some(tc, X)
      BY DEF Some
    <3> QED
      BY <2>1, <3>1
  <2>3. \A M : (over \in M => e \in M) /\ Last(tc, X, M) => Last(q, X, M)
    BY <1>1, <1>2, ExceptLast
  <2> QED
    BY <2>1, <2>2, <2>3
<1>5. \A X : (\A c \in X : ~c.over) => over \notin X
  BY <1>2
<1>6. \A op : over \in Saves(v, op) => e \in Saves(v, op)
  BY <1>1, <1>2 DEF Saves
<1>7. \A op : \A c \in LiveSaves(v, op) : ~c.over
  BY DEF LiveSaves
<1> HIDE DEF e, q
<1>8. ASSUME NEW X, \A c \in X : ~c.over
      PROVE  /\ Sole(tc, w, tp, v, X) => Sole(q, w, tp, v, X) /\ (e \in X => ~Present(q, w, tp, v, X))
             /\ e \in X => Present(tc, w, tp, v, X)
             /\ e \notin X => (Present(q, w, tp, v, X) <=> Present(tc, w, tp, v, X))
             /\ \A a \in 1..7 : At(q, w, tp, v, a, X) => At(tc, w, tp, v, a, X)
  <2>1. over \notin X
    BY <1>5, <1>8
  <2>2. /\ e \notin X => (Some(q, X) <=> Some(tc, X))
        /\ AtMostOne(tc, X) => AtMostOne(q, X) /\ (e \in X => ~Some(q, X))
        /\ Some(q, X) => Some(tc, X)
    BY <1>4, <2>1
  <2>3. e \in X => Some(tc, X)
    BY DEF Some, e
  <2> QED
    BY <2>2, <2>3 DEF Sole, Present, At
<1>9. ASSUME NEW a \in 1..7, NEW X, NEW M, X = LiveSaves(v, Stage(a)), M = Saves(v, Stage(a))
      PROVE  /\ At(q, w, tp, v, a, M) => At(tc, w, tp, v, a, M)
             /\ LastAt(tc, w, tp, v, a, X, M) => LastAt(q, w, tp, v, a, X, M)
  <2>1. over \notin X /\ (over \in M => e \in M)
    BY <1>5, <1>6, <1>7, <1>9
  <2>2. (Some(q, M) => Some(tc, M)) /\ (Last(tc, X, M) => Last(q, X, M))
    BY <1>4, <2>1
  <2> QED
    BY <2>2 DEF At, LastAt
<1>10. Left(tc, w, tp, q, w, tp, v, e, {})
  BY <1>3, <1>8, <1>9 DEF Left
<1> QED
  BY <1>10 DEF q, e, over

LEMMA WaitMarked ==
  ASSUME NEW v, NEW tc, NEW w, NEW tp, Queues(tc, w, tp, v), NEW i \in 1..Len(w), ~w[i].over
  PROVE  Left(tc, w, tp, tc, [w EXCEPT ![i].over = TRUE], tp, v, w[i], {})
<1> DEFINE e == w[i]
           over == [e EXCEPT !.over = TRUE]
           q == [w EXCEPT ![i] = over]
<1>1. w \in Seq(ForumWaits(v)) /\ e \in ForumWaits(v) /\ e \in ForumCalls(v)
  BY ElementOfSeq DEF Queues, ForumWaits
<1>2. over \in ForumWaits(v) /\ over \in ForumCalls(v) /\ over.over /\ over.op = e.op
  <2> HIDE DEF e
  <2> QED
    BY <1>1, MarkedOf
<1> HIDE DEF over
<1>3. q \in Seq(ForumWaits(v)) /\ Queues(tc, q, tp, v)
  BY <1>1, <1>2, ExceptSeq DEF Queues
<1>4. \A X : (over \in X => e \in X) =>
        /\ (e \in X <=> over \in X) => (Some(q, X) <=> Some(w, X))
        /\ AtMostOne(w, X) => AtMostOne(q, X) /\ (e \in X /\ over \notin X => ~Some(q, X))
        /\ Some(q, X) => Some(w, X)
        /\ \A M : (over \in M => e \in M) /\ Last(w, X, M) => Last(q, X, M)
  <2> SUFFICES ASSUME NEW X, over \in X => e \in X
               PROVE  /\ (e \in X <=> over \in X) => (Some(q, X) <=> Some(w, X))
                      /\ AtMostOne(w, X) => AtMostOne(q, X) /\ (e \in X /\ over \notin X => ~Some(q, X))
                      /\ Some(q, X) => Some(w, X)
                      /\ \A M : (over \in M => e \in M) /\ Last(w, X, M) => Last(q, X, M)
    OBVIOUS
  <2>1. /\ (e \in X <=> over \in X) => (Some(q, X) <=> Some(w, X))
        /\ AtMostOne(w, X) => AtMostOne(q, X) /\ (e \in X /\ over \notin X => ~Some(q, X))
    BY <1>1, <1>2, ExceptPlaces
  <2>2. Some(q, X) => Some(w, X)
    <3>1. e \in X => Some(w, X)
      BY DEF Some
    <3> QED
      BY <2>1, <3>1
  <2>3. \A M : (over \in M => e \in M) /\ Last(w, X, M) => Last(q, X, M)
    BY <1>1, <1>2, ExceptLast
  <2> QED
    BY <2>1, <2>2, <2>3
<1>5. \A X : (\A c \in X : ~c.over) => over \notin X
  BY <1>2
<1>6. \A op : over \in Saves(v, op) => e \in Saves(v, op)
  BY <1>1, <1>2 DEF Saves
<1>7. \A op : \A c \in LiveSaves(v, op) : ~c.over
  BY DEF LiveSaves
<1> HIDE DEF e, q
<1>8. ASSUME NEW X, \A c \in X : ~c.over
      PROVE  /\ Sole(tc, w, tp, v, X) => Sole(tc, q, tp, v, X) /\ (e \in X => ~Present(tc, q, tp, v, X))
             /\ e \in X => Present(tc, w, tp, v, X)
             /\ e \notin X => (Present(tc, q, tp, v, X) <=> Present(tc, w, tp, v, X))
             /\ \A a \in 1..7 : At(tc, q, tp, v, a, X) => At(tc, w, tp, v, a, X)
  <2>1. over \notin X
    BY <1>5, <1>8
  <2>2. /\ e \notin X => (Some(q, X) <=> Some(w, X))
        /\ AtMostOne(w, X) => AtMostOne(q, X) /\ (e \in X => ~Some(q, X))
        /\ Some(q, X) => Some(w, X)
    BY <1>4, <2>1
  <2>3. e \in X => Some(w, X)
    BY DEF Some, e
  <2> QED
    BY <2>2, <2>3 DEF Sole, Present, At
<1>9. ASSUME NEW a \in 1..7, NEW X, NEW M, X = LiveSaves(v, Stage(a)), M = Saves(v, Stage(a))
      PROVE  /\ At(tc, q, tp, v, a, M) => At(tc, w, tp, v, a, M)
             /\ LastAt(tc, w, tp, v, a, X, M) => LastAt(tc, q, tp, v, a, X, M)
  <2>1. over \notin X /\ (over \in M => e \in M)
    BY <1>5, <1>6, <1>7, <1>9
  <2>2. (Some(q, M) => Some(w, M)) /\ (Last(w, X, M) => Last(q, X, M))
    BY <1>4, <2>1
  <2> QED
    BY <2>2 DEF At, LastAt
<1>10. Left(tc, w, tp, tc, q, tp, v, e, {})
  BY <1>3, <1>8, <1>9 DEF Left
<1> QED
  BY <1>10 DEF q, e, over

\* Nothing changed for any call.
Same(tc, w, tp, tc2, w2, tp2, v) ==
  /\ Queues(tc2, w2, tp2, v)
  /\ \A X : /\ Sole(tc, w, tp, v, X) => Sole(tc2, w2, tp2, v, X)
            /\ Present(tc2, w2, tp2, v, X) <=> Present(tc, w, tp, v, X)
  /\ \A a \in 1..7 : \A X : At(tc2, w2, tp2, v, a, X) <=> At(tc, w, tp, v, a, X)
  /\ \A a \in 1..7 : \A X, M : LastAt(tc, w, tp, v, a, X, M) => LastAt(tc2, w2, tp2, v, a, X, M)

LEMMA EventHeard ==
  ASSUME NEW v, NEW tc, NEW w, NEW tp, Queues(tc, w, tp, v), tp # <<>>, Head(tp) \notin ForumReplies(v)
  PROVE  Same(tc, w, tp, tc, w, Tail(tp), v)
<1> DEFINE m == Head(tp)
           rest == Tail(tp)
<1>1. tp \in Seq(ForumMessages(v)) /\ rest \in Seq(ForumMessages(v)) /\ Queues(tc, w, rest, v)
  BY TailOf DEF Queues
<1>2. \A X, M : /\ Some(tp, X) <=> m \in X \/ Some(rest, X)
                /\ AtMostOne(tp, X) => AtMostOne(rest, X)
                /\ Last(tp, X, M) => Last(rest, X, M)
  BY <1>1, TailPlaces, TailLast
<1>3. \A X : m \notin Answers(v, X)
  BY DEF Answers
<1> HIDE DEF m, rest
<1>4. \A X : (Some(tp, Answers(v, X)) <=> Some(rest, Answers(v, X)))
  BY <1>2, <1>3
<1> QED
  BY <1>1, <1>2, <1>4 DEF Same, Sole, Present, At, LastAt, rest

LEMMA EventTold ==
  ASSUME NEW v, NEW tc, NEW w, NEW tp, Queues(tc, w, tp, v), NEW m \in ForumEvents
  PROVE  Same(tc, w, tp, tc, w, tp \o <<m>>, v)
<1> DEFINE q == Append(tp, m)
<1>0. m \notin ForumReplies(v)
  BY DEF ForumEvents, ForumReplies
<1>1. tp \in Seq(ForumMessages(v)) /\ m \in ForumMessages(v) /\ q \in Seq(ForumMessages(v)) /\ Queues(tc, w, q, v)
  BY AppendOf DEF Queues, ForumMessages
<1>5. tp \o <<m>> = q
  BY <1>1, ConcatOne
<1>2. \A X, M : /\ Some(q, X) <=> m \in X \/ Some(tp, X)
                /\ AtMostOne(tp, X) /\ m \notin X => AtMostOne(q, X)
                /\ Last(tp, X, M) /\ m \notin M => Last(q, X, M)
  BY <1>1, AppendPlaces, AppendLast
<1>3. \A X : m \notin Answers(v, X)
  BY <1>0 DEF Answers
<1> HIDE DEF q
<1>4. \A X : (Some(tp, Answers(v, X)) <=> Some(q, Answers(v, X)))
  BY <1>2, <1>3
<1>6. Same(tc, w, tp, tc, w, q, v)
  BY <1>1, <1>2, <1>3, <1>4 DEF Same, Sole, Present, At, LastAt
<1> QED
  BY <1>5, <1>6

\* Call e has come to these places.
Given(tc, w, tp, tc2, w2, tp2, v, e, places) ==
  /\ Queues(tc2, w2, tp2, v)
  /\ \A X : /\ Sole(tc, w, tp, v, X) /\ (e \in X => ~Present(tc, w, tp, v, X)) => Sole(tc2, w2, tp2, v, X)
            /\ Present(tc2, w2, tp2, v, X) <=> Present(tc, w, tp, v, X) \/ e \in X
  /\ \A a \in 1..7 : \A X : At(tc2, w2, tp2, v, a, X) => At(tc, w, tp, v, a, X) \/ (a \in places /\ e \in X)
  /\ \A a \in 1..7 : \A X, M :
       LastAt(tc, w, tp, v, a, X, M) /\ (a \in places /\ e \in M => ~At(tc, w, tp, v, a, X)) => LastAt(tc2, w2, tp2, v, a, X, M)

LEMMA CallGiven ==
  ASSUME NEW v, NEW tc, NEW w, NEW tp, Queues(tc, w, tp, v), NEW e \in ForumCalls(v)
  PROVE  Given(tc, w, tp, Append(tc, e), w, tp, v, e, {1, 3, 5})
<1> DEFINE q == Append(tc, e)
<1>1. tc \in Seq(ForumCalls(v)) /\ q \in Seq(ForumCalls(v)) /\ Queues(q, w, tp, v)
  BY AppendOf DEF Queues
<1>2. \A X, M : /\ Some(q, X) <=> Some(tc, X) \/ e \in X
                /\ AtMostOne(tc, X) /\ (e \in X => ~Some(tc, X)) => AtMostOne(q, X)
                /\ Last(tc, X, M) /\ (e \in M => ~Some(tc, X)) => Last(q, X, M)
  BY <1>1, AppendPlaces, AppendLast
<1> HIDE DEF q
<1>3. \A X : /\ Sole(tc, w, tp, v, X) /\ (e \in X => ~Present(tc, w, tp, v, X)) => Sole(q, w, tp, v, X)
             /\ Present(q, w, tp, v, X) <=> Present(tc, w, tp, v, X) \/ e \in X
  BY <1>2 DEF Sole, Present
<1>4. ASSUME NEW a \in 1..7, NEW X
      PROVE  At(q, w, tp, v, a, X) => At(tc, w, tp, v, a, X) \/ (a \in {1, 3, 5} /\ e \in X)
  BY <1>2 DEF At
<1>5. ASSUME NEW a \in 1..7, NEW X, NEW M
      PROVE  LastAt(tc, w, tp, v, a, X, M) /\ (a \in {1, 3, 5} /\ e \in M => ~At(tc, w, tp, v, a, X)) => LastAt(q, w, tp, v, a, X, M)
  BY <1>2 DEF At, LastAt
<1> QED
  BY <1>1, <1>3, <1>4, <1>5 DEF Given, q

LEMMA WaitGiven ==
  ASSUME NEW v, NEW tc, NEW w, NEW tp, Queues(tc, w, tp, v), NEW e \in ForumWaits(v)
  PROVE  Given(tc, w, tp, tc, Append(w, e), tp, v, e, {6})
<1> DEFINE q == Append(w, e)
<1>1. w \in Seq(ForumWaits(v)) /\ q \in Seq(ForumWaits(v)) /\ Queues(tc, q, tp, v)
  BY AppendOf DEF Queues
<1>2. \A X, M : /\ Some(q, X) <=> Some(w, X) \/ e \in X
                /\ AtMostOne(w, X) /\ (e \in X => ~Some(w, X)) => AtMostOne(q, X)
                /\ Last(w, X, M) /\ (e \in M => ~Some(w, X)) => Last(q, X, M)
  BY <1>1, AppendPlaces, AppendLast
<1> HIDE DEF q
<1>3. \A X : /\ Sole(tc, w, tp, v, X) /\ (e \in X => ~Present(tc, w, tp, v, X)) => Sole(tc, q, tp, v, X)
             /\ Present(tc, q, tp, v, X) <=> Present(tc, w, tp, v, X) \/ e \in X
  BY <1>2 DEF Sole, Present
<1>4. ASSUME NEW a \in 1..7, NEW X
      PROVE  At(tc, q, tp, v, a, X) => At(tc, w, tp, v, a, X) \/ (a \in {6} /\ e \in X)
  BY <1>2 DEF At
<1>5. ASSUME NEW a \in 1..7, NEW X, NEW M
      PROVE  LastAt(tc, w, tp, v, a, X, M) /\ (a \in {6} /\ e \in M => ~At(tc, w, tp, v, a, X)) => LastAt(tc, q, tp, v, a, X, M)
  BY <1>2 DEF At, LastAt
<1> QED
  BY <1>1, <1>3, <1>4, <1>5 DEF Given, q

LEMMA ReplyGiven ==
  ASSUME NEW v, NEW tc, NEW w, NEW tp, Queues(tc, w, tp, v), NEW m \in ForumReplies(v)
  PROVE  Given(tc, w, tp, tc, w, tp \o <<m>>, v, m.call, {2, 4, 7})
<1> DEFINE q == Append(tp, m)
           e == m.call
<1>1. tp \in Seq(ForumMessages(v)) /\ m \in ForumMessages(v) /\ q \in Seq(ForumMessages(v)) /\ Queues(tc, w, q, v)
  BY AppendOf DEF Queues, ForumMessages
<1>6. tp \o <<m>> = q
  BY <1>1, ConcatOne
<1>2. \A X, M : /\ Some(q, X) <=> Some(tp, X) \/ m \in X
                /\ AtMostOne(tp, X) /\ (m \in X => ~Some(tp, X)) => AtMostOne(q, X)
                /\ Last(tp, X, M) /\ (m \in M => ~Some(tp, X)) => Last(q, X, M)
  BY <1>1, AppendPlaces, AppendLast
<1>3. \A X : m \in Answers(v, X) <=> e \in X
  BY DEF Answers
<1> HIDE DEF q, e
<1>4. \A X : /\ Sole(tc, w, tp, v, X) /\ (e \in X => ~Present(tc, w, tp, v, X)) => Sole(tc, w, q, v, X)
             /\ Present(tc, w, q, v, X) <=> Present(tc, w, tp, v, X) \/ e \in X
  BY <1>2, <1>3 DEF Sole, Present
<1>5. ASSUME NEW a \in 1..7, NEW X
      PROVE  At(tc, w, q, v, a, X) => At(tc, w, tp, v, a, X) \/ (a \in {2, 4, 7} /\ e \in X)
  BY <1>2, <1>3 DEF At
<1>7. ASSUME NEW a \in 1..7, NEW X, NEW M
      PROVE  LastAt(tc, w, tp, v, a, X, M) /\ (a \in {2, 4, 7} /\ e \in M => ~At(tc, w, tp, v, a, X)) => LastAt(tc, w, q, v, a, X, M)
  BY <1>2, <1>3 DEF At, LastAt
<1> QED
  BY <1>1, <1>4, <1>5, <1>6, <1>7 DEF Given, e

\* What stays in order when calls leave, come and move on.
LEMMA StageOf ==
  ASSUME NEW v
  PROVE  \A a \in 1..7 : LiveSaves(v, Stage(a)) \subseteq Saves(v, Stage(a)) /\ (\A c \in LiveSaves(v, Stage(a)) : ~c.over)
BY DEF LiveSaves

LEMMA LeftOrder ==
  ASSUME NEW v, NEW tc, NEW w, NEW tp, NEW tc2, NEW w2, NEW tp2, NEW e, NEW places,
         Left(tc, w, tp, tc2, w2, tp2, v, e, places), SaveOrder(tc, w, tp, v)
  PROVE  SaveOrder(tc2, w2, tp2, v)
<1>1. \A a \in 1..7 :
        /\ At(tc2, w2, tp2, v, a, LiveSaves(v, Stage(a))) => At(tc, w, tp, v, a, LiveSaves(v, Stage(a)))
        /\ At(tc2, w2, tp2, v, a, Saves(v, Stage(a))) => At(tc, w, tp, v, a, Saves(v, Stage(a)))
        /\ LastAt(tc, w, tp, v, a, LiveSaves(v, Stage(a)), Saves(v, Stage(a)))
             => LastAt(tc2, w2, tp2, v, a, LiveSaves(v, Stage(a)), Saves(v, Stage(a)))
  BY StageOf DEF Left
<1> QED
  BY <1>1 DEF SaveOrder

LEMMA SameOrder ==
  ASSUME NEW v, NEW tc, NEW w, NEW tp, NEW tc2, NEW w2, NEW tp2,
         Same(tc, w, tp, tc2, w2, tp2, v), SaveOrder(tc, w, tp, v)
  PROVE  SaveOrder(tc2, w2, tp2, v)
<1>1. \A a \in 1..7 :
        /\ At(tc2, w2, tp2, v, a, LiveSaves(v, Stage(a))) => At(tc, w, tp, v, a, LiveSaves(v, Stage(a)))
        /\ At(tc2, w2, tp2, v, a, Saves(v, Stage(a))) => At(tc, w, tp, v, a, Saves(v, Stage(a)))
        /\ LastAt(tc, w, tp, v, a, LiveSaves(v, Stage(a)), Saves(v, Stage(a)))
             => LastAt(tc2, w2, tp2, v, a, LiveSaves(v, Stage(a)), Saves(v, Stage(a)))
  BY DEF Same
<1> QED
  BY <1>1 DEF SaveOrder

LEMMA GiveOrder ==
  ASSUME NEW v, NEW tc, NEW w, NEW tp, NEW tc2, NEW w2, NEW tp2, NEW d, NEW places, NEW t \in 1..7,
         Given(tc, w, tp, tc2, w2, tp2, v, d, places), SaveOrder(tc, w, tp, v),
         \A a \in 1..7 : a \in places /\ d \in Saves(v, Stage(a)) => a = t,
         \A a \in 1..7 : d \in Saves(v, Stage(t)) /\ t <= a => ~At(tc, w, tp, v, a, LiveSaves(v, Stage(a))),
         \A b \in 1..7 : d \in LiveSaves(v, Stage(t)) /\ b < t => ~At(tc, w, tp, v, b, Saves(v, Stage(b)))
  PROVE  SaveOrder(tc2, w2, tp2, v)
<1> DEFINE live(a) == LiveSaves(v, Stage(a))
           all(a) == Saves(v, Stage(a))
           was(a, X) == At(tc, w, tp, v, a, X)
           is(a, X) == At(tc2, w2, tp2, v, a, X)
<1>1. \A a \in 1..7 : live(a) \subseteq all(a)
  BY StageOf
<1>2. \A a \in 1..7 : \A X : is(a, X) => was(a, X) \/ (a \in places /\ d \in X)
  BY DEF Given
<1>3. \A a \in 1..7 : a \in places /\ d \in all(a) => a = t
  OBVIOUS
<1>4. \A a \in 1..7 : d \in all(t) /\ t <= a => ~was(a, live(a))
  OBVIOUS
<1>5. \A b \in 1..7 : d \in live(t) /\ b < t => ~was(b, all(b))
  OBVIOUS
<1>6. \A a, b \in 1..7 : was(a, live(a)) /\ was(b, all(b)) => a <= b
  BY DEF SaveOrder
<1>7. \A a \in 1..7 : LastAt(tc2, w2, tp2, v, a, live(a), all(a))
  <2> SUFFICES ASSUME NEW a \in 1..7
               PROVE  LastAt(tc2, w2, tp2, v, a, live(a), all(a))
    OBVIOUS
  <2>1. a \in places /\ d \in all(a) => ~was(a, live(a))
    BY <1>3, <1>4
  <2>2. LastAt(tc, w, tp, v, a, live(a), all(a))
    BY DEF SaveOrder
  <2> HIDE DEF live, all
  <2> QED
    BY <2>1, <2>2 DEF Given
<1> HIDE DEF live, all, was, is
<1>8. \A a, b \in 1..7 : is(a, live(a)) /\ is(b, all(b)) => a <= b
  <2> SUFFICES ASSUME NEW a \in 1..7, NEW b \in 1..7, is(a, live(a)), is(b, all(b))
               PROVE  a <= b
    OBVIOUS
  <2>1. CASE was(a, live(a)) /\ was(b, all(b))
    BY <2>1, <1>6
  <2>2. CASE a \in places /\ d \in live(a)
    <3>1. a = t
      BY <2>2, <1>1, <1>3
    <3>2. b < t => ~was(b, all(b))
      BY <3>1, <2>2, <1>5
    <3>3. was(b, all(b)) \/ b = t
      BY <1>2, <1>3
    <3> QED
      BY <3>1, <3>2, <3>3
  <2>3. CASE was(a, live(a)) /\ b \in places /\ d \in all(b)
    <3>1. b = t
      BY <2>3, <1>3
    <3>2. ~(t <= a)
      BY <2>3, <3>1, <1>4
    <3> QED
      BY <3>1, <3>2
  <2> QED
    BY <2>1, <2>2, <2>3, <1>2
<1> QED
  BY <1>7, <1>8 DEF SaveOrder, live, all, is

\* A save passes from one place to the next.
LEMMA MoveOrder ==
  ASSUME NEW v, NEW tc, NEW w, NEW tp, NEW tc2, NEW w2, NEW tp2, NEW tc3, NEW w3, NEW tp3,
         NEW e, NEW d, NEW from, NEW to, NEW s \in 1..6,
         SaveOrder(tc, w, tp, v),
         Left(tc, w, tp, tc2, w2, tp2, v, e, from), Given(tc2, w2, tp2, tc3, w3, tp3, v, d, to),
         s \in from, e \in Saves(v, Stage(s)),
         d \in LiveSaves(v, Stage(s + 1)) => e \in LiveSaves(v, Stage(s)),
         \A a \in 1..7 : a \in to /\ d \in Saves(v, Stage(a)) => a = s + 1
  PROVE  SaveOrder(tc3, w3, tp3, v)
<1> DEFINE live(a) == LiveSaves(v, Stage(a))
           all(a) == Saves(v, Stage(a))
           was(a, X) == At(tc, w, tp, v, a, X)
           is(a, X) == At(tc2, w2, tp2, v, a, X)
<1>1. SaveOrder(tc2, w2, tp2, v)
  BY LeftOrder
<1>2. s + 1 \in 1..7 /\ s \in 1..7
  OBVIOUS
<1>3. \A a \in 1..7 : (is(a, live(a)) => was(a, live(a))) /\ (is(a, all(a)) => was(a, all(a)))
  BY StageOf DEF Left
<1>4. was(s, all(s)) /\ (e \in live(s) => ~is(s, all(s)))
  <2>1. LastAt(tc, w, tp, v, s, live(s), all(s))
    BY <1>2 DEF SaveOrder
  <2>2. /\ s \in from /\ e \in all(s) => was(s, all(s))
        /\ s \in from /\ e \in live(s) /\ LastAt(tc, w, tp, v, s, live(s), all(s)) => ~is(s, all(s))
    BY <1>2 DEF Left
  <2> QED
    BY <2>1, <2>2
<1>5. e \in live(s) => was(s, live(s))
  <2>1. \A c \in live(s) : ~c.over
    BY <1>2, StageOf
  <2> HIDE DEF live
  <2> QED
    BY <2>1, <1>2 DEF Left
<1>6. \A a, b \in 1..7 : was(a, live(a)) /\ was(b, all(b)) => a <= b
  BY DEF SaveOrder
<1> HIDE DEF live, all, was, is
<1>7. \A a \in 1..7 : s + 1 <= a => ~is(a, live(a))
  BY <1>2, <1>3, <1>4, <1>6
<1>8. \A b \in 1..7 : d \in live(s + 1) /\ b < s + 1 => ~is(b, all(b))
  <2> SUFFICES ASSUME NEW b \in 1..7, d \in live(s + 1), b < s + 1, is(b, all(b))
               PROVE  FALSE
    OBVIOUS
  <2>1. e \in live(s)
    BY DEF live
  <2>2. s <= b
    BY <2>1, <1>2, <1>3, <1>5, <1>6
  <2>3. b = s
    BY <2>2
  <2> QED
    BY <2>1, <2>3, <1>4
<1> QED
  BY <1>1, <1>2, <1>7, <1>8, GiveOrder DEF live, all, is

\* What is no save, or is dropped, changes nothing in the order of saves.
LEMMA OtherOrder ==
  ASSUME NEW v, NEW tc, NEW w, NEW tp, NEW tc2, NEW w2, NEW tp2, NEW d, NEW places,
         Given(tc, w, tp, tc2, w2, tp2, v, d, places), SaveOrder(tc, w, tp, v), d.op \notin SaveOps
  PROVE  /\ SaveOrder(tc2, w2, tp2, v)
         /\ \A a \in 1..7 : At(tc2, w2, tp2, v, a, Saves(v, Stage(a))) => At(tc, w, tp, v, a, Saves(v, Stage(a)))
<1>1. \A a \in 1..7 : Stage(a) \in SaveOps /\ d \notin Saves(v, Stage(a)) /\ d \notin LiveSaves(v, Stage(a))
  BY DEF Stage, SaveOps, Saves, LiveSaves
<1>2. 1 \in 1..7
  OBVIOUS
<1>3. \A a \in 1..7 : At(tc2, w2, tp2, v, a, Saves(v, Stage(a))) => At(tc, w, tp, v, a, Saves(v, Stage(a)))
  BY <1>1 DEF Given
<1>4. SaveOrder(tc2, w2, tp2, v)
  BY <1>1, <1>2, GiveOrder
<1> QED
  BY <1>3, <1>4

-----------------------------------------------------------------------------
(* Forum: the steps of the client.                                         *)

Answered(c, m) ==
  /\ m \in ForumReplies(visit) /\ m.call = c
  /\ m.under = rules \cap profile /\ m.exchanges = exchanges' /\ m.values = profile' /\ m.rules = rules' /\ m.revision = revision'

\* The client has gone on with call c, after what it told before.
AnswersAfter(c, told, ok, found) ==
  \/ c.over /\ toPage' = told
  \/ ~c.over /\ \E m : Answered(c, m) /\ m.ok = ok /\ m.found = found /\ toPage' = told \o <<m>>

LEMMA ReplyAnswers ==
  ASSUME NEW c \in ForumCalls(visit), NEW ok \in BOOLEAN, NEW found \in ForumFinds, NEW told, told \in Seq(ForumMessages(visit)),
         ForumClient, ForumClient', toPage' = told \o F!Reply(c, ok, found),
         ok /\ c.op = "validate" => c.set \notin Invalid
  PROVE  AnswersAfter(c, told, ok, found)
<1>1. CASE c.over
  BY <1>1, ConcatOne DEF F!Reply, AnswersAfter
<1>2. CASE ~c.over
  <2> DEFINE m == [type |-> "reply", call |-> c, ok |-> ok, found |-> found, under |-> rules \cap profile,
                   exchanges |-> exchanges', values |-> profile', rules |-> rules', revision |-> revision']
  <2>1. F!Reply(c, ok, found) = <<m>>
    BY <1>2 DEF F!Reply
  <2>2. rules \cap profile \in SUBSET F!Members
    BY DEF ForumClient
  <2>3. exchanges' \in Seq(Exchange) /\ profile' \in SUBSET F!Members /\ rules' \in SUBSET F!Members /\ revision' \in Nat
    BY DEF ForumClient
  <2>4. m \in [type : {"reply"}, call : ForumCalls(visit), ok : BOOLEAN, found : ForumFinds, under : SUBSET F!Members,
               exchanges : Seq(Exchange), values : SUBSET F!Members, rules : SUBSET F!Members, revision : Nat]
    BY <2>2, <2>3
  <2>5. /\ m.call = c /\ m.ok = ok /\ m.found = found
        /\ m.under = rules \cap profile /\ m.exchanges = exchanges' /\ m.values = profile' /\ m.rules = rules'
        /\ m.revision = revision'
    OBVIOUS
  <2> HIDE DEF m
  <2>6. m \in ForumReplies(visit)
    BY <1>2, <2>4, <2>5 DEF ForumReplies
  <2>7. toPage' = told \o <<m>>
    BY <2>1
  <2> QED
    BY <1>2, <2>5, <2>6, <2>7 DEF AnswersAfter, Answered
<1> QED
  BY <1>1, <1>2

LEMMA FoundOf ==
  ASSUME NEW filters, NEW at \in Nat
  PROVE  F!Found(filters, at) \in ForumFinds /\ F!Nothing \in ForumFinds
<1> DEFINE all == F!Matched(filters)
           next == at + PageSize
           zero == 0
           es == {m \in all : at <= F!Rank(m, all) /\ F!Rank(m, all) < next}
           cu == IF next < F!Cardinality(all) THEN next ELSE zero
<1>1. all \subseteq F!Members
  BY DEF F!Matched
<1>2. next \in Nat /\ zero \in Nat
  BY PagesAssumption DEF F!ForumAssumption
<1>3. es \in SUBSET F!Members
  BY <1>1
<1>4. cu \in Nat
  BY <1>2
<1>5. F!Found(filters, at) = [entries |-> es, cursor |-> cu]
  BY DEF F!Found
<1> HIDE DEF es, cu
<1>6. F!Found(filters, at) \in ForumFinds
  BY <1>3, <1>4, <1>5 DEF ForumFinds
<1>7. F!Nothing \in ForumFinds
  BY DEF F!Nothing, ForumFinds
<1> QED
  BY <1>6, <1>7

\* The call that waits is the one that came, but for what was decided.
Alike(e, d) ==
  /\ d.op = e.op /\ d.for = e.for /\ d.gen = e.gen /\ d.exchangeGen = e.exchangeGen /\ d.peer = e.peer
  /\ d.at = e.at /\ d.set = e.set /\ d.rules = e.rules /\ d.visit = e.visit /\ d.over = e.over

LEMMA AcceptedOf ==
  ASSUME NEW v, NEW e \in ForumCalls(v), NEW b \in BOOLEAN, NEW d, d = [e EXCEPT !.accepted = b]
  PROVE  d \in ForumCalls(v) /\ Alike(e, d)
<1>1. d \in ForumCall
  BY DEF ForumCalls, ForumCall
<1>2. Alike(e, d)
  BY DEF ForumCalls, ForumCall, Alike
<1> QED
  BY <1>1, <1>2 DEF ForumCalls, Alike

\* How the client goes on with the call at the head of its queue.
Runs(e) ==
  \/ /\ e.op \in {"key", "publish"} /\ UNCHANGED <<F!client, toPage>>
     /\ \E d : Alike(e, d) /\ d \in ForumWaits(visit) /\ waiting' = Append(waiting, d)
  \/ /\ UNCHANGED waiting
     /\ \/ e.op = "discover" /\ UNCHANGED F!client /\ AnswersAfter(e, toPage, TRUE, F!Found(e.set, e.at))
        \/ e.op \in {"key", "wave", "validate"} /\ UNCHANGED F!client /\ AnswersAfter(e, toPage, FALSE, F!Nothing)
        \/ /\ e.op \in {"schema", "exchanges", "load", "validate"} /\ UNCHANGED F!client
           /\ AnswersAfter(e, toPage, TRUE, F!Nothing)
        \/ /\ e.op = "wave" /\ UNCHANGED <<rules, profile, revision, blocked, exchanges>>
           /\ AnswersAfter(e, toPage, TRUE, F!Nothing)
        \/ /\ e.op = "saveRules" /\ rules' = e.rules /\ UNCHANGED <<profile, revision, blocked, exchanges>>
           /\ AnswersAfter(e, toPage, TRUE, F!Nothing)
        \/ /\ e.op \in {"block", "unblock"} /\ UNCHANGED <<rules, profile, revision, exchanges>>
           /\ blocked' = (IF e.op = "block" THEN blocked \cup {e.peer} ELSE blocked \ {e.peer})
           /\ \E m \in ForumEvents : m.type = "contacts" /\ AnswersAfter(e, toPage \o <<m>>, TRUE, F!Nothing)

LEMMA RunCallRuns ==
  ASSUME ForumType, F!RunCall
  PROVE  /\ toClient # <<>> /\ Head(toClient) \in ForumCalls(visit) /\ toClient' = Tail(toClient)
         /\ UNCHANGED <<page, visit, forum, editor, asks, timeouts>>
         /\ ForumClient' /\ Runs(Head(toClient))
<1> DEFINE e == Head(toClient)
           no == F!Nothing
           yes == TRUE
           fail == FALSE
           empty == <<>>
<1>0. /\ toClient # <<>> /\ e \in ForumCalls(visit) /\ toClient' = Tail(toClient) /\ F!Perform(e)
      /\ UNCHANGED <<page, visit, forum, editor, asks, timeouts>>
  BY TailOf DEF F!RunCall, ForumType, ForumPort
<1>1. /\ ForumClient /\ toPage \in Seq(ForumMessages(visit)) /\ toPage \o empty = toPage
      /\ yes \in BOOLEAN /\ yes /\ fail \in BOOLEAN /\ ~fail
  BY ConcatProperties, EmptySeq DEF ForumType, ForumPort
<1>2. no \in ForumFinds /\ e.at \in Nat /\ e.peer \in Nat /\ e.op \in ForumOps /\ e.rules \in SUBSET F!Members
  BY <1>0, FoundOf DEF ForumCalls, ForumCall
<1>13. UNCHANGED F!client => ForumClient'
  BY <1>1 DEF ForumClient, F!client
<1>3. ForumClient' /\ Runs(e)
  <2> HIDE DEF e, no, yes, fail, empty
  <2>1. CASE e.op \in {"schema", "exchanges", "load"}
    <3>1. UNCHANGED <<F!client, waiting>> /\ toPage' = toPage \o F!Reply(e, yes, no)
      BY <1>0, <1>1, <2>1 DEF F!Perform, F!Done, empty, no, yes
    <3>2. AnswersAfter(e, toPage, yes, no)
      BY <1>0, <1>1, <1>2, <1>13, <2>1, <3>1, ReplyAnswers
    <3> QED
      BY <2>1, <3>1, <3>2, <1>13 DEF Runs, no, yes
  <2>2. CASE e.op = "discover"
    <3> DEFINE found == F!Found(e.set, e.at)
    <3>1. UNCHANGED <<F!client, waiting>> /\ toPage' = toPage \o F!Reply(e, yes, found)
      BY <1>0, <2>2 DEF F!Perform, yes
    <3>3. found \in ForumFinds
      BY <1>2, FoundOf
    <3> HIDE DEF found
    <3>2. AnswersAfter(e, toPage, yes, found)
      BY <1>0, <1>1, <1>2, <1>13, <2>2, <3>1, <3>3, ReplyAnswers
    <3> QED
      BY <2>2, <3>1, <3>2, <1>13 DEF Runs, found, yes
  <2>3. CASE e.op = "key"
    <3>1. F!Waits([e EXCEPT !.accepted = e.peer \in F!Matching]) \/ F!Refused(e)
      BY <1>0, <2>3 DEF F!Perform
    <3>2. CASE F!Refused(e)
      <4>1. UNCHANGED <<F!client, waiting>> /\ toPage' = toPage \o F!Reply(e, fail, no)
        BY <3>2 DEF F!Refused, fail, no
      <4>2. AnswersAfter(e, toPage, fail, no)
        BY <1>0, <1>1, <1>2, <1>13, <2>3, <4>1, ReplyAnswers
      <4> QED
        BY <2>3, <4>1, <4>2, <1>13 DEF Runs, no, fail
    <3>3. CASE F!Waits([e EXCEPT !.accepted = e.peer \in F!Matching])
      <4> DEFINE b == e.peer \in F!Matching
                 d == [e EXCEPT !.accepted = b]
      <4>1. waiting' = Append(waiting, d) /\ UNCHANGED <<F!client, toPage>> /\ b \in BOOLEAN
        BY <3>3 DEF F!Waits, F!client
      <4> HIDE DEF b
      <4>3. d = [e EXCEPT !.accepted = b]
        OBVIOUS
      <4> HIDE DEF d
      <4>2. d \in ForumCalls(visit) /\ Alike(e, d)
        BY <1>0, <4>1, <4>3, AcceptedOf
      <4>4. d \in ForumWaits(visit)
        BY <2>3, <4>2 DEF ForumWaits, Alike
      <4> QED
        BY <2>3, <4>1, <4>2, <4>4, <1>13 DEF Runs
    <3> QED
      BY <3>1, <3>2, <3>3
  <2>4. CASE e.op = "wave"
    <3>1. \/ F!Refused(e)
          \/ /\ senderSlots > 0 /\ senderSlots' = senderSlots - 1
             /\ UNCHANGED <<rules, profile, revision, blocked, exchanges, waiting>> /\ F!Done(e, empty)
      BY <1>0, <2>4 DEF F!Perform, empty
    <3>2. CASE F!Refused(e)
      <4>1. UNCHANGED <<F!client, waiting>> /\ toPage' = toPage \o F!Reply(e, fail, no)
        BY <3>2 DEF F!Refused, fail, no
      <4>2. AnswersAfter(e, toPage, fail, no)
        BY <1>0, <1>1, <1>2, <1>13, <2>4, <4>1, ReplyAnswers
      <4> QED
        BY <2>4, <4>1, <4>2, <1>13 DEF Runs, no, fail
    <3>3. CASE /\ senderSlots > 0 /\ senderSlots' = senderSlots - 1
               /\ UNCHANGED <<rules, profile, revision, blocked, exchanges, waiting>> /\ F!Done(e, empty)
      <4>1. toPage' = toPage \o F!Reply(e, yes, no)
        BY <3>3, <1>1 DEF F!Done, yes, no
      <4>3. ForumClient'
        BY <3>3, <1>1 DEF ForumClient
      <4>2. AnswersAfter(e, toPage, yes, no)
        BY <1>0, <1>1, <1>2, <2>4, <4>1, <4>3, ReplyAnswers
      <4> QED
        BY <2>4, <3>3, <4>2, <4>3 DEF Runs, no, yes
    <3> QED
      BY <3>1, <3>2, <3>3
  <2>5. CASE e.op = "validate"
    <3>1. CASE e.set \in Invalid
      <4>1. UNCHANGED <<F!client, waiting>> /\ toPage' = toPage \o F!Reply(e, fail, no)
        BY <1>0, <2>5, <3>1 DEF F!Perform, F!Refused, fail, no
      <4>2. AnswersAfter(e, toPage, fail, no)
        BY <1>0, <1>1, <1>2, <1>13, <4>1, ReplyAnswers
      <4> QED
        BY <2>5, <4>1, <4>2, <1>13 DEF Runs, no, fail
    <3>2. CASE e.set \notin Invalid
      <4>1. UNCHANGED <<F!client, waiting>> /\ toPage' = toPage \o F!Reply(e, yes, no)
        BY <1>0, <1>1, <2>5, <3>2 DEF F!Perform, F!Done, empty, yes, no
      <4>2. AnswersAfter(e, toPage, yes, no)
        BY <1>0, <1>1, <1>2, <1>13, <3>2, <4>1, ReplyAnswers
      <4> QED
        BY <2>5, <4>1, <4>2, <1>13 DEF Runs, no, yes
    <3> QED
      BY <3>1, <3>2
  <2>6. CASE e.op = "saveRules"
    <3>1. /\ rules' = e.rules /\ UNCHANGED <<profile, revision, blocked, exchanges, senderSlots, waiting>>
          /\ toPage' = toPage \o F!Reply(e, yes, no)
      BY <1>0, <1>1, <2>6 DEF F!Perform, F!Done, empty, yes, no
    <3>3. ForumClient'
      BY <3>1, <1>1, <1>2 DEF ForumClient
    <3>2. AnswersAfter(e, toPage, yes, no)
      BY <1>0, <1>1, <1>2, <2>6, <3>1, <3>3, ReplyAnswers
    <3> QED
      BY <2>6, <3>1, <3>2, <3>3 DEF Runs, no, yes
  <2>7. CASE e.op = "publish"
    <3>1. e.set \notin Invalid /\ e \in ForumWaits(visit)
      BY <1>0, <2>7 DEF ForumCalls, ForumWaits
    <3>2. waiting' = Append(waiting, e) /\ UNCHANGED <<F!client, toPage>>
      BY <1>0, <2>7, <3>1 DEF F!Perform, F!Waits, F!client
    <3>3. Alike(e, e)
      BY DEF Alike
    <3> QED
      BY <2>7, <3>1, <3>2, <3>3, <1>13 DEF Runs
  <2>8. CASE e.op \in {"block", "unblock"}
    <3> DEFINE m == [type |-> "contacts"]
               told == toPage \o <<m>>
    <3>1. /\ blocked' = (IF e.op = "block" THEN blocked \cup {e.peer} ELSE blocked \ {e.peer})
          /\ UNCHANGED <<rules, profile, revision, exchanges, senderSlots, waiting>>
          /\ toPage' = told \o F!Reply(e, yes, no)
      BY <1>0, <2>8 DEF F!Perform, F!Done, F!Event, yes, no
    <3>2. m \in ForumEvents /\ m.type = "contacts"
      BY DEF ForumEvents
    <3>3. told \in Seq(ForumMessages(visit))
      <4> HIDE DEF m
      <4>1. m \in ForumMessages(visit)
        BY <3>2 DEF ForumMessages
      <4> QED
        BY <4>1, <1>1, ConcatOne, AppendOf
    <3> HIDE DEF m
    <3>4. ForumClient'
      BY <3>1, <1>1, <1>2 DEF ForumClient
    <3>7. told = toPage \o <<m>>
      OBVIOUS
    <3> HIDE DEF told
    <3>5. AnswersAfter(e, told, yes, no)
      BY <1>0, <1>1, <1>2, <2>8, <3>1, <3>3, <3>4, ReplyAnswers
    <3>6. \E ev \in ForumEvents : ev.type = "contacts" /\ AnswersAfter(e, toPage \o <<ev>>, yes, no)
      BY <3>2, <3>5, <3>7
    <3> QED
      BY <2>8, <3>1, <3>4, <3>6 DEF Runs, no, yes
  <2> QED
    BY <1>2, <2>1, <2>2, <2>3, <2>4, <2>5, <2>6, <2>7, <2>8 DEF ForumOps, SaveOps
<1> QED
  BY <1>0, <1>3

\* How the client ends the wait of call e.
Ends(e) ==
  \/ /\ e.op = "key" /\ exchanges' = Append(exchanges, [peer |-> e.peer, accepted |-> e.accepted])
     /\ UNCHANGED <<rules, profile, revision, blocked>>
     /\ \E m \in ForumEvents : m.type = "key-decision" /\ AnswersAfter(e, toPage \o <<m>>, TRUE, F!Nothing)
  \/ e.op = "key" /\ UNCHANGED F!client /\ AnswersAfter(e, toPage, FALSE, F!Nothing)
  \/ /\ e.op = "publish" /\ profile' = e.set /\ revision' = revision + 1 /\ UNCHANGED <<rules, blocked, exchanges>>
     /\ AnswersAfter(e, toPage, TRUE, F!Nothing)

LEMMA WaitEndsEnds ==
  ASSUME ForumType, NEW i \in DOMAIN waiting, F!WaitEnds(i)
  PROVE  /\ i \in 1..Len(waiting) /\ (\A j \in 1..(i - 1) : waiting[j].op # waiting[i].op)
         /\ waiting[i] \in ForumWaits(visit) /\ waiting' = F!Without(waiting, i)
         /\ UNCHANGED <<toClient, page, visit, forum, editor, asks, timeouts>>
         /\ ForumClient' /\ Ends(waiting[i])
<1> DEFINE e == waiting[i]
           no == F!Nothing
           yes == TRUE
           fail == FALSE
           empty == <<>>
<1>0. /\ i \in 1..Len(waiting) /\ e \in ForumWaits(visit) /\ e \in ForumCalls(visit)
      /\ \A j \in 1..(i - 1) : waiting[j].op # e.op
      /\ waiting' = F!Without(waiting, i)
      /\ UNCHANGED <<toClient, page, visit, forum, editor, asks, timeouts>>
  BY ElementOfSeq DEF F!WaitEnds, ForumType, ForumPort, ForumWaits
<1>1. /\ ForumClient /\ toPage \in Seq(ForumMessages(visit)) /\ toPage \o empty = toPage
      /\ yes \in BOOLEAN /\ yes /\ fail \in BOOLEAN /\ ~fail
  BY ConcatProperties, EmptySeq DEF ForumType, ForumPort
<1>2. /\ no \in ForumFinds /\ 0 \in Nat /\ e.peer \in Nat /\ e.op \in {"key", "publish"} /\ e.op # "validate"
      /\ e.set \in SUBSET F!Members /\ e.accepted \in BOOLEAN
  BY <1>0, FoundOf DEF ForumCalls, ForumCall, ForumWaits
<1>13. UNCHANGED F!client => ForumClient'
  BY <1>1 DEF ForumClient, F!client
<1>3. \/ /\ e.op = "key" /\ exchanges' = Append(exchanges, [peer |-> e.peer, accepted |-> e.accepted])
         /\ UNCHANGED <<rules, profile, revision, blocked, senderSlots>> /\ F!Done(e, F!Event("key-decision"))
      \/ e.op = "key" /\ UNCHANGED F!client /\ toPage' = toPage \o F!Reply(e, fail, no)
      \/ /\ e.op = "publish" /\ profile' = e.set /\ revision' = revision + 1
         /\ UNCHANGED <<rules, blocked, exchanges, senderSlots>> /\ F!Done(e, empty)
  BY DEF F!WaitEnds
<1>4. ForumClient' /\ Ends(e)
  <2> HIDE DEF e, no, yes, fail, empty
  <2>1. CASE /\ e.op = "key" /\ exchanges' = Append(exchanges, [peer |-> e.peer, accepted |-> e.accepted])
             /\ UNCHANGED <<rules, profile, revision, blocked, senderSlots>> /\ F!Done(e, F!Event("key-decision"))
    <3> DEFINE m == [type |-> "key-decision"]
               x == [peer |-> e.peer, accepted |-> e.accepted]
               told == toPage \o <<m>>
    <3>0. x \in Exchange
      BY <1>2 DEF Exchange
    <3>1. /\ exchanges' = Append(exchanges, x) /\ UNCHANGED <<rules, profile, revision, blocked, senderSlots>>
          /\ toPage' = told \o F!Reply(e, yes, no)
      BY <2>1 DEF F!Done, F!Event, yes, no
    <3>2. m \in ForumEvents /\ m.type = "key-decision"
      BY DEF ForumEvents
    <3>3. told \in Seq(ForumMessages(visit))
      <4> HIDE DEF m
      <4>1. m \in ForumMessages(visit)
        BY <3>2 DEF ForumMessages
      <4> QED
        BY <4>1, <1>1, ConcatOne, AppendOf
    <3> HIDE DEF m, x
    <3>4. ForumClient'
      BY <3>0, <3>1, <1>1, AppendOf DEF ForumClient
    <3>7. told = toPage \o <<m>>
      OBVIOUS
    <3> HIDE DEF told
    <3>5. AnswersAfter(e, told, yes, no)
      BY <1>0, <1>1, <1>2, <3>1, <3>3, <3>4, ReplyAnswers
    <3>6. \E ev \in ForumEvents : ev.type = "key-decision" /\ AnswersAfter(e, toPage \o <<ev>>, yes, no)
      BY <3>2, <3>5, <3>7
    <3> QED
      BY <2>1, <3>1, <3>4, <3>6 DEF Ends, no, yes
  <2>2. CASE e.op = "key" /\ UNCHANGED F!client /\ toPage' = toPage \o F!Reply(e, fail, no)
    <3>1. AnswersAfter(e, toPage, fail, no)
      BY <1>0, <1>1, <1>2, <1>13, <2>2, ReplyAnswers
    <3> QED
      BY <2>2, <3>1, <1>13 DEF Ends, fail, no
  <2>3. CASE /\ e.op = "publish" /\ profile' = e.set /\ revision' = revision + 1
             /\ UNCHANGED <<rules, blocked, exchanges, senderSlots>> /\ F!Done(e, empty)
    <3>1. toPage' = toPage \o F!Reply(e, yes, no)
      BY <2>3, <1>1 DEF F!Done, yes, no
    <3>2. ForumClient'
      BY <2>3, <1>1, <1>2 DEF ForumClient
    <3>3. AnswersAfter(e, toPage, yes, no)
      BY <1>0, <1>1, <1>2, <3>1, <3>2, ReplyAnswers
    <3> QED
      BY <2>3, <3>2, <3>3 DEF Ends, yes, no
  <2> QED
    BY <1>3, <2>1, <2>2, <2>3
<1> QED
  BY <1>0, <1>4

-----------------------------------------------------------------------------
(* Forum: the client keeps what is under way.                              *)

\* Sets of calls that are not over and do not depend on what was decided.
Blind(v, X) ==
  /\ \A c \in X : ~c.over
  /\ \A c, d \in ForumCalls(v) : Alike(c, d) => (c \in X <=> d \in X)

\* The client passes on what it takes.
Passes(tc, w, tp, tc2, w2, tp2, v) ==
  /\ Queues(tc2, w2, tp2, v)
  /\ SaveOrder(tc, w, tp, v) => SaveOrder(tc2, w2, tp2, v)
  /\ \A X : Blind(v, X) =>
       /\ Sole(tc, w, tp, v, X) => Sole(tc2, w2, tp2, v, X)
       /\ Present(tc2, w2, tp2, v, X) <=> Present(tc, w, tp, v, X)

\* A call has left, something was told, and the call was given back, or
\* nothing because it is over.
LEMMA PassesBack ==
  ASSUME NEW v, NEW tc, NEW w, NEW tp, NEW tc2, NEW w2, NEW told, NEW tp2, NEW e \in ForumCalls(v), NEW from, NEW s \in {1, 3, 6, 8},
         Left(tc, w, tp, tc2, w2, tp, v, e, from),
         told = tp \/ (\E m \in ForumEvents : told = tp \o <<m>>),
         (e.over /\ tp2 = told) \/ (~e.over /\ \E m \in ForumReplies(v) : m.call = e /\ tp2 = told \o <<m>>),
         IF s = 8 THEN e.op \notin SaveOps ELSE s \in from /\ e.op = Stage(s)
  PROVE  Passes(tc, w, tp, tc2, w2, tp2, v)
<1>1. Queues(tc2, w2, tp, v)
  BY DEF Left
<1>2. Same(tc2, w2, tp, tc2, w2, told, v)
  <2>1. CASE told = tp
    BY <1>1, <2>1 DEF Same
  <2>2. CASE \E m \in ForumEvents : told = tp \o <<m>>
    BY <1>1, <2>2, EventTold
  <2> QED
    BY <2>1, <2>2
<1>3. Queues(tc2, w2, told, v)
  BY <1>2 DEF Same
<1>4. \A X : (\A c \in X : ~c.over) =>
        /\ Sole(tc, w, tp, v, X) => Sole(tc2, w2, told, v, X) /\ (e \in X => ~Present(tc2, w2, told, v, X))
        /\ e \in X => Present(tc, w, tp, v, X)
        /\ e \notin X => (Present(tc2, w2, told, v, X) <=> Present(tc, w, tp, v, X))
  BY <1>2 DEF Left, Same
<1>5. CASE e.over /\ tp2 = told
  <2>1. SaveOrder(tc, w, tp, v) => SaveOrder(tc2, w2, told, v)
    BY <1>2, LeftOrder, SameOrder
  <2>2. \A X : Blind(v, X) =>
          /\ Sole(tc, w, tp, v, X) => Sole(tc2, w2, told, v, X)
          /\ Present(tc2, w2, told, v, X) <=> Present(tc, w, tp, v, X)
    BY <1>4, <1>5 DEF Blind
  <2> QED
    BY <1>3, <1>5, <2>1, <2>2 DEF Passes
<1>6. CASE ~e.over /\ (\E m \in ForumReplies(v) : m.call = e /\ tp2 = told \o <<m>>)
  <2>1. Given(tc2, w2, told, tc2, w2, tp2, v, e, {2, 4, 7})
    BY <1>3, <1>6, ReplyGiven
  <2>2. \A X : Blind(v, X) =>
          /\ Sole(tc, w, tp, v, X) => Sole(tc2, w2, tp2, v, X)
          /\ Present(tc2, w2, tp2, v, X) <=> Present(tc, w, tp, v, X)
    <3>1. \A X : /\ Sole(tc2, w2, told, v, X) /\ (e \in X => ~Present(tc2, w2, told, v, X)) => Sole(tc2, w2, tp2, v, X)
                 /\ Present(tc2, w2, tp2, v, X) <=> Present(tc2, w2, told, v, X) \/ e \in X
      BY <2>1 DEF Given
    <3> QED
      BY <3>1, <1>4 DEF Blind
  <2>3. Queues(tc2, w2, tp2, v)
    BY <2>1 DEF Given
  <2>4. ASSUME SaveOrder(tc, w, tp, v)
        PROVE  SaveOrder(tc2, w2, tp2, v)
    <3>1. CASE s = 8
      BY <3>1, <2>1, <2>4, <1>2, LeftOrder, SameOrder, OtherOrder
    <3>2. CASE s # 8
      <4>1. Left(tc, w, tp, tc2, w2, told, v, e, from)
        <5>1. /\ \A X : (\A c \in X : ~c.over) =>
                   /\ Sole(tc, w, tp, v, X) => Sole(tc2, w2, told, v, X) /\ (e \in X => ~Present(tc2, w2, told, v, X))
                   /\ e \in X => Present(tc, w, tp, v, X)
                   /\ e \notin X => (Present(tc2, w2, told, v, X) <=> Present(tc, w, tp, v, X))
          BY <1>4
        <5>2. ASSUME NEW a \in 1..7, NEW live, NEW K, live = LiveSaves(v, Stage(a)), K = Saves(v, Stage(a))
              PROVE  /\ At(tc2, w2, told, v, a, K) => At(tc, w, tp, v, a, K)
                     /\ LastAt(tc, w, tp, v, a, live, K) => LastAt(tc2, w2, told, v, a, live, K)
                     /\ a \in from /\ e \in K => At(tc, w, tp, v, a, K)
                     /\ a \in from /\ e \in live /\ LastAt(tc, w, tp, v, a, live, K) => ~At(tc2, w2, told, v, a, K)
          <6>1. /\ At(tc2, w2, tp, v, a, K) => At(tc, w, tp, v, a, K)
                /\ LastAt(tc, w, tp, v, a, live, K) => LastAt(tc2, w2, tp, v, a, live, K)
                /\ a \in from /\ e \in K => At(tc, w, tp, v, a, K)
                /\ a \in from /\ e \in live /\ LastAt(tc, w, tp, v, a, live, K) => ~At(tc2, w2, tp, v, a, K)
            BY <5>2 DEF Left
          <6>2. /\ At(tc2, w2, told, v, a, K) <=> At(tc2, w2, tp, v, a, K)
                /\ LastAt(tc2, w2, tp, v, a, live, K) => LastAt(tc2, w2, told, v, a, live, K)
            BY <1>2 DEF Same
          <6> QED
            BY <6>1, <6>2
        <5>3. \A a \in 1..7 : \A X : (\A c \in X : ~c.over) =>
                 /\ At(tc2, w2, told, v, a, X) => At(tc, w, tp, v, a, X)
                 /\ a \in from /\ e \in X => At(tc, w, tp, v, a, X)
          BY <1>2 DEF Left, Same
        <5> QED
          BY <1>3, <5>1, <5>2, <5>3 DEF Left
      <4>2. /\ s \in 1..6 /\ s \in from /\ e \in Saves(v, Stage(s))
            /\ Stage(s + 1) = Stage(s)
            /\ \A a \in 1..7 : a \in {2, 4, 7} /\ e \in Saves(v, Stage(a)) => a = s + 1
        BY <3>2 DEF Saves, Stage
      <4> QED
        BY <4>1, <4>2, <2>1, <2>4, MoveOrder
    <3> QED
      BY <3>1, <3>2
  <2> QED
    BY <2>2, <2>3, <2>4 DEF Passes
<1> QED
  BY <1>5, <1>6

\* A call has left and was made to wait.
LEMMA PassesOn ==
  ASSUME NEW v, NEW tc, NEW w, NEW tp, NEW tc2, NEW w2, NEW e \in ForumCalls(v), NEW d \in ForumWaits(v),
         Left(tc, w, tp, tc2, w, tp, v, e, {1, 3, 5}), Alike(e, d), w2 = Append(w, d)
  PROVE  Passes(tc, w, tp, tc2, w2, tp, v)
<1>1. Queues(tc2, w, tp, v)
  BY DEF Left
<1>2. Given(tc2, w, tp, tc2, w2, tp, v, d, {6})
  BY <1>1, WaitGiven
<1>3. d \in ForumCalls(v) /\ d.op \in {"key", "publish"} /\ e.op = d.op
  BY DEF ForumWaits, Alike
<1>4. \A X : Blind(v, X) =>
        /\ Sole(tc, w, tp, v, X) => Sole(tc2, w2, tp, v, X)
        /\ Present(tc2, w2, tp, v, X) <=> Present(tc, w, tp, v, X)
  <2> SUFFICES ASSUME NEW X, Blind(v, X)
               PROVE  /\ Sole(tc, w, tp, v, X) => Sole(tc2, w2, tp, v, X)
                      /\ Present(tc2, w2, tp, v, X) <=> Present(tc, w, tp, v, X)
    OBVIOUS
  <2>1. e \in X <=> d \in X
    BY <1>3 DEF Blind
  <2>2. \A c \in X : ~c.over
    BY DEF Blind
  <2>3. /\ Sole(tc, w, tp, v, X) => Sole(tc2, w, tp, v, X) /\ (e \in X => ~Present(tc2, w, tp, v, X))
        /\ e \in X => Present(tc, w, tp, v, X)
        /\ e \notin X => (Present(tc2, w, tp, v, X) <=> Present(tc, w, tp, v, X))
    BY <2>2 DEF Left
  <2>4. /\ Sole(tc2, w, tp, v, X) /\ (d \in X => ~Present(tc2, w, tp, v, X)) => Sole(tc2, w2, tp, v, X)
        /\ Present(tc2, w2, tp, v, X) <=> Present(tc2, w, tp, v, X) \/ d \in X
    BY <1>2 DEF Given
  <2> QED
    BY <2>1, <2>3, <2>4
<1>5. ASSUME SaveOrder(tc, w, tp, v)
      PROVE  SaveOrder(tc2, w2, tp, v)
  <2>1. CASE e.op = "key"
    <3>1. d.op \notin SaveOps
      BY <2>1, <1>3 DEF SaveOps
    <3> QED
      BY <3>1, <1>2, <1>5, LeftOrder, OtherOrder
  <2>2. CASE e.op = "publish"
    <3> DEFINE s == 5
    <3>1. /\ s \in 1..6 /\ s \in {1, 3, 5} /\ e \in Saves(v, Stage(s))
          /\ d \in LiveSaves(v, Stage(s + 1)) => e \in LiveSaves(v, Stage(s))
          /\ \A a \in 1..7 : a \in {6} /\ d \in Saves(v, Stage(a)) => a = s + 1
      BY <2>2, <1>3 DEF Saves, LiveSaves, Stage, Alike
    <3> HIDE DEF s
    <3> QED
      BY <3>1, <1>2, <1>5, MoveOrder
  <2> QED
    BY <2>1, <2>2, <1>3
<1> QED
  BY <1>2, <1>4, <1>5 DEF Passes, Given

LEMMA QueuesOf ==
  ASSUME ForumType
  PROVE  Queues(toClient, waiting, toPage, visit)
BY DEF ForumType, ForumPort, Queues

LEMMA TypeOf ==
  ASSUME ForumType, ForumClient', UNCHANGED <<page, visit, forum, editor>>,
         Queues(toClient', waiting', toPage', visit)
  PROVE  ForumType'
BY DEF ForumType, ForumPage, ForumPort, Queues

LEMMA RunCallPasses ==
  ASSUME ForumType, F!RunCall
  PROVE  ForumType' /\ Passes(toClient, waiting, toPage, toClient', waiting', toPage', visit)
<1> DEFINE e == Head(toClient)
           v == visit
           tc == toClient
           w == waiting
           tp == toPage
           tc2 == Tail(toClient)
           places == {1, 3, 5}
<1>1. /\ tc # <<>> /\ e \in ForumCalls(v) /\ toClient' = tc2 /\ UNCHANGED <<page, visit, forum, editor>>
      /\ ForumClient' /\ Runs(e)
  BY RunCallRuns
<1>2. Left(tc, w, tp, tc2, w, tp, v, e, places)
  BY <1>1, QueuesOf, CallLeft
<1>3. Passes(tc, w, tp, tc2, waiting', toPage', v)
  <2> HIDE DEF e, v, tc, w, tp, tc2, places
  <2>1. CASE \E d : Alike(e, d) /\ d \in ForumWaits(v) /\ waiting' = Append(w, d) /\ toPage' = tp
    BY <1>1, <1>2, <2>1, PassesOn DEF places
  <2>2. ASSUME NEW told, NEW ok, NEW found, waiting' = w, told = tp \/ (\E m \in ForumEvents : told = tp \o <<m>>),
               AnswersAfter(e, told, ok, found), e.op \in {"publish", "key"} => e.op \notin SaveOps
        PROVE  Passes(tc, w, tp, tc2, w, toPage', v)
    <3>1. (e.over /\ toPage' = told) \/ (~e.over /\ \E m \in ForumReplies(v) : m.call = e /\ toPage' = told \o <<m>>)
      BY <2>2 DEF AnswersAfter, Answered, v
    <3> DEFINE s == IF e.op = "validate" THEN 1 ELSE IF e.op = "saveRules" THEN 3 ELSE 8
    <3>2. s \in {1, 3, 6, 8} /\ (IF s = 8 THEN e.op \notin SaveOps ELSE s \in places /\ e.op = Stage(s))
      BY <2>2 DEF SaveOps, Stage, places
    <3> HIDE DEF s
    <3> QED
      BY <1>1, <1>2, <2>2, <3>1, <3>2, PassesBack
  <2>3. CASE ~ \E d : Alike(e, d) /\ d \in ForumWaits(v) /\ waiting' = Append(w, d) /\ toPage' = tp
    <3>1. /\ waiting' = w /\ (e.op \in {"publish", "key"} => e.op \notin SaveOps)
          /\ \E told, ok, found : (told = tp \/ (\E m \in ForumEvents : told = tp \o <<m>>)) /\ AnswersAfter(e, told, ok, found)
      BY <1>1, <2>3 DEF Runs, SaveOps, v, w, tp
    <3> QED
      BY <2>2, <3>1
  <2> QED
    BY <2>1, <2>3
<1>4. Queues(toClient', waiting', toPage', visit)
  BY <1>1, <1>3 DEF Passes
<1> QED
  BY <1>1, <1>3, <1>4, TypeOf

LEMMA WaitEndsPasses ==
  ASSUME ForumType, NEW i \in DOMAIN waiting, F!WaitEnds(i)
  PROVE  ForumType' /\ Passes(toClient, waiting, toPage, toClient', waiting', toPage', visit)
<1> DEFINE e == waiting[i]
           v == visit
           tc == toClient
           w == waiting
           tp == toPage
           w2 == F!Without(waiting, i)
           places == IF e.op = "publish" THEN {6} ELSE {}
<1>1. /\ i \in 1..Len(w) /\ (\A j \in 1..(i - 1) : w[j].op # e.op)
      /\ e \in ForumWaits(v) /\ waiting' = w2 /\ toClient' = tc /\ UNCHANGED <<page, visit, forum, editor>>
      /\ ForumClient' /\ Ends(e)
  BY WaitEndsEnds
<1>2. Left(tc, w, tp, tc, w2, tp, v, e, places)
  BY <1>1, QueuesOf, WaitLeft
<1>3. Passes(tc, w, tp, tc, w2, toPage', v)
  <2> HIDE DEF e, v, tc, w, tp, w2
  <2>0. e \in ForumCalls(v) /\ e.op \in {"key", "publish"}
    BY <1>1 DEF ForumWaits
  <2>1. PICK told, ok, found : (told = tp \/ (\E m \in ForumEvents : told = tp \o <<m>>)) /\ AnswersAfter(e, told, ok, found)
    BY <1>1 DEF Ends, tp
  <2>2. (e.over /\ toPage' = told) \/ (~e.over /\ \E m \in ForumReplies(v) : m.call = e /\ toPage' = told \o <<m>>)
    BY <2>1 DEF AnswersAfter, Answered, v
  <2> DEFINE s == IF e.op = "publish" THEN 6 ELSE 8
  <2>3. s \in {1, 3, 6, 8} /\ (IF s = 8 THEN e.op \notin SaveOps ELSE s \in places /\ e.op = Stage(s))
    BY <2>0 DEF SaveOps, Stage
  <2> HIDE DEF s, places
  <2> QED
    BY <1>2, <2>0, <2>1, <2>2, <2>3, PassesBack
<1>4. Queues(toClient', waiting', toPage', visit)
  BY <1>1, <1>3 DEF Passes
<1> QED
  BY <1>1, <1>3, <1>4, TypeOf

-----------------------------------------------------------------------------
(* Forum: how the pages go on with an answer.                              *)

\* The answer to a call that is not over: a reply, or that it timed out.
Heard(e, m) ==
  /\ e \in ForumCalls(visit) /\ m.ok \in BOOLEAN /\ (m.ok => m \in ForumReplies(visit) /\ m.call = e)

SameSearch(g, f) ==
  /\ g.requestGen = f.requestGen /\ g.filters = f.filters
  /\ g.entries = f.entries /\ g.cursor = f.cursor /\ g.under = f.under
  /\ g.loading = f.loading /\ g.more = f.more
SameKeys(g, f) == g.keyBusy = f.keyBusy /\ g.keyResults = f.keyResults /\ g.waveBusy = f.waveBusy
SameExchanges(g, f) == g.exchanges = f.exchanges /\ g.exchangeGen = f.exchangeGen

SearchHeard(e, m, q) ==
  /\ forum' \in ForumStates /\ editor' = editor /\ SameKeys(forum', forum) /\ SameExchanges(forum', forum)
  /\ forum'.peer = forum.peer
  /\ \/ e.gen # forum.requestGen /\ toClient' = q /\ forum' = forum
     \/ /\ e.gen = forum.requestGen /\ m.ok /\ e.op = "schema" /\ SameSearch(forum', forum)
        /\ forum'.schema /\ forum'.error = forum.error
        /\ \E d : /\ toClient' = Append(q, d) /\ PageCall(d) /\ d.op = "discover" /\ d.for = "search"
                  /\ d.gen = forum.requestGen /\ d.at = 0 /\ d.set = forum.filters
     \/ /\ e.gen = forum.requestGen /\ toClient' = q /\ forum'.requestGen = forum.requestGen
        /\ forum'.filters = forum.filters /\ forum'.schema = forum.schema
        /\ ~forum'.loading /\ ~forum'.more /\ forum'.error = ~m.ok
        /\ IF m.ok
           THEN /\ e.op # "schema" /\ forum'.cursor = m.found.cursor /\ forum'.under = forum.under \cup {m.under}
                /\ forum'.entries = (IF e.for = "search" THEN m.found.entries ELSE forum.entries \cup m.found.entries)
           ELSE forum'.cursor = forum.cursor /\ forum'.under = forum.under /\ forum'.entries = forum.entries

LEMMA SearchHears ==
  ASSUME visit \in Nat, forum \in ForumStates, NEW e, NEW m, NEW q, Heard(e, m), F!SearchAnswered(e, m, q)
  PROVE  SearchHeard(e, m, q)
<1>1. editor' = editor /\ e.gen \in Nat
  BY DEF F!SearchAnswered, Heard, ForumCalls, ForumCall
<1>2. CASE e.gen # forum.requestGen
  <2>1. toClient' = q /\ forum' = forum
    BY <1>2 DEF F!SearchAnswered, F!Current
  <2> QED
    BY <1>1, <1>2, <2>1 DEF SearchHeard, SameKeys, SameExchanges
<1>3. CASE e.gen = forum.requestGen /\ m.ok /\ e.op = "schema"
  <2> DEFINE yes == TRUE
             zero == 0
             d == F!Discover(forum, zero, yes)
             g == forum'
  <2>1. g = [forum EXCEPT !.schema = yes] /\ toClient' = Append(q, d) /\ zero \in Nat /\ yes \in BOOLEAN /\ yes
    BY <1>3 DEF F!SearchAnswered, F!Current
  <2>5. d = F!Discover(forum, zero, yes) /\ zero \in Nat /\ yes \in BOOLEAN
    OBVIOUS
  <2>6. yes
    OBVIOUS
  <2> HIDE DEF yes, d, zero, g
  <2>2. g \in ForumStates
    BY <2>1 DEF ForumStates
  <2>3. g.schema /\ g.error = forum.error /\ SameKeys(g, forum) /\ SameExchanges(g, forum) /\ SameSearch(g, forum) /\ g.peer = forum.peer
    BY <2>1 DEF ForumStates, SameKeys, SameExchanges, SameSearch
  <2>4. PageCall(d) /\ d.op = "discover" /\ d.for = "search" /\ d.gen = forum.requestGen /\ d.at = zero /\ d.set = forum.filters
    <3>1. /\ PageCall(d) /\ d.op = "discover" /\ d.for = (IF yes THEN "search" ELSE "more")
          /\ d.gen = forum.requestGen /\ d.at = zero /\ d.set = forum.filters
      BY <2>5, DiscoverOf
    <3> QED
      BY <2>6, <3>1
  <2> QED
    BY <1>1, <1>3, <2>1, <2>2, <2>3, <2>4 DEF SearchHeard, g, zero
<1>4. CASE e.gen = forum.requestGen /\ ~(m.ok /\ e.op = "schema")
  <2> DEFINE no == FALSE
             er == ~m.ok
             es == IF ~m.ok THEN forum.entries ELSE IF e.for = "search" THEN m.found.entries ELSE forum.entries \cup m.found.entries
             un == IF m.ok THEN forum.under \cup {m.under} ELSE forum.under
             cu == IF m.ok THEN m.found.cursor ELSE forum.cursor
             g == forum'
  <2>1. /\ g = [forum EXCEPT !.loading = no, !.more = no, !.error = er, !.entries = es, !.under = un, !.cursor = cu]
        /\ toClient' = q
    BY <1>4 DEF F!SearchAnswered, F!Current
  <2>2. /\ no \in BOOLEAN /\ ~no /\ er \in BOOLEAN
        /\ es \in SUBSET F!Members /\ un \in SUBSET SUBSET F!Members /\ cu \in Nat
    <3>1. /\ forum.entries \in SUBSET F!Members /\ forum.under \in SUBSET SUBSET F!Members /\ forum.cursor \in Nat
          /\ m.ok => /\ m.found.entries \in SUBSET F!Members /\ m.under \in SUBSET F!Members /\ m.found.cursor \in Nat
      BY DEF Heard, ForumReplies, ForumFinds, ForumStates
    <3> QED
      BY <3>1 DEF Heard
  <2> HIDE DEF no, er, es, un, cu, g
  <2>3. g \in ForumStates
    BY <2>1, <2>2 DEF ForumStates
  <2>4. /\ ~g.loading /\ ~g.more /\ g.error = er /\ g.entries = es /\ g.under = un /\ g.cursor = cu
        /\ g.requestGen = forum.requestGen /\ g.filters = forum.filters /\ g.schema = forum.schema
        /\ SameKeys(g, forum) /\ SameExchanges(g, forum) /\ g.peer = forum.peer
    BY <2>1, <2>2 DEF ForumStates, SameKeys, SameExchanges
  <2> QED
    BY <1>1, <1>4, <2>1, <2>3, <2>4 DEF SearchHeard, er, es, un, cu, g
<1> QED
  BY <1>2, <1>3, <1>4

MountHeard(e, m, q) ==
  /\ forum' \in ForumStates /\ editor' = editor /\ SameKeys(forum', forum) /\ forum'.exchanges = forum.exchanges
  /\ forum'.requestGen = forum.requestGen /\ forum'.filters = forum.filters
  /\ forum'.entries = forum.entries /\ forum'.cursor = forum.cursor /\ forum'.under = forum.under /\ forum'.more = forum.more
  /\ forum'.peer = forum.peer
  /\ IF m.ok
     THEN /\ forum'.schema /\ forum'.loading = forum.loading /\ forum'.exchangeGen = forum.exchangeGen + 1
          /\ forum'.error = forum.error
          /\ \E d : toClient' = Append(q, d) /\ ReloadCall(d, "page", e.gen, e.peer, forum.exchangeGen + 1)
     ELSE toClient' = q /\ ~forum'.loading /\ forum'.exchangeGen = forum.exchangeGen /\ forum'.schema = forum.schema /\ forum'.error

LEMMA MountHears ==
  ASSUME visit \in Nat, forum \in ForumStates, NEW e, NEW m, NEW q, Heard(e, m), F!MountAnswered(e, m, q)
  PROVE  MountHeard(e, m, q)
<1>1. editor' = editor /\ e.gen \in Nat /\ e.peer \in Nat
  BY DEF F!MountAnswered, Heard, ForumCalls, ForumCall
<1>2. CASE m.ok
  <2> DEFINE yes == TRUE
             f == [forum EXCEPT !.schema = yes]
             x == f.exchangeGen + 1
             for == "page"
             g == forum'
  <2>1. F!ReloadExchanges(f, for, e, q) /\ yes \in BOOLEAN /\ yes /\ for \in {"page", "event", "key"}
    BY <1>2 DEF F!MountAnswered
  <2>6. f = [forum EXCEPT !.schema = yes] /\ x = f.exchangeGen + 1
    OBVIOUS
  <2> HIDE DEF yes, f, for, x
  <2>2. f \in ForumStates
    BY <2>1, <2>6 DEF ForumStates
  <2>3. /\ f.schema /\ f.error = forum.error /\ SameKeys(f, forum) /\ SameExchanges(f, forum) /\ SameSearch(f, forum) /\ f.peer = forum.peer
    BY <2>1, <2>6 DEF ForumStates, SameKeys, SameExchanges, SameSearch
  <2>4. Reloading(g, f) /\ \E d : toClient' = Append(q, d) /\ ReloadCall(d, for, e.gen, e.peer, f.exchangeGen + 1)
    BY <1>1, <2>1, <2>2, ReloadSends
  <2> HIDE DEF g
  <2>7. g = [f EXCEPT !.exchangeGen = x] /\ g \in ForumStates
    BY <2>4, <2>6 DEF Reloading
  <2>5. /\ g.schema = f.schema /\ g.error = f.error /\ SameKeys(g, f) /\ SameSearch(g, f) /\ g.exchanges = f.exchanges
        /\ g.exchangeGen = x /\ g.peer = f.peer
    BY <2>2, <2>7 DEF ForumStates, SameKeys, SameSearch
  <2>8. x = forum.exchangeGen + 1 /\ f.exchangeGen = forum.exchangeGen
    BY <2>3, <2>6 DEF SameExchanges
  <2> QED
    BY <1>1, <1>2, <2>3, <2>4, <2>5, <2>7, <2>8 DEF MountHeard, SameKeys, SameExchanges, SameSearch, g, for
<1>3. CASE ~m.ok
  <2> DEFINE yes == TRUE
             no == FALSE
             g == forum'
  <2>1. g = [forum EXCEPT !.error = yes, !.loading = no] /\ toClient' = q /\ yes \in BOOLEAN /\ yes /\ no \in BOOLEAN /\ ~no
    BY <1>3 DEF F!MountAnswered
  <2> HIDE DEF yes, no, g
  <2>2. g \in ForumStates
    BY <2>1 DEF ForumStates
  <2>3. /\ ~g.loading /\ g.error /\ SameKeys(g, forum) /\ SameExchanges(g, forum)
        /\ g.requestGen = forum.requestGen /\ g.filters = forum.filters
        /\ g.entries = forum.entries /\ g.cursor = forum.cursor /\ g.under = forum.under /\ g.more = forum.more /\ g.schema = forum.schema
        /\ g.peer = forum.peer
    BY <2>1 DEF ForumStates, SameKeys, SameExchanges
  <2> QED
    BY <1>1, <1>3, <2>1, <2>2, <2>3 DEF MountHeard, SameExchanges, g
<1> QED
  BY <1>2, <1>3 DEF Heard

\* The exchanges that a page takes over, if it asked for them last.
Taken(e, m) == m.ok /\ e.exchangeGen = forum.exchangeGen

ExchangesHeard(e, m, q) ==
  /\ forum' \in ForumStates /\ editor' = editor
  /\ forum'.exchangeGen = forum.exchangeGen /\ forum'.schema = forum.schema /\ forum'.waveBusy = forum.waveBusy
  /\ forum'.exchanges = (IF Taken(e, m) THEN m.exchanges ELSE forum.exchanges)
  /\ \/ /\ e.for = "page" /\ forum'.keyBusy = forum.keyBusy /\ forum'.requestGen = forum.requestGen + 1
        /\ forum'.filters = forum.filters /\ ~forum'.error
        /\ forum'.loading /\ forum'.more = forum.more
        /\ forum'.entries = {} /\ forum'.cursor = 0 /\ forum'.under = {} /\ forum'.keyResults = {} /\ forum'.peer = 0
        /\ \E d : toClient' = Append(q, d) /\ SearchCall(d, forum', TRUE)
     \/ /\ e.for = "key" /\ toClient' = q /\ SameSearch(forum', forum) /\ forum'.keyResults = forum.keyResults
        /\ forum'.error = forum.error /\ forum'.keyBusy = forum.keyBusy \ {e.peer} /\ forum'.peer = forum.peer
     \/ /\ e.for \notin {"page", "key"} /\ toClient' = q /\ SameSearch(forum', forum) /\ SameKeys(forum', forum)
        /\ forum'.error = forum.error /\ forum'.peer = forum.peer

LEMMA ExchangesHears ==
  ASSUME visit \in Nat, forum \in ForumStates, NEW e, NEW m, NEW q, Heard(e, m), F!ExchangesAnswered(e, m, q)
  PROVE  ExchangesHeard(e, m, q)
<1> DEFINE f == IF m.ok /\ e.exchangeGen = forum.exchangeGen THEN [forum EXCEPT !.exchanges = m.exchanges] ELSE forum
           g == forum'
<1>1. /\ f \in ForumStates /\ SameSearch(f, forum) /\ SameKeys(f, forum) /\ f.exchangeGen = forum.exchangeGen /\ f.schema = forum.schema
      /\ f.error = forum.error /\ f.peer = forum.peer /\ f.exchanges = (IF Taken(e, m) THEN m.exchanges ELSE forum.exchanges)
  <2>1. CASE Taken(e, m)
    <3> DEFINE x == m.exchanges
    <3>1. x \in Seq(Exchange) /\ f = [forum EXCEPT !.exchanges = x]
      BY <2>1 DEF Taken, Heard, ForumReplies
    <3> HIDE DEF x, f
    <3>2. f \in ForumStates
      BY <3>1 DEF ForumStates
    <3>3. SameSearch(f, forum) /\ SameKeys(f, forum) /\ f.exchangeGen = forum.exchangeGen /\ f.schema = forum.schema
          /\ f.error = forum.error /\ f.peer = forum.peer /\ f.exchanges = x
      BY <3>1 DEF ForumStates, SameSearch, SameKeys
    <3> QED
      BY <2>1, <3>2, <3>3 DEF x
  <2>2. CASE ~Taken(e, m)
    <3>1. f = forum
      BY <2>2 DEF Taken
    <3> QED
      BY <2>2, <3>1 DEF SameSearch, SameKeys
  <2> QED
    BY <2>1, <2>2
<1>2. /\ editor' = editor
      /\ e.for = "page" => F!Search(f, TRUE, q)
      /\ e.for = "key" => g = [f EXCEPT !.keyBusy = @ \ {e.peer}] /\ toClient' = q
      /\ e.for \notin {"page", "key"} => g = f /\ toClient' = q
  BY DEF F!ExchangesAnswered
<1> HIDE DEF f
<1>3. CASE e.for = "page"
  <2> DEFINE yes == TRUE
  <2>1. F!Search(f, yes, q) /\ yes \in BOOLEAN /\ yes
    BY <1>2, <1>3
  <2> HIDE DEF yes
  <2>2. Searching(g, f, yes) /\ \E d : toClient' = Append(q, d) /\ SearchCall(d, g, yes)
    BY <1>1, <2>1, SearchSends
  <2>3. \E d : toClient' = Append(q, d) /\ SearchCall(d, g, TRUE)
    BY <2>2 DEF yes
  <2> QED
    BY <1>1, <1>2, <1>3, <2>1, <2>2, <2>3 DEF ExchangesHeard, Searching, SameSearch, SameKeys
<1>4. CASE e.for = "key"
  <2> DEFINE k == f.keyBusy \ {e.peer}
  <2>1. g = [f EXCEPT !.keyBusy = k] /\ toClient' = q /\ k \in SUBSET Nat
    BY <1>1, <1>2, <1>4 DEF ForumStates
  <2>4. k = forum.keyBusy \ {e.peer}
    BY <1>1 DEF SameKeys
  <2> HIDE DEF k, g
  <2>2. g \in ForumStates
    BY <1>1, <2>1 DEF ForumStates
  <2>3. /\ g.keyBusy = k /\ SameSearch(g, f) /\ g.keyResults = f.keyResults /\ g.error = f.error /\ g.waveBusy = f.waveBusy
        /\ g.exchanges = f.exchanges /\ g.exchangeGen = f.exchangeGen /\ g.schema = f.schema /\ g.peer = f.peer
    BY <1>1, <2>1 DEF ForumStates, SameSearch
  <2> QED
    BY <1>1, <1>2, <1>4, <2>1, <2>2, <2>3, <2>4 DEF ExchangesHeard, SameSearch, SameKeys, g
<1>5. CASE e.for \notin {"page", "key"}
  BY <1>1, <1>2, <1>5 DEF ExchangesHeard, SameSearch, SameKeys
<1> QED
  BY <1>3, <1>4, <1>5

KeyHeard(e, m, q) ==
  /\ forum' \in ForumStates /\ editor' = editor /\ SameSearch(forum', forum) /\ forum'.waveBusy = forum.waveBusy
  /\ forum'.exchanges = forum.exchanges /\ forum'.schema = forum.schema /\ forum'.peer = forum.peer
  /\ IF m.ok /\ e.gen = forum.requestGen
     THEN /\ forum'.keyBusy = forum.keyBusy /\ forum'.keyResults = forum.keyResults \cup {e.peer} /\ forum'.error = forum.error
          /\ forum'.exchangeGen = forum.exchangeGen + 1
          /\ \E d : toClient' = Append(q, d) /\ ReloadCall(d, "key", e.gen, e.peer, forum.exchangeGen + 1)
     ELSE /\ toClient' = q /\ forum'.keyBusy = forum.keyBusy \ {e.peer} /\ forum'.keyResults = forum.keyResults
          /\ forum'.exchangeGen = forum.exchangeGen
          /\ (e.gen # forum.requestGen => forum'.error = forum.error) /\ (e.gen = forum.requestGen => forum'.error)

LEMMA KeyHears ==
  ASSUME visit \in Nat, forum \in ForumStates, NEW e, NEW m, NEW q, Heard(e, m), F!KeyAnswered(e, m, q)
  PROVE  KeyHeard(e, m, q)
<1>1. editor' = editor /\ e.gen \in Nat /\ e.peer \in Nat
  BY DEF F!KeyAnswered, Heard, ForumCalls, ForumCall
<1>2. CASE m.ok /\ e.gen = forum.requestGen
  <2> DEFINE k == forum.keyResults \cup {e.peer}
             f == [forum EXCEPT !.keyResults = k]
             x == f.exchangeGen + 1
             for == "key"
             g == forum'
  <2>1. F!ReloadExchanges(f, for, e, q) /\ for \in {"page", "event", "key"}
    BY <1>2 DEF F!KeyAnswered, F!Current
  <2>0. k \in SUBSET Nat
    BY <1>1 DEF ForumStates
  <2>6. f = [forum EXCEPT !.keyResults = k] /\ x = f.exchangeGen + 1
    OBVIOUS
  <2>9. k = forum.keyResults \cup {e.peer}
    OBVIOUS
  <2> HIDE DEF k, f, for, x
  <2>2. f \in ForumStates
    BY <2>0, <2>6 DEF ForumStates
  <2>3. /\ f.schema = forum.schema /\ f.error = forum.error /\ f.keyBusy = forum.keyBusy /\ f.waveBusy = forum.waveBusy
        /\ f.keyResults = k /\ f.peer = forum.peer /\ SameExchanges(f, forum) /\ SameSearch(f, forum)
    BY <2>0, <2>6 DEF ForumStates, SameExchanges, SameSearch
  <2>4. Reloading(g, f) /\ \E d : toClient' = Append(q, d) /\ ReloadCall(d, for, e.gen, e.peer, f.exchangeGen + 1)
    BY <1>1, <2>1, <2>2, ReloadSends
  <2> HIDE DEF g
  <2>7. g = [f EXCEPT !.exchangeGen = x] /\ g \in ForumStates
    BY <2>4, <2>6 DEF Reloading
  <2>5. /\ g.schema = f.schema /\ g.error = f.error /\ SameKeys(g, f) /\ SameSearch(g, f) /\ g.exchanges = f.exchanges
        /\ g.exchangeGen = x /\ g.peer = f.peer
    BY <2>2, <2>7 DEF ForumStates, SameKeys, SameSearch
  <2>8. x = forum.exchangeGen + 1 /\ f.exchangeGen = forum.exchangeGen
    BY <2>3, <2>6 DEF SameExchanges
  <2> QED
    BY <1>1, <1>2, <2>3, <2>4, <2>5, <2>7, <2>8, <2>9 DEF KeyHeard, SameKeys, SameExchanges, SameSearch, g, for
<1>3. CASE ~(m.ok /\ e.gen = forum.requestGen)
  <2> DEFINE k == forum.keyBusy \ {e.peer}
             er == IF e.gen = forum.requestGen THEN TRUE ELSE forum.error
             g == forum'
  <2>1. g = [forum EXCEPT !.keyBusy = k, !.error = er] /\ toClient' = q
    BY <1>3 DEF F!KeyAnswered, F!Current
  <2>2. k \in SUBSET Nat /\ er \in BOOLEAN
    BY DEF ForumStates
  <2>3. (e.gen # forum.requestGen => er = forum.error) /\ (e.gen = forum.requestGen => er)
    OBVIOUS
  <2>4. k = forum.keyBusy \ {e.peer}
    OBVIOUS
  <2> HIDE DEF k, er, g
  <2>5. g \in ForumStates
    BY <2>1, <2>2 DEF ForumStates
  <2>6. /\ g.keyBusy = k /\ g.error = er /\ SameSearch(g, forum) /\ SameExchanges(g, forum) /\ g.schema = forum.schema
        /\ g.keyResults = forum.keyResults /\ g.waveBusy = forum.waveBusy /\ g.peer = forum.peer
    BY <2>1, <2>2 DEF ForumStates, SameSearch, SameExchanges
  <2> QED
    BY <1>1, <1>3, <2>1, <2>3, <2>4, <2>5, <2>6 DEF KeyHeard, SameExchanges, g
<1> QED
  BY <1>2, <1>3

WaveHeard(e, m, q) ==
  /\ forum' \in ForumStates /\ editor' = editor /\ toClient' = q
  /\ SameSearch(forum', forum) /\ SameExchanges(forum', forum)
  /\ forum'.schema = forum.schema /\ forum'.error = forum.error /\ forum'.keyBusy = forum.keyBusy
  /\ forum'.keyResults = forum.keyResults /\ forum'.peer = forum.peer /\ forum'.waveBusy = forum.waveBusy \ {e.peer}

LEMMA WaveHears ==
  ASSUME visit \in Nat, forum \in ForumStates, NEW e, NEW m, NEW q, Heard(e, m), F!WaveAnswered(e, m, q)
  PROVE  WaveHeard(e, m, q)
<1> DEFINE k == forum.waveBusy \ {e.peer}
           ds == IF m.ok /\ F!Current(e) THEN forum.drafts \ {e.peer} ELSE forum.drafts
           g == forum'
<1>1. editor' = editor /\ toClient' = q /\ g = [forum EXCEPT !.waveBusy = k, !.drafts = ds]
  BY DEF F!WaveAnswered
<1>2. k \in SUBSET Nat /\ ds \in SUBSET Nat
  BY DEF ForumStates
<1>3. k = forum.waveBusy \ {e.peer}
  OBVIOUS
<1> HIDE DEF k, ds, g
<1>4. g \in ForumStates
  BY <1>1, <1>2 DEF ForumStates
<1>5. /\ g.waveBusy = k /\ SameSearch(g, forum) /\ SameExchanges(g, forum) /\ g.schema = forum.schema /\ g.error = forum.error
      /\ g.keyBusy = forum.keyBusy /\ g.keyResults = forum.keyResults /\ g.peer = forum.peer
  BY <1>1, <1>2 DEF ForumStates, SameSearch, SameExchanges
<1> QED
  BY <1>1, <1>3, <1>4, <1>5 DEF WaveHeard, g

LoadHeard(m, q) ==
  /\ editor' \in EditorValues /\ forum' = forum /\ toClient' = q
  /\ IF m.ok
     THEN /\ editor'.loaded /\ editor'.values = m.values /\ editor'.rules = m.rules /\ editor'.revision = m.revision
          /\ editor'.busy = editor.busy /\ editor'.saved = editor.saved
     ELSE editor' = editor

LEMMA LoadHears ==
  ASSUME editor \in EditorValues, NEW e, NEW m, NEW q, Heard(e, m), F!ProfileLoaded(m, q)
  PROVE  LoadHeard(m, q)
<1>1. CASE m.ok
  <2> DEFINE yes == TRUE
             vs == m.values
             rs == m.rules
             n == m.revision
             g == editor'
  <2>1. /\ forum' = forum /\ toClient' = q
        /\ g = [editor EXCEPT !.loaded = yes, !.values = vs, !.rules = rs, !.revision = n] /\ yes \in BOOLEAN
        /\ vs \in SUBSET F!Members /\ rs \in SUBSET F!Members /\ n \in Nat
    BY <1>1 DEF F!ProfileLoaded, Heard, ForumReplies
  <2>2. yes
    OBVIOUS
  <2> HIDE DEF yes, vs, rs, n, g
  <2>3. g \in EditorValues
    BY <2>1 DEF EditorValues
  <2>4. g.loaded = yes /\ g.values = vs /\ g.rules = rs /\ g.revision = n /\ g.busy = editor.busy /\ g.saved = editor.saved
    BY <2>1 DEF EditorValues
  <2> QED
    BY <1>1, <2>1, <2>2, <2>3, <2>4 DEF LoadHeard, vs, rs, n, g
<1>2. CASE ~m.ok
  BY <1>2 DEF F!ProfileLoaded, LoadHeard
<1> QED
  BY <1>1, <1>2 DEF Heard

\* The next call of a save, or its end.
NextSave(e, d) ==
  /\ d \in ForumCalls(visit) /\ d.op = (IF e.op = "validate" THEN "saveRules" ELSE "publish")
  /\ d.visit = e.visit /\ d.set = e.set /\ d.rules = e.rules /\ d.over = e.over

SaveHeard(e, m, q) ==
  /\ editor' \in EditorValues /\ forum' = forum
  /\ \/ /\ m.ok /\ e.op # "publish" /\ editor' = editor
        /\ \E d : toClient' = Append(q, d) /\ NextSave(e, d)
     \/ /\ ~m.ok \/ e.op = "publish"
        /\ toClient' = q
        /\ IF e.visit # visit THEN editor' = editor
           ELSE /\ editor'.loaded = editor.loaded /\ editor'.rules = editor.rules /\ ~editor'.busy
                /\ m.ok => editor'.saved /\ editor'.values = m.values /\ editor'.revision = m.revision
                /\ ~m.ok => editor'.saved = editor.saved /\ editor'.values = editor.values /\ editor'.revision = editor.revision

LEMMA SaveHears ==
  ASSUME editor \in EditorValues, NEW e, NEW m, NEW q, Heard(e, m), e.op \in SaveOps, F!SaveAnswered(e, m, q)
  PROVE  SaveHeard(e, m, q)
<1>1. forum' = forum /\ e \in ForumCalls(visit)
  BY DEF F!SaveAnswered, Heard
<1>2. CASE m.ok /\ e.op # "publish"
  <2> DEFINE d == F!NextOf(e)
             op == IF e.op = "validate" THEN "saveRules" ELSE "publish"
  <2>1. toClient' = Append(q, d) /\ editor' = editor /\ d = [e EXCEPT !.op = op]
    BY <1>2 DEF F!SaveAnswered, F!NextOf
  <2>2. op \in ForumOps /\ PartOf(op) = {"page"} /\ op \in SaveOps /\ op = (IF e.op = "validate" THEN "saveRules" ELSE "publish")
    BY DEF ForumOps, PartOf, SaveOps
  <2> HIDE DEF d, op
  <2>3. d \in ForumCall
    BY <1>1, <2>1, <2>2 DEF ForumCalls, ForumCall
  <2>4. d.op = op /\ d.visit = e.visit /\ d.set = e.set /\ d.rules = e.rules /\ d.over = e.over /\ d.for = e.for
    BY <1>1, <2>1, <2>2 DEF ForumCalls, ForumCall
  <2>5. e.visit <= visit /\ e.for = "page"
    BY <1>1 DEF ForumCalls, PartOf, SaveOps
  <2>6. e.set \notin Invalid
    BY <1>1, <1>2 DEF Heard, ForumReplies, ForumCalls, SaveOps
  <2>7. d \in ForumCalls(visit)
    BY <2>2, <2>3, <2>4, <2>5, <2>6 DEF ForumCalls
  <2> QED
    BY <1>1, <1>2, <2>1, <2>2, <2>4, <2>7 DEF SaveHeard, NextSave
<1>3. CASE ~(m.ok /\ e.op # "publish")
  <2>1. toClient' = q /\ editor' = (IF e.visit = visit THEN F!Published(m) ELSE editor)
    BY <1>3 DEF F!SaveAnswered
  <2>2. CASE e.visit # visit
    BY <1>1, <1>3, <2>1, <2>2 DEF SaveHeard
  <2>3. CASE e.visit = visit /\ m.ok
    <3> DEFINE yes == TRUE
               no == FALSE
               vs == m.values
               n == m.revision
               g == editor'
    <3>1. /\ g = [editor EXCEPT !.busy = no, !.saved = yes, !.values = vs, !.revision = n]
          /\ yes \in BOOLEAN /\ no \in BOOLEAN /\ vs \in SUBSET F!Members /\ n \in Nat
      BY <2>1, <2>3 DEF F!Published, Heard, ForumReplies
    <3>2. yes /\ ~no
      OBVIOUS
    <3> HIDE DEF yes, no, vs, n, g
    <3>3. g \in EditorValues
      BY <3>1 DEF EditorValues
    <3>4. g.busy = no /\ g.saved = yes /\ g.values = vs /\ g.revision = n /\ g.loaded = editor.loaded /\ g.rules = editor.rules
      BY <3>1 DEF EditorValues
    <3> QED
      BY <1>1, <1>3, <2>1, <2>3, <3>2, <3>3, <3>4 DEF SaveHeard, vs, n, g
  <2>4. CASE e.visit = visit /\ ~m.ok
    <3> DEFINE no == FALSE
               g == editor'
    <3>1. g = [editor EXCEPT !.busy = no] /\ no \in BOOLEAN
      BY <2>1, <2>4 DEF F!Published
    <3>2. ~no
      OBVIOUS
    <3> HIDE DEF no, g
    <3>3. g \in EditorValues
      BY <3>1 DEF EditorValues
    <3>4. g.busy = no /\ g.saved = editor.saved /\ g.values = editor.values /\ g.revision = editor.revision
          /\ g.loaded = editor.loaded /\ g.rules = editor.rules
      BY <3>1 DEF EditorValues
    <3> QED
      BY <1>1, <1>3, <2>1, <2>4, <3>2, <3>3, <3>4 DEF SaveHeard, g
  <2> QED
    BY <2>2, <2>3, <2>4 DEF Heard
<1> QED
  BY <1>2, <1>3

\* What becomes of an answer.
Goes(e, m, q) ==
  \/ e.op \in SaveOps /\ SaveHeard(e, m, q)
  \/ e.op \notin SaveOps /\ (e.visit # visit \/ page = "away") /\ toClient' = q /\ forum' = forum /\ editor' = editor
  \/ /\ e.op \notin SaveOps /\ e.visit = visit /\ page # "away"
     /\ \/ e.op = "schema" /\ e.for = "page" /\ MountHeard(e, m, q)
        \/ (e.op = "discover" \/ (e.op = "schema" /\ e.for = "search")) /\ SearchHeard(e, m, q)
        \/ e.op = "exchanges" /\ ExchangesHeard(e, m, q)
        \/ e.op = "key" /\ KeyHeard(e, m, q)
        \/ e.op = "wave" /\ WaveHeard(e, m, q)
        \/ e.op \in {"load", "block", "unblock"} /\ LoadHeard(m, q)

LEMMA ContinueGoes ==
  ASSUME ForumPage, NEW e, NEW m, NEW q, Heard(e, m), F!Continue(e, m, q)
  PROVE  Goes(e, m, q)
<1>1. visit \in Nat /\ forum \in ForumStates /\ editor \in EditorValues /\ e \in ForumCalls(visit)
  BY DEF ForumPage, Heard
<1>2. CASE e.op \in SaveOps
  <2>1. F!SaveAnswered(e, m, q)
    BY <1>2 DEF F!Continue, SaveOps
  <2> QED
    BY <1>1, <1>2, <2>1, SaveHears DEF Goes
<1>3. CASE e.op \notin SaveOps /\ (e.visit # visit \/ page = "away")
  BY <1>3 DEF F!Continue, F!Gone, SaveOps, Goes
<1>4. CASE e.op \notin SaveOps /\ ~(e.visit # visit \/ page = "away")
  <2>1. /\ e.op = "schema" /\ e.for = "page" => F!MountAnswered(e, m, q)
        /\ e.op = "discover" \/ (e.op = "schema" /\ e.for = "search") => F!SearchAnswered(e, m, q)
        /\ e.op = "exchanges" => F!ExchangesAnswered(e, m, q)
        /\ e.op = "key" => F!KeyAnswered(e, m, q)
        /\ e.op = "wave" => F!WaveAnswered(e, m, q)
        /\ e.op \in {"load", "block", "unblock"} => F!ProfileLoaded(m, q)
    BY <1>4 DEF F!Continue, SaveOps
  <2>2. /\ e.op \in {"schema", "discover", "exchanges", "key", "wave", "load", "block", "unblock"}
        /\ e.op = "schema" => e.for \in {"page", "search"}
    BY <1>1, <1>4 DEF ForumCalls, ForumCall, ForumOps, SaveOps, PartOf
  <2>3. CASE e.op = "schema" /\ e.for = "page"
    BY <1>1, <1>4, <2>1, <2>3, MountHears DEF Goes
  <2>4. CASE e.op = "discover" \/ (e.op = "schema" /\ e.for = "search")
    BY <1>1, <1>4, <2>1, <2>4, SearchHears DEF Goes
  <2>5. CASE e.op = "exchanges"
    BY <1>1, <1>4, <2>1, <2>5, ExchangesHears DEF Goes
  <2>6. CASE e.op = "key"
    BY <1>1, <1>4, <2>1, <2>6, KeyHears DEF Goes
  <2>7. CASE e.op = "wave"
    BY <1>1, <1>4, <2>1, <2>7, WaveHears DEF Goes
  <2>8. CASE e.op \in {"load", "block", "unblock"}
    BY <1>1, <1>4, <2>1, <2>8, LoadHears DEF Goes
  <2> QED
    BY <2>2, <2>3, <2>4, <2>5, <2>6, <2>7, <2>8
<1> QED
  BY <1>2, <1>3, <1>4

\* A page hears of call e, or gives it up: the call has left, and the page goes on.
Hears(e, m, q, places) ==
  /\ Heard(e, m) /\ ~e.over
  /\ Left(toClient, waiting, toPage, q, waiting', toPage', visit, e, places)
  /\ Goes(e, m, q)
  /\ UNCHANGED <<F!client, page, visit, asks>>
  /\ \/ /\ places = {} /\ ~m.ok /\ toPage' = toPage /\ timeouts' = timeouts + 1
        /\ \/ waiting' = waiting /\ \E i \in 1..Len(toClient) : e = toClient[i] /\ q = [toClient EXCEPT ![i].over = TRUE]
           \/ q = toClient /\ \E i \in 1..Len(waiting) : e = waiting[i] /\ waiting' = [waiting EXCEPT ![i].over = TRUE]
     \/ /\ places = {2, 4, 7} /\ toPage # <<>> /\ m = Head(toPage) /\ m.call = e /\ m \in ForumReplies(visit)
        /\ toPage' = Tail(toPage) /\ UNCHANGED timeouts /\ q = toClient /\ waiting' = waiting

LEMMA HearReplyHears ==
  ASSUME ForumType, F!HearReply
  PROVE  \E e, m, q, places : Hears(e, m, q, places)
<1> DEFINE m == Head(toPage)
           e == m.call
           q == toClient
           places == {2, 4, 7}
<1>1. /\ toPage # <<>> /\ m.type = "reply" /\ toPage' = Tail(toPage) /\ F!Continue(e, m, q)
      /\ UNCHANGED <<F!client, waiting, page, visit, asks, timeouts>>
  BY DEF F!HearReply
<1>2. m \in ForumMessages(visit) /\ m \notin ForumEvents
  BY <1>1, TailOf DEF ForumType, ForumPort, ForumEvents
<1> HIDE DEF m
<1>3. m \in ForumReplies(visit)
  BY <1>2 DEF ForumMessages
<1>4. Heard(e, m) /\ ~e.over
  BY <1>3 DEF Heard, ForumReplies
<1>5. Goes(e, m, q)
  BY <1>1, <1>4, ContinueGoes DEF ForumType
<1>6. Left(toClient, waiting, toPage, q, waiting, Tail(toPage), visit, e, places)
  BY <1>1, <1>3, QueuesOf, ReplyLeft DEF m
<1>7. Hears(e, m, q, places)
  BY <1>1, <1>3, <1>4, <1>5, <1>6 DEF Hears, m
<1> QED
  BY <1>7

LEMMA TimeOutHears ==
  ASSUME ForumType, F!TimeOut
  PROVE  \E e, m, q, places : Hears(e, m, q, places)
<1> DEFINE m == F!Failed
           places == {}
<1>1. UNCHANGED <<F!client, toPage, page, visit, asks>> /\ timeouts' = timeouts + 1
  BY DEF F!TimeOut
<1>2. m.ok = FALSE
  BY DEF F!Failed
<1>3. /\ toClient \in Seq(ForumCalls(visit)) /\ waiting \in Seq(ForumWaits(visit))
      /\ ForumPage
  BY DEF ForumType, ForumPort
<1>4. CASE \E i \in DOMAIN toClient : F!CallTimesOut(i)
  <2>1. PICK i \in DOMAIN toClient : F!CallTimesOut(i)
    BY <1>4
  <2> DEFINE e == toClient[i]
             q == [toClient EXCEPT ![i].over = TRUE]
  <2>2. i \in 1..Len(toClient) /\ e \in ForumCalls(visit)
    BY <1>3, ElementOfSeq
  <2>3. ~e.over /\ F!Continue(e, m, q) /\ waiting' = waiting
    BY <2>1 DEF F!CallTimesOut
  <2>5. Left(toClient, waiting, toPage, q, waiting, toPage, visit, e, places)
    BY <2>2, <2>3, QueuesOf, CallMarked
  <2>6. e = toClient[i] /\ q = [toClient EXCEPT ![i].over = TRUE]
    OBVIOUS
  <2> HIDE DEF m, e, q
  <2>4. Heard(e, m)
    BY <1>2, <2>2 DEF Heard
  <2>7. Goes(e, m, q)
    BY <1>3, <2>3, <2>4, ContinueGoes
  <2>8. Hears(e, m, q, places)
    <3>1. ~m.ok /\ places = {} /\ \E j \in 1..Len(toClient) : e = toClient[j] /\ q = [toClient EXCEPT ![j].over = TRUE]
      BY <1>2, <2>2, <2>6
    <3> HIDE DEF places
    <3> QED
      BY <1>1, <2>3, <2>4, <2>5, <2>7, <3>1 DEF Hears
  <2> QED
    BY <2>8
<1>5. CASE \E i \in DOMAIN waiting : F!WaitTimesOut(i)
  <2>1. PICK i \in DOMAIN waiting : F!WaitTimesOut(i)
    BY <1>5
  <2> DEFINE e == waiting[i]
             q == toClient
             w2 == [waiting EXCEPT ![i].over = TRUE]
  <2>2. i \in 1..Len(waiting) /\ e \in ForumCalls(visit)
    BY <1>3, ElementOfSeq DEF ForumWaits
  <2>3. ~e.over /\ F!Continue(e, m, q) /\ waiting' = w2
    BY <2>1 DEF F!WaitTimesOut
  <2>5. Left(toClient, waiting, toPage, q, w2, toPage, visit, e, places)
    BY <2>2, <2>3, QueuesOf, WaitMarked
  <2>6. e = waiting[i] /\ w2 = [waiting EXCEPT ![i].over = TRUE] /\ q = toClient
    OBVIOUS
  <2> HIDE DEF m, e, q, w2
  <2>4. Heard(e, m)
    BY <1>2, <2>2 DEF Heard
  <2>7. Goes(e, m, q)
    BY <1>3, <2>3, <2>4, ContinueGoes
  <2>8. Hears(e, m, q, places)
    <3>1. ~m.ok /\ places = {} /\ q = toClient /\ \E j \in 1..Len(waiting) : e = waiting[j] /\ waiting' = [waiting EXCEPT ![j].over = TRUE]
      BY <1>2, <2>2, <2>3, <2>6
    <3> HIDE DEF places
    <3> QED
      BY <1>1, <2>3, <2>4, <2>5, <2>7, <3>1 DEF Hears
  <2> QED
    BY <2>8
<1> QED
  BY <1>4, <1>5 DEF F!TimeOut

\* What a page may send while it goes on.
Sent(q) == toClient' = q \/ \E d \in ForumCalls(visit) : toClient' = Append(q, d)

LEMMA GoesTypes ==
  ASSUME ForumPage, NEW e, NEW m, NEW q, Goes(e, m, q)
  PROVE  forum' \in ForumStates /\ editor' \in EditorValues /\ Sent(q)
<1>1. forum \in ForumStates /\ editor \in EditorValues
  BY DEF ForumPage
<1>2. CASE SaveHeard(e, m, q)
  BY <1>1, <1>2 DEF SaveHeard, NextSave, Sent
<1>3. CASE toClient' = q /\ forum' = forum /\ editor' = editor
  BY <1>1, <1>3 DEF Sent
<1>4. CASE MountHeard(e, m, q)
  BY <1>1, <1>4 DEF MountHeard, ReloadCall, PageCall, Sent
<1>5. CASE SearchHeard(e, m, q)
  BY <1>1, <1>5 DEF SearchHeard, PageCall, Sent
<1>6. CASE ExchangesHeard(e, m, q)
  BY <1>1, <1>6 DEF ExchangesHeard, SearchCall, PageCall, Sent
<1>7. CASE KeyHeard(e, m, q)
  BY <1>1, <1>7 DEF KeyHeard, ReloadCall, PageCall, Sent
<1>8. CASE WaveHeard(e, m, q)
  BY <1>1, <1>8 DEF WaveHeard, Sent
<1>9. CASE LoadHeard(m, q)
  BY <1>1, <1>9 DEF LoadHeard, Sent
<1> QED
  BY <1>2, <1>3, <1>4, <1>5, <1>6, <1>7, <1>8, <1>9 DEF Goes

LEMMA HearsTypes ==
  ASSUME ForumType, NEW e, NEW m, NEW q, NEW places, Hears(e, m, q, places)
  PROVE  ForumType'
<1>1. /\ q \in Seq(ForumCalls(visit)) /\ waiting' \in Seq(ForumWaits(visit)) /\ toPage' \in Seq(ForumMessages(visit))
      /\ UNCHANGED <<F!client, page, visit>> /\ Goes(e, m, q)
  BY DEF Hears, Left, Queues
<1>2. forum' \in ForumStates /\ editor' \in EditorValues /\ Sent(q)
  BY <1>1, GoesTypes DEF ForumType
<1>3. toClient' \in Seq(ForumCalls(visit))
  BY <1>1, <1>2, AppendOf DEF Sent
<1>4. ForumClient'
  BY <1>1 DEF F!client, ForumClient, ForumType
<1> QED
  BY <1>1, <1>2, <1>3, <1>4 DEF ForumType, ForumPage, ForumPort

\* A page hears of an event.
EventHears ==
  /\ toPage # <<>> /\ Head(toPage) \in ForumEvents /\ toPage' = Tail(toPage)
  /\ Same(toClient, waiting, toPage, toClient, waiting, toPage', visit)
  /\ UNCHANGED <<F!client, waiting, page, visit, editor, asks, timeouts>>
  /\ \/ page # "forum" /\ UNCHANGED <<forum, toClient>>
     \/ /\ page = "forum" /\ Head(toPage).type = "contacts" /\ Searching(forum', forum, TRUE)
        /\ \E d : toClient' = Append(toClient, d) /\ SearchCall(d, forum', TRUE)
     \/ /\ page = "forum" /\ Head(toPage).type = "key-decision" /\ Reloading(forum', forum)
        /\ \E d : toClient' = Append(toClient, d) /\ ReloadCall(d, "event", 0, 0, forum.exchangeGen + 1)

LEMMA HearEventHears ==
  ASSUME ForumType, F!HearEvent
  PROVE  EventHears
<1> DEFINE m == Head(toPage)
           q == toClient
<1>1. /\ toPage # <<>> /\ m.type # "reply" /\ toPage' = Tail(toPage)
      /\ UNCHANGED <<F!client, waiting, page, visit, editor, asks, timeouts>>
      /\ IF page # "forum" THEN UNCHANGED <<forum, toClient>>
         ELSE IF m.type = "contacts" THEN F!Search(forum, TRUE, q)
         ELSE F!ReloadExchanges(forum, "event", F!Call("exchanges", "event", 0), q)
  BY DEF F!HearEvent
<1>2. m \in ForumMessages(visit)
  BY <1>1, TailOf DEF ForumType, ForumPort
<1>8. m = Head(toPage)
  OBVIOUS
<1> HIDE DEF m
<1>3. m \in ForumEvents /\ m \notin ForumReplies(visit) /\ m.type \in {"contacts", "key-decision"}
  BY <1>1, <1>2 DEF ForumMessages, ForumReplies, ForumEvents
<1>4. Same(toClient, waiting, toPage, toClient, waiting, Tail(toPage), visit)
  BY <1>1, <1>3, <1>8, QueuesOf, EventHeard
<1>5. visit \in Nat /\ forum \in ForumStates
  BY DEF ForumType, ForumPage
<1>6. page = "forum" /\ m.type = "contacts" =>
        Searching(forum', forum, TRUE) /\ \E d : toClient' = Append(toClient, d) /\ SearchCall(d, forum', TRUE)
  <2> SUFFICES ASSUME page = "forum", m.type = "contacts"
               PROVE  Searching(forum', forum, TRUE) /\ \E d : toClient' = Append(toClient, d) /\ SearchCall(d, forum', TRUE)
    OBVIOUS
  <2> DEFINE yes == TRUE
  <2>1. F!Search(forum, yes, q) /\ yes \in BOOLEAN
    BY <1>1
  <2> HIDE DEF yes
  <2>2. Searching(forum', forum, yes) /\ \E d : toClient' = Append(toClient, d) /\ SearchCall(d, forum', yes)
    BY <1>5, <2>1, SearchSends
  <2> QED
    BY <2>2 DEF yes
<1>7. page = "forum" /\ m.type = "key-decision" =>
        Reloading(forum', forum) /\ \E d : toClient' = Append(toClient, d) /\ ReloadCall(d, "event", 0, 0, forum.exchangeGen + 1)
  <2> SUFFICES ASSUME page = "forum", m.type = "key-decision"
               PROVE  Reloading(forum', forum) /\ \E d : toClient' = Append(toClient, d) /\ ReloadCall(d, "event", 0, 0, forum.exchangeGen + 1)
    OBVIOUS
  <2> DEFINE c == F!Call("exchanges", "event", 0)
             for == "event"
  <2>1. c.gen = 0 /\ c.peer = 0
    BY DEF F!Call
  <2>2. F!ReloadExchanges(forum, for, c, q) /\ for \in {"page", "event", "key"}
    BY <1>1
  <2>5. c.gen \in Nat /\ c.peer \in Nat
    BY <2>1
  <2> HIDE DEF c, for
  <2>3. Reloading(forum', forum) /\ \E d : toClient' = Append(toClient, d) /\ ReloadCall(d, for, c.gen, c.peer, forum.exchangeGen + 1)
    BY <1>5, <2>2, <2>5, ReloadSends
  <2> QED
    BY <2>1, <2>3 DEF for
<1> QED
  BY <1>1, <1>3, <1>4, <1>6, <1>7, <1>8 DEF EventHears

LEMMA EventTypes ==
  ASSUME ForumType, EventHears
  PROVE  ForumType'
<1>1. /\ toClient \in Seq(ForumCalls(visit)) /\ waiting' \in Seq(ForumWaits(visit)) /\ toPage' \in Seq(ForumMessages(visit))
      /\ UNCHANGED <<F!client, page, visit, editor>> /\ forum \in ForumStates
  BY DEF EventHears, Same, Queues, ForumType, ForumPage
<1>2. forum' \in ForumStates /\ Sent(toClient)
  BY <1>1 DEF EventHears, Searching, Reloading, SearchCall, ReloadCall, PageCall, Sent
<1>3. toClient' \in Seq(ForumCalls(visit))
  BY <1>1, <1>2, AppendOf DEF Sent
<1>4. ForumClient'
  BY <1>1 DEF F!client, ForumClient, ForumType
<1> QED
  BY <1>1, <1>2, <1>3, <1>4 DEF ForumType, ForumPage, ForumPort

-----------------------------------------------------------------------------
(* Forum: what the member does.                                            *)

Kept == UNCHANGED <<F!client, toPage, waiting, page, visit, timeouts>>

Finds ==
  /\ page = "forum" /\ Kept /\ editor' = editor
  /\ \E f \in ForumStates :
       /\ f.requestGen = forum.requestGen /\ f.exchangeGen = forum.exchangeGen /\ f.schema = forum.schema
       /\ f.exchanges = forum.exchanges /\ f.keyBusy = forum.keyBusy /\ f.waveBusy = forum.waveBusy
       /\ f.filters = forum.filters \/ forum.schema
       /\ Searching(forum', f, TRUE)
  /\ \E d : toClient' = Append(toClient, d) /\ SearchCall(d, forum', TRUE)

LEMMA FindFinds ==
  ASSUME ForumType, NEW filters \in FilterSets, F!Find(filters)
  PROVE  Finds
<1> DEFINE f == [forum EXCEPT !.filters = filters]
           q == toClient
           yes == TRUE
<1>1. /\ page = "forum" /\ editor' = editor /\ UNCHANGED <<F!client, toPage, waiting, page, visit, timeouts>>
      /\ forum.schema \/ filters = forum.filters
      /\ F!Search(f, yes, q) /\ yes \in BOOLEAN
  BY DEF F!Find
<1>2. filters \in SUBSET F!Members /\ forum \in ForumStates /\ visit \in Nat
  BY PagesAssumption DEF F!ForumAssumption, ForumType, ForumPage
<1>5. f = [forum EXCEPT !.filters = filters]
  OBVIOUS
<1> HIDE DEF yes, f
<1>3. /\ f \in ForumStates
      /\ f.requestGen = forum.requestGen /\ f.exchangeGen = forum.exchangeGen /\ f.schema = forum.schema
      /\ f.exchanges = forum.exchanges /\ f.keyBusy = forum.keyBusy /\ f.waveBusy = forum.waveBusy
      /\ f.filters = filters
  BY <1>2, <1>5 DEF ForumStates
<1>4. Searching(forum', f, yes) /\ \E d : toClient' = Append(q, d) /\ SearchCall(d, forum', yes)
  BY <1>1, <1>2, <1>3, SearchSends
<1>6. Searching(forum', f, TRUE) /\ \E d : toClient' = Append(toClient, d) /\ SearchCall(d, forum', TRUE)
  BY <1>4 DEF yes
<1> QED
  BY <1>1, <1>3, <1>6 DEF Finds, Kept

LoadsMore ==
  /\ page = "forum" /\ Kept /\ editor' = editor /\ forum.cursor # 0 /\ ~forum.loading /\ ~forum.more
  /\ Searching(forum', forum, FALSE)
  /\ \E d : toClient' = Append(toClient, d) /\ SearchCall(d, forum', FALSE)

LEMMA LoadMoreLoads ==
  ASSUME ForumType, F!LoadMore
  PROVE  LoadsMore
<1> DEFINE no == FALSE
           q == toClient
<1>1. /\ page = "forum" /\ editor' = editor /\ UNCHANGED <<F!client, toPage, waiting, page, visit, timeouts>>
      /\ forum.cursor # 0 /\ ~forum.loading /\ ~forum.more
      /\ F!Search(forum, no, q) /\ no \in BOOLEAN
  BY DEF F!LoadMore
<1>2. forum \in ForumStates /\ visit \in Nat
  BY DEF ForumType, ForumPage
<1> HIDE DEF no
<1>3. Searching(forum', forum, no) /\ \E d : toClient' = Append(q, d) /\ SearchCall(d, forum', no)
  BY <1>1, <1>2, SearchSends
<1>4. Searching(forum', forum, FALSE) /\ \E d : toClient' = Append(toClient, d) /\ SearchCall(d, forum', FALSE)
  BY <1>3 DEF no
<1> QED
  BY <1>1, <1>4 DEF LoadsMore, Kept

\* A call of the forum about member m.
PeerCall(d, op, m) ==
  PageCall(d) /\ d.op = op /\ d.for = "page" /\ d.gen = forum.requestGen /\ d.peer = m

LEMMA PeerCallOf ==
  ASSUME ForumPage, NEW op \in {"key", "wave"}, NEW m \in F!Members
  PROVE  PeerCall([F!Call(op, "page", forum.requestGen) EXCEPT !.peer = m], op, m)
<1> DEFINE for == "page"
           gen == forum.requestGen
           zero == 0
           none == {}
           d == [F!Call(op, for, gen) EXCEPT !.peer = m]
<1>1. /\ op \in ForumOps /\ op \notin {"saveRules", "publish"} /\ for \in ForumFors /\ for \in PartOf(op)
      /\ gen \in Nat /\ zero \in Nat /\ none \in SUBSET F!Members /\ m \in Nat /\ visit \in Nat
  BY PagesAssumption DEF ForumOps, ForumFors, PartOf, ForumPage, ForumStates, F!Members, F!ForumAssumption
<1> HIDE DEF for, gen, d
<1>2. [F!Call(op, for, gen) EXCEPT !.peer = m] = PlainCall(op, for, gen, zero, m, zero, none, none, visit)
  BY PeerForm, Zenon
<1>3. d = PlainCall(op, for, gen, zero, m, zero, none, none, visit)
  BY <1>2, Zenon DEF d
<1> HIDE DEF zero, none
<1>4. d \in ForumCalls(visit) /\ d.op = op /\ d.for = for /\ d.gen = gen /\ d.peer = m /\ d.visit = visit /\ ~d.over
  BY <1>1, <1>3, PlainCallOf
<1>5. PeerCall(d, op, m)
  BY <1>4 DEF PeerCall, PageCall, for, gen
<1> QED
  BY <1>5 DEF d, for, gen

RequestsKey(m) ==
  /\ page = "forum" /\ Kept /\ editor' = editor /\ m \in forum.entries /\ m \notin forum.keyBusy
  /\ forum' \in ForumStates /\ SameSearch(forum', forum) /\ SameExchanges(forum', forum) /\ forum'.schema = forum.schema
  /\ ~forum'.error /\ forum'.keyBusy = forum.keyBusy \cup {m} /\ forum'.waveBusy = forum.waveBusy
  /\ forum'.keyResults = forum.keyResults /\ forum'.peer = forum.peer
  /\ \E d : toClient' = Append(toClient, d) /\ PeerCall(d, "key", m)

LEMMA RequestKeyRequests ==
  ASSUME ForumType, NEW m \in F!Members, F!RequestKey(m)
  PROVE  RequestsKey(m)
<1> DEFINE no == FALSE
           k == forum.keyBusy \cup {m}
           g == forum'
<1>1. /\ page = "forum" /\ editor' = editor /\ UNCHANGED <<F!client, toPage, waiting, page, visit, timeouts>>
      /\ m \in forum.entries /\ m \notin forum.keyBusy
      /\ g = [forum EXCEPT !.keyBusy = k, !.error = no]
      /\ toClient' = Append(toClient, [F!Call("key", "page", forum.requestGen) EXCEPT !.peer = m])
  BY DEF F!RequestKey
<1>2. forum \in ForumStates /\ k \in SUBSET Nat /\ no \in BOOLEAN /\ k = forum.keyBusy \cup {m}
  BY PagesAssumption DEF ForumType, ForumPage, ForumStates, F!Members, F!ForumAssumption
<1>6. ~no
  OBVIOUS
<1> HIDE DEF no, k, g
<1>3. g \in ForumStates
  BY <1>1, <1>2 DEF ForumStates
<1>4. /\ g.keyBusy = k /\ g.error = no /\ SameSearch(g, forum) /\ SameExchanges(g, forum) /\ g.schema = forum.schema
      /\ g.waveBusy = forum.waveBusy /\ g.keyResults = forum.keyResults /\ g.peer = forum.peer
  BY <1>1, <1>2 DEF ForumStates, SameSearch, SameExchanges
<1>5. \E d : toClient' = Append(toClient, d) /\ PeerCall(d, "key", m)
  <2> DEFINE d == [F!Call("key", "page", forum.requestGen) EXCEPT !.peer = m]
  <2>1. toClient' = Append(toClient, d)
    BY <1>1
  <2>2. PeerCall(d, "key", m)
    BY PeerCallOf DEF ForumType
  <2> HIDE DEF d
  <2> QED
    BY <2>1, <2>2
<1> QED
  BY <1>1, <1>2, <1>3, <1>4, <1>5, <1>6 DEF RequestsKey, Kept, g

SendsFirstWave(m) ==
  /\ page = "forum" /\ Kept /\ editor' = editor /\ m \notin forum.waveBusy
  /\ forum' \in ForumStates /\ SameSearch(forum', forum) /\ SameExchanges(forum', forum) /\ forum'.schema = forum.schema
  /\ ~forum'.error /\ forum'.keyBusy = forum.keyBusy /\ forum'.waveBusy = forum.waveBusy \cup {m}
  /\ forum'.keyResults = forum.keyResults /\ forum'.peer = forum.peer /\ forum.peer # 0
  /\ \E d : toClient' = Append(toClient, d) /\ PeerCall(d, "wave", m)

LEMMA SendFirstWaveSends ==
  ASSUME ForumType, NEW m \in F!Members, F!SendFirstWave(m)
  PROVE  SendsFirstWave(m)
<1> DEFINE no == FALSE
           k == forum.waveBusy \cup {m}
           g == forum'
<1>1. /\ page = "forum" /\ editor' = editor /\ UNCHANGED <<F!client, toPage, waiting, page, visit, timeouts>>
      /\ m \notin forum.waveBusy /\ m = forum.peer
      /\ g = [forum EXCEPT !.waveBusy = k, !.error = no]
      /\ toClient' = Append(toClient, [F!Call("wave", "page", forum.requestGen) EXCEPT !.peer = m])
  BY DEF F!SendFirstWave
<1>2. forum \in ForumStates /\ k \in SUBSET Nat /\ no \in BOOLEAN /\ k = forum.waveBusy \cup {m}
  BY PagesAssumption DEF ForumType, ForumPage, ForumStates, F!Members, F!ForumAssumption
<1>6. ~no
  OBVIOUS
<1>7. forum.peer # 0
  BY <1>1, PagesAssumption DEF F!Members, F!ForumAssumption
<1> HIDE DEF no, k, g
<1>3. g \in ForumStates
  BY <1>1, <1>2 DEF ForumStates
<1>4. /\ g.waveBusy = k /\ g.error = no /\ SameSearch(g, forum) /\ SameExchanges(g, forum) /\ g.schema = forum.schema
      /\ g.keyBusy = forum.keyBusy /\ g.keyResults = forum.keyResults /\ g.peer = forum.peer
  BY <1>1, <1>2 DEF ForumStates, SameSearch, SameExchanges
<1>5. \E d : toClient' = Append(toClient, d) /\ PeerCall(d, "wave", m)
  <2> DEFINE d == [F!Call("wave", "page", forum.requestGen) EXCEPT !.peer = m]
  <2>1. toClient' = Append(toClient, d)
    BY <1>1
  <2>2. PeerCall(d, "wave", m)
    BY PeerCallOf DEF ForumType
  <2> HIDE DEF d
  <2> QED
    BY <2>1, <2>2
<1> QED
  BY <1>1, <1>2, <1>3, <1>4, <1>5, <1>6, <1>7 DEF SendsFirstWave, Kept, g

Composes ==
  /\ page = "forum" /\ Kept /\ editor' = editor /\ toClient' = toClient
  /\ forum' \in ForumStates /\ SameSearch(forum', forum) /\ SameExchanges(forum', forum) /\ SameKeys(forum', forum)
  /\ forum'.schema = forum.schema /\ forum'.error = forum.error
  /\ forum'.peer # 0 => forum.peer # 0 \/ forum.entries # {}

LEMMA ComposeComposes ==
  ASSUME ForumType, NEW m \in F!Members, F!Compose(m)
  PROVE  Composes
<1> DEFINE g == forum'
           zero == 0
           p == IF forum.peer = m THEN zero ELSE m
           ds == forum.drafts \cup {m}
<1>1. /\ page = "forum" /\ editor' = editor /\ UNCHANGED <<F!client, toPage, waiting, page, visit, timeouts>> /\ toClient' = toClient
      /\ g = [forum EXCEPT !.peer = p] \/ g = [forum EXCEPT !.drafts = ds]
      /\ m \in forum.entries
  BY DEF F!Compose, F!port
<1>2. forum \in ForumStates /\ p \in Nat /\ ds \in SUBSET Nat
  BY PagesAssumption DEF ForumType, ForumPage, ForumStates, F!Members, F!ForumAssumption
<1> HIDE DEF g, p, ds
<1>3. g \in ForumStates
  BY <1>1, <1>2 DEF ForumStates
<1>4. /\ SameSearch(g, forum) /\ SameExchanges(g, forum) /\ SameKeys(g, forum)
      /\ g.schema = forum.schema /\ g.error = forum.error /\ (g.peer = forum.peer \/ forum.entries # {})
  BY <1>1, <1>2 DEF ForumStates, SameSearch, SameExchanges, SameKeys
<1> QED
  BY <1>1, <1>3, <1>4 DEF Composes, Kept, g

Edits ==
  /\ page = "profile" /\ Kept /\ forum' = forum /\ toClient' = toClient /\ editor.loaded /\ ~editor.busy
  /\ editor' \in EditorValues /\ editor'.loaded /\ ~editor'.busy /\ ~editor'.saved

LEMMA EditEdits ==
  ASSUME ForumType, NEW values \in ValueSets, NEW chosen \in RuleSets, F!Edit(values, chosen)
  PROVE  Edits
<1> DEFINE g == editor'
           no == FALSE
<1>1. /\ page = "profile" /\ forum' = forum /\ UNCHANGED <<F!client, toPage, waiting, page, visit, timeouts>> /\ toClient' = toClient
      /\ editor.loaded /\ ~editor.busy
      /\ g = [editor EXCEPT !.values = values, !.rules = chosen, !.saved = no]
  BY DEF F!Edit, F!Edited, F!port
<1>2. editor \in EditorValues /\ values \in SUBSET F!Members /\ chosen \in SUBSET F!Members /\ no \in BOOLEAN
  BY PagesAssumption DEF ForumType, ForumPage, F!ForumAssumption
<1>3. ~no
  OBVIOUS
<1> HIDE DEF g, no
<1>4. g \in EditorValues
  BY <1>1, <1>2 DEF EditorValues
<1>5. g.loaded = editor.loaded /\ g.busy = editor.busy /\ g.saved = no
  BY <1>1, <1>2 DEF EditorValues
<1> QED
  BY <1>1, <1>3, <1>4, <1>5 DEF Edits, Kept, g

SaveBegins ==
  /\ page = "profile" /\ Kept /\ forum' = forum /\ editor.loaded /\ ~editor.busy
  /\ editor' \in EditorValues /\ editor'.loaded /\ editor'.busy /\ ~editor'.saved
  /\ editor'.values = editor.values /\ editor'.rules = editor.rules
  /\ \E d : /\ toClient' = Append(toClient, d) /\ PageCall(d) /\ d.op = "validate"
            /\ d.set = editor.values /\ d.rules = editor.rules

LEMMA SaveSaves ==
  ASSUME ForumType, F!Save
  PROVE  SaveBegins
<1> DEFINE g == editor'
           yes == TRUE
           no == FALSE
           op == "validate"
           for == "page"
           zero == 0
           none == {}
           vs == editor.values
           rs == editor.rules
           d == [F!Call(op, for, zero) EXCEPT !.set = vs, !.rules = rs]
<1>1. /\ page = "profile" /\ forum' = forum /\ UNCHANGED <<F!client, toPage, waiting, page, visit, timeouts>>
      /\ editor.loaded /\ ~editor.busy
      /\ toClient' = Append(toClient, d)
      /\ g = [editor EXCEPT !.busy = yes, !.saved = no]
  BY DEF F!Save
<1>2. editor \in EditorValues /\ no \in BOOLEAN /\ yes \in BOOLEAN /\ visit \in Nat
  BY DEF ForumType, ForumPage
<1>3. ~no /\ yes
  OBVIOUS
<1>6. d = [F!Call(op, for, zero) EXCEPT !.set = vs, !.rules = rs]
  OBVIOUS
<1>7. /\ op \in ForumOps /\ op \notin {"saveRules", "publish"} /\ for \in ForumFors /\ for \in PartOf(op)
      /\ zero \in Nat /\ none \in SUBSET F!Members /\ vs \in SUBSET F!Members /\ rs \in SUBSET F!Members
  BY <1>2 DEF ForumOps, SaveOps, ForumFors, PartOf, EditorValues
<1> HIDE DEF g, no, yes, d, op, for, vs, rs
<1>4. g \in EditorValues
  BY <1>1, <1>2 DEF EditorValues
<1>5. g.loaded = editor.loaded /\ g.busy = yes /\ g.saved = no /\ g.values = editor.values /\ g.rules = editor.rules
  BY <1>1, <1>2 DEF EditorValues
<1> HIDE DEF zero
<1>10. [F!Call(op, for, zero) EXCEPT !.set = vs, !.rules = rs] = PlainCall(op, for, zero, 0, 0, 0, vs, rs, visit)
  BY SaveForm, Zenon
<1>8. d = PlainCall(op, for, zero, zero, zero, zero, vs, rs, visit)
  BY <1>6, <1>10, Zenon DEF zero
<1>9. d \in ForumCalls(visit) /\ d.op = op /\ d.set = vs /\ d.rules = rs /\ d.visit = visit /\ ~d.over
  BY <1>2, <1>7, <1>8, PlainCallOf
<1>11. \E c : /\ toClient' = Append(toClient, c) /\ PageCall(c) /\ c.op = "validate"
              /\ c.set = editor.values /\ c.rules = editor.rules
  BY <1>1, <1>9 DEF PageCall, op, vs, rs
<1> QED
  BY <1>1, <1>3, <1>4, <1>5, <1>11 DEF SaveBegins, Kept, g

BlocksElsewhere ==
  /\ page = "away" /\ Kept /\ forum' = forum /\ editor' = editor
  /\ \E d : toClient' = Append(toClient, d) /\ PageCall(d) /\ d.op \in {"block", "unblock"}

LEMMA BlockElsewhereBlocks ==
  ASSUME ForumType, NEW m \in F!Members, F!BlockElsewhere(m)
  PROVE  BlocksElsewhere
<1> DEFINE for == "page"
           zero == 0
           none == {}
<1>1. PICK op \in {"block", "unblock"} :
        /\ page = "away" /\ forum' = forum /\ editor' = editor /\ UNCHANGED <<F!client, toPage, waiting, page, visit, timeouts>>
        /\ toClient' = Append(toClient, [F!Call(op, for, zero) EXCEPT !.peer = m])
  BY DEF F!BlockElsewhere
<1> DEFINE d == [F!Call(op, for, zero) EXCEPT !.peer = m]
<1>2. d = [F!Call(op, for, zero) EXCEPT !.peer = m]
  OBVIOUS
<1>3. /\ op \in ForumOps /\ op \notin {"saveRules", "publish"} /\ for \in ForumFors /\ for \in PartOf(op)
      /\ zero \in Nat /\ none \in SUBSET F!Members /\ m \in Nat /\ visit \in Nat
  BY PagesAssumption DEF ForumOps, ForumFors, PartOf, ForumType, ForumPage, F!Members, F!ForumAssumption
<1> HIDE DEF d, for, zero
<1>4. [F!Call(op, for, zero) EXCEPT !.peer = m] = PlainCall(op, for, zero, 0, m, 0, {}, {}, visit)
  BY PeerForm, Zenon
<1>5. d = PlainCall(op, for, zero, zero, m, zero, none, none, visit)
  BY <1>2, <1>4, Zenon DEF zero
<1> HIDE DEF none
<1>6. d \in ForumCalls(visit) /\ d.op = op /\ d.visit = visit /\ ~d.over
  BY <1>3, <1>5, PlainCallOf
<1>7. \E c : toClient' = Append(toClient, c) /\ PageCall(c) /\ c.op \in {"block", "unblock"}
  BY <1>1, <1>6 DEF PageCall, d
<1> QED
  BY <1>1, <1>7 DEF BlocksElsewhere, Kept

-----------------------------------------------------------------------------
(* Forum: a page is mounted, and every step keeps the types.               *)

\* No call of a page that is yet to come is under way.
LEMMA NextVisit ==
  ASSUME NEW v \in Nat, NEW tc, NEW w, NEW tp, Queues(tc, w, tp, v), NEW n, n = v + 1
  PROVE  /\ Queues(tc, w, tp, n) /\ SaveOrder(tc, w, tp, n)
         /\ \A X : (\A c \in X : c.visit = n) =>
              /\ Sole(tc, w, tp, n, X) /\ ~Present(tc, w, tp, n, X)
              /\ \A a \in 1..7 : ~At(tc, w, tp, n, a, X)
<1>1. /\ ForumCalls(v) \subseteq ForumCalls(n) /\ (\A c \in ForumCalls(v) : c.visit # n)
  BY DEF ForumCalls, ForumCall
<1>2. /\ ForumWaits(v) \subseteq ForumWaits(n) /\ (\A c \in ForumWaits(v) : c \in ForumCalls(v))
  BY <1>1 DEF ForumWaits
<1>3. ForumReplies(v) \subseteq ForumReplies(n) /\ (\A m \in ForumReplies(v) : m.call \in ForumCalls(v))
  BY <1>1 DEF ForumReplies
<1>4. ForumMessages(v) \subseteq ForumMessages(n)
  BY <1>3 DEF ForumMessages
<1>5. Queues(tc, w, tp, n)
  BY <1>1, <1>2, <1>4 DEF Queues
<1>6. /\ \A i \in 1..Len(tc) : tc[i] \in ForumCalls(v)
      /\ \A i \in 1..Len(w) : w[i] \in ForumCalls(v)
      /\ \A i \in 1..Len(tp) : tp[i] \in ForumMessages(v)
  BY <1>2 DEF Queues
<1>7. \A m \in ForumReplies(n) : m \in ForumMessages(v) => m \in ForumReplies(v)
  BY DEF ForumMessages, ForumReplies, ForumEvents
<1>8. ASSUME NEW X, \A c \in X : c.visit = n
      PROVE  ~Some(tc, X) /\ ~Some(w, X) /\ ~Some(tp, Answers(n, X))
  <2>1. ~Some(tc, X)
    BY <1>1, <1>6, <1>8 DEF Some
  <2>2. ~Some(w, X)
    BY <1>1, <1>6, <1>8 DEF Some
  <2>3. ~Some(tp, Answers(n, X))
    BY <1>1, <1>3, <1>6, <1>7, <1>8 DEF Some, Answers
  <2> QED
    BY <2>1, <2>2, <2>3
<1>9. ASSUME NEW X, \A c \in X : c.visit = n
      PROVE  /\ Sole(tc, w, tp, n, X) /\ ~Present(tc, w, tp, n, X)
             /\ \A a \in 1..7 : ~At(tc, w, tp, n, a, X)
  <2>1. ~Some(tc, X) /\ ~Some(w, X) /\ ~Some(tp, Answers(n, X))
    BY <1>8, <1>9
  <2>2. AtMostOne(tc, X) /\ AtMostOne(w, X) /\ AtMostOne(tp, Answers(n, X))
    BY <2>1 DEF Some, AtMostOne
  <2> QED
    BY <2>1, <2>2 DEF Sole, Present, At
<1>10. ASSUME NEW a \in 1..7
       PROVE  /\ ~At(tc, w, tp, n, a, LiveSaves(n, Stage(a)))
              /\ LastAt(tc, w, tp, n, a, LiveSaves(n, Stage(a)), Saves(n, Stage(a)))
  <2>1. \A c \in LiveSaves(n, Stage(a)) : c.visit = n
    BY DEF LiveSaves
  <2> DEFINE X == LiveSaves(n, Stage(a))
  <2>2. ~At(tc, w, tp, n, a, X) /\ ~Some(tc, X) /\ ~Some(w, X) /\ ~Some(tp, Answers(n, X))
    BY <1>8, <1>9, <2>1
  <2> HIDE DEF X
  <2>3. \A M : Last(tc, X, M) /\ Last(w, X, M) /\ Last(tp, Answers(n, X), Answers(n, M))
    BY <2>2 DEF Some, Last
  <2> QED
    BY <2>2, <2>3 DEF LastAt, X
<1>11. SaveOrder(tc, w, tp, n)
  BY <1>10 DEF SaveOrder
<1> QED
  BY <1>5, <1>9, <1>11

Blank ==
  /\ forum \in ForumStates /\ forum.loading /\ ~forum.more /\ ~forum.error /\ forum.keyBusy = {} /\ forum.waveBusy = {}
  /\ forum.entries = {} /\ forum.cursor = 0 /\ forum.under = {} /\ forum.keyResults = {} /\ forum.exchanges = <<>> /\ forum.peer = 0
  /\ ~forum.schema /\ forum.requestGen = 0 /\ forum.exchangeGen = 0 /\ forum.filters = F!Members
  /\ editor \in EditorValues /\ ~editor.loaded /\ ~editor.busy /\ ~editor.saved

LEMMA BlankPages ==
  ASSUME forum = F!NewForum, editor = F!NewEditor
  PROVE  Blank
<1>1. F!Members \in SUBSET F!Members
  OBVIOUS
<1>2. forum \in ForumStates /\ editor \in EditorValues
  BY <1>1 DEF F!NewForum, F!NewEditor, ForumStates, EditorValues
<1> QED
  BY <1>2 DEF F!NewForum, F!NewEditor, Blank

Mounts ==
  /\ UNCHANGED <<F!client, toPage, waiting, asks, timeouts>> /\ visit' = visit + 1 /\ Blank'
  /\ \/ page' = "away" /\ toClient' = toClient
     \/ \E d \in ForumCalls(visit') :
          /\ toClient' = Append(toClient, d) /\ d.visit = visit' /\ ~d.over
          /\ \/ page' = "forum" /\ d.op = "schema" /\ d.for = "page"
             \/ page' = "profile" /\ d.op = "load"

LEMMA NavigateMounts ==
  ASSUME ForumType, NEW p \in {"forum", "profile", "away"}, F!Navigate(p)
  PROVE  Mounts
<1>1. /\ UNCHANGED <<F!client, toPage, waiting, asks, timeouts>> /\ visit' = visit + 1
      /\ forum' = F!NewForum /\ editor' = F!NewEditor /\ page' = p
  BY DEF F!Navigate
<1>2. Blank'
  <2>1. forum = F!NewForum /\ editor = F!NewEditor => Blank
    BY BlankPages
  <2> DEFINE f == forum'
             g == editor'
  <2>2. f = F!NewForum /\ g = F!NewEditor
    BY <1>1
  <2>3. F!Members \in SUBSET F!Members
    OBVIOUS
  <2> HIDE DEF f, g
  <2>4. f \in ForumStates /\ g \in EditorValues
    BY <2>2, <2>3 DEF F!NewForum, F!NewEditor, ForumStates, EditorValues
  <2>5. /\ f.loading /\ ~f.more /\ ~f.error /\ f.keyBusy = {} /\ f.waveBusy = {}
        /\ f.entries = {} /\ f.cursor = 0 /\ f.under = {} /\ f.keyResults = {} /\ f.exchanges = <<>> /\ f.peer = 0
        /\ ~f.schema /\ f.requestGen = 0 /\ f.exchangeGen = 0 /\ f.filters = F!Members
        /\ ~g.loaded /\ ~g.busy /\ ~g.saved
    BY <2>2 DEF F!NewForum, F!NewEditor
  <2> QED
    BY <2>4, <2>5 DEF Blank, f, g
<1>3. ASSUME NEW op \in {"schema", "load"},
             toClient' = Append(toClient, [F!Call(op, "page", 0) EXCEPT !.visit = visit + 1])
      PROVE  \E d \in ForumCalls(visit') :
               toClient' = Append(toClient, d) /\ d.visit = visit' /\ ~d.over /\ d.op = op /\ d.for = "page"
  <2> DEFINE for == "page"
             zero == 0
             none == {}
             n == visit + 1
             d == [F!Call(op, for, zero) EXCEPT !.visit = n]
  <2>1. /\ op \in ForumOps /\ op \notin {"saveRules", "publish"} /\ for \in ForumFors /\ for \in PartOf(op)
        /\ zero \in Nat /\ none \in SUBSET F!Members /\ n \in Nat
    BY DEF ForumOps, SaveOps, ForumFors, PartOf, ForumType, ForumPage
  <2>2. toClient' = Append(toClient, d) /\ visit' = n
    BY <1>1, <1>3
  <2> HIDE DEF d, for, n, zero, none
  <2>3. [F!Call(op, for, zero) EXCEPT !.visit = n] = PlainCall(op, for, zero, 0, 0, 0, {}, {}, n)
    BY VisitForm
  <2>4. d = PlainCall(op, for, zero, zero, zero, zero, none, none, n)
    BY <2>3, Zenon DEF d, zero, none
  <2>5. d \in ForumCalls(n) /\ d.op = op /\ d.for = for /\ d.visit = n /\ ~d.over
    BY <2>1, <2>4, PlainCallOf
  <2> QED
    BY <2>2, <2>5 DEF for
<1>4. CASE p = "forum"
  <2>1. toClient' = Append(toClient, [F!Call("schema", "page", 0) EXCEPT !.visit = visit + 1])
    BY <1>4 DEF F!Navigate
  <2> QED
    BY <1>1, <1>2, <1>3, <1>4, <2>1 DEF Mounts
<1>5. CASE p = "profile"
  <2>1. toClient' = Append(toClient, [F!Call("load", "page", 0) EXCEPT !.visit = visit + 1])
    BY <1>5 DEF F!Navigate
  <2> QED
    BY <1>1, <1>2, <1>3, <1>5, <2>1 DEF Mounts
<1>6. CASE p = "away"
  <2>1. toClient' = toClient
    BY <1>6 DEF F!Navigate
  <2> QED
    BY <1>1, <1>2, <1>6, <2>1 DEF Mounts
<1> QED
  BY <1>4, <1>5, <1>6

LEMMA MountsTypes ==
  ASSUME ForumType, Mounts
  PROVE  ForumType'
<1> DEFINE n == visit'
<1>1. /\ n = visit + 1 /\ n \in Nat /\ visit \in Nat /\ waiting' = waiting /\ toPage' = toPage
  BY DEF Mounts, ForumType, ForumPage
<1>2. Queues(toClient, waiting, toPage, n)
  BY <1>1, QueuesOf, NextVisit
<1> HIDE DEF n
<1>3. toClient' \in Seq(ForumCalls(n))
  <2>1. toClient' = toClient \/ \E d \in ForumCalls(n) : toClient' = Append(toClient, d)
    BY DEF Mounts, n
  <2> QED
    BY <1>2, <2>1, AppendOf DEF Queues
<1>4. ForumPort'
  BY <1>1, <1>2, <1>3 DEF ForumPort, Queues, n
<1>5. ForumClient'
  BY DEF Mounts, F!client, ForumClient, ForumType
<1>6. ForumPage'
  BY <1>1 DEF Mounts, Blank, ForumPage, n
<1> QED
  BY <1>4, <1>5, <1>6 DEF ForumType

\* A member's step on a page sends at most one call.
Acts == \/ Finds \/ LoadsMore \/ (\E m \in F!Members : RequestsKey(m) \/ SendsFirstWave(m)) \/ Composes
        \/ Edits \/ SaveBegins \/ BlocksElsewhere

LEMMA MemberActs ==
  ASSUME ForumType, F!Member
  PROVE  Mounts \/ Acts
<1>1. CASE \E p \in {"forum", "profile", "away"} : F!Navigate(p)
  BY <1>1, NavigateMounts
<1>2. CASE \E filters \in FilterSets : F!Find(filters)
  BY <1>2, FindFinds DEF Acts
<1>3. CASE F!LoadMore
  BY <1>3, LoadMoreLoads DEF Acts
<1>4. CASE \E m \in F!Members : F!RequestKey(m)
  BY <1>4, RequestKeyRequests DEF Acts
<1>5. CASE \E m \in F!Members : F!Compose(m)
  BY <1>5, ComposeComposes DEF Acts
<1>6. CASE \E m \in F!Members : F!SendFirstWave(m)
  BY <1>6, SendFirstWaveSends DEF Acts
<1>7. CASE \E m \in F!Members : F!BlockElsewhere(m)
  BY <1>7, BlockElsewhereBlocks DEF Acts
<1>8. CASE \E values \in ValueSets : \E chosen \in RuleSets : F!Edit(values, chosen)
  BY <1>8, EditEdits DEF Acts
<1>9. CASE F!Save
  BY <1>9, SaveSaves DEF Acts
<1> QED
  BY <1>1, <1>2, <1>3, <1>4, <1>5, <1>6, <1>7, <1>8, <1>9 DEF F!Member

LEMMA ActsTypes ==
  ASSUME ForumType, Acts
  PROVE  ForumType'
<1>1. Kept /\ forum' \in ForumStates /\ editor' \in EditorValues
  BY DEF Acts, Finds, LoadsMore, RequestsKey, SendsFirstWave, Composes, Edits, SaveBegins, BlocksElsewhere, Searching, ForumType, ForumPage
<1>2. Sent(toClient)
  BY DEF Acts, Finds, LoadsMore, RequestsKey, SendsFirstWave, Composes, Edits, SaveBegins, BlocksElsewhere, SearchCall, PeerCall, PageCall, Sent
<1>3. toClient' \in Seq(ForumCalls(visit))
  BY <1>2, AppendOf DEF Sent, ForumType, ForumPort
<1>4. ForumClient' /\ ForumPage'
  BY <1>1 DEF Kept, F!client, ForumClient, ForumPage, ForumType
<1>5. ForumPort'
  BY <1>1, <1>3 DEF Kept, ForumPort, ForumType
<1> QED
  BY <1>4, <1>5 DEF ForumType

LEMMA ForumTypeInit ==
  ASSUME F!Init
  PROVE  ForumType /\ Blank /\ toClient = <<>> /\ toPage = <<>> /\ waiting = <<>> /\ page = "away" /\ visit = 0
<1>1. Blank
  BY BlankPages DEF F!Init
<1>2. ForumClient
  BY PagesAssumption DEF F!Init, ForumClient, F!ForumAssumption
<1>3. ForumPage
  BY <1>1 DEF F!Init, ForumPage, Blank
<1>4. ForumPort
  BY DEF F!Init, ForumPort
<1> QED
  BY <1>1, <1>2, <1>3, <1>4 DEF ForumType, F!Init

-----------------------------------------------------------------------------
(* Forum: what a page that is busy waits for.                              *)

KindOf(c) ==
  IF c.op = "wave" THEN "wave"
  ELSE IF c.op = "key" \/ (c.op = "exchanges" /\ c.for = "key") THEN "key" ELSE "none"

\* The calls of the page that end a key or a wave of member p, and those that
\* end its loading.
PeerCalls(v, kind, p) == {c \in ForumCalls(v) : c.visit = v /\ ~c.over /\ c.peer = p /\ KindOf(c) = kind}
SearchCalls(v, gen) ==
  {c \in ForumCalls(v) : c.visit = v /\ ~c.over /\ c.op \in {"schema", "discover"} /\ c.for # "page" /\ c.gen = gen}
PageCalls(v) == {c \in ForumCalls(v) : c.visit = v /\ ~c.over /\ c.op \in {"schema", "exchanges"} /\ c.for = "page"}

Awaiting(tc, w, tp, v, kind, peers) ==
  \A p \in Nat : /\ Sole(tc, w, tp, v, PeerCalls(v, kind, p))
                 /\ p \in peers <=> Present(tc, w, tp, v, PeerCalls(v, kind, p))
Loading(tc, w, tp, v, f) ==
  /\ f.more => Present(tc, w, tp, v, SearchCalls(v, f.requestGen))
  /\ f.loading => Present(tc, w, tp, v, SearchCalls(v, f.requestGen)) \/ Present(tc, w, tp, v, PageCalls(v))

\* While the forum is mounted it is busy with what is under way, once.
BusyWith(tc, w, tp, v, f) ==
  /\ Awaiting(tc, w, tp, v, "key", f.keyBusy)
  /\ Awaiting(tc, w, tp, v, "wave", f.waveBusy)
  /\ Loading(tc, w, tp, v, f)
BusyForum == page = "forum" => BusyWith(toClient, waiting, toPage, visit, forum)

LEMMA PeerCallsBlind ==
  ASSUME NEW v
  PROVE  /\ \A kind, p : Blind(v, PeerCalls(v, kind, p))
         /\ \A gen : Blind(v, SearchCalls(v, gen))
         /\ Blind(v, PageCalls(v))
BY DEF Blind, PeerCalls, SearchCalls, PageCalls, Alike, KindOf

LEMMA AwaitingPasses ==
  ASSUME NEW v, NEW tc, NEW w, NEW tp, NEW tc2, NEW w2, NEW tp2, NEW kind, NEW peers,
         Passes(tc, w, tp, tc2, w2, tp2, v), Awaiting(tc, w, tp, v, kind, peers)
  PROVE  Awaiting(tc2, w2, tp2, v, kind, peers)
<1>1. ASSUME NEW p \in Nat
      PROVE  /\ Sole(tc2, w2, tp2, v, PeerCalls(v, kind, p))
             /\ p \in peers <=> Present(tc2, w2, tp2, v, PeerCalls(v, kind, p))
  <2> DEFINE X == PeerCalls(v, kind, p)
  <2>1. Blind(v, X) /\ Sole(tc, w, tp, v, X) /\ (p \in peers <=> Present(tc, w, tp, v, X))
    BY PeerCallsBlind DEF Awaiting
  <2> HIDE DEF X
  <2>2. Sole(tc2, w2, tp2, v, X) /\ (p \in peers <=> Present(tc2, w2, tp2, v, X))
    BY <2>1 DEF Passes
  <2> QED
    BY <2>2 DEF X
<1> QED
  BY <1>1 DEF Awaiting

LEMMA LoadingPasses ==
  ASSUME NEW v, NEW tc, NEW w, NEW tp, NEW tc2, NEW w2, NEW tp2, NEW f,
         Passes(tc, w, tp, tc2, w2, tp2, v), Loading(tc, w, tp, v, f)
  PROVE  Loading(tc2, w2, tp2, v, f)
<1>1. \A X : Blind(v, X) => (Present(tc2, w2, tp2, v, X) <=> Present(tc, w, tp, v, X))
  BY DEF Passes
<1>2. /\ Present(tc2, w2, tp2, v, SearchCalls(v, f.requestGen)) <=> Present(tc, w, tp, v, SearchCalls(v, f.requestGen))
      /\ Present(tc2, w2, tp2, v, PageCalls(v)) <=> Present(tc, w, tp, v, PageCalls(v))
  BY <1>1, PeerCallsBlind
<1> QED
  BY <1>2 DEF Loading

\* An answer was heard, and what it ends is no longer under way.
LEMMA AwaitingLeft ==
  ASSUME NEW v, NEW tc, NEW w, NEW tp, NEW tc2, NEW w2, NEW tp2, NEW kind, NEW peers, NEW e \in ForumCalls(v), NEW places,
         Left(tc, w, tp, tc2, w2, tp2, v, e, places), ~e.over, Awaiting(tc, w, tp, v, kind, peers)
  PROVE  /\ e \in PeerCalls(v, kind, e.peer) => Awaiting(tc2, w2, tp2, v, kind, peers \ {e.peer})
         /\ e \notin PeerCalls(v, kind, e.peer) => Awaiting(tc2, w2, tp2, v, kind, peers)
<1>1. ASSUME NEW p \in Nat
      PROVE  /\ Sole(tc2, w2, tp2, v, PeerCalls(v, kind, p))
             /\ e \in PeerCalls(v, kind, p) => ~Present(tc2, w2, tp2, v, PeerCalls(v, kind, p))
             /\ e \notin PeerCalls(v, kind, p) => (p \in peers <=> Present(tc2, w2, tp2, v, PeerCalls(v, kind, p)))
  <2> DEFINE X == PeerCalls(v, kind, p)
  <2>1. (\A c \in X : ~c.over) /\ Sole(tc, w, tp, v, X) /\ (p \in peers <=> Present(tc, w, tp, v, X))
    BY PeerCallsBlind DEF Awaiting, Blind
  <2> HIDE DEF X
  <2>2. /\ Sole(tc2, w2, tp2, v, X)
        /\ e \in X => ~Present(tc2, w2, tp2, v, X)
        /\ e \notin X => (p \in peers <=> Present(tc2, w2, tp2, v, X))
    BY <2>1 DEF Left
  <2> QED
    BY <2>2 DEF X
<1>2. \A p : e \in PeerCalls(v, kind, p) => p = e.peer
  BY DEF PeerCalls
<1> QED
  BY <1>1, <1>2 DEF Awaiting

LEMMA AwaitingGiven ==
  ASSUME NEW v, NEW tc, NEW w, NEW tp, NEW tc2, NEW w2, NEW tp2, NEW kind, NEW peers, NEW d, NEW places,
         Given(tc, w, tp, tc2, w2, tp2, v, d, places), Awaiting(tc, w, tp, v, kind, peers)
  PROVE  /\ d \in PeerCalls(v, kind, d.peer) /\ d.peer \notin peers => Awaiting(tc2, w2, tp2, v, kind, peers \cup {d.peer})
         /\ d \notin PeerCalls(v, kind, d.peer) => Awaiting(tc2, w2, tp2, v, kind, peers)
<1>1. ASSUME NEW p \in Nat
      PROVE  /\ d \in PeerCalls(v, kind, p) /\ p \notin peers => Sole(tc2, w2, tp2, v, PeerCalls(v, kind, p))
             /\ d \notin PeerCalls(v, kind, p) => Sole(tc2, w2, tp2, v, PeerCalls(v, kind, p))
             /\ Present(tc2, w2, tp2, v, PeerCalls(v, kind, p)) <=> p \in peers \/ d \in PeerCalls(v, kind, p)
  <2> DEFINE X == PeerCalls(v, kind, p)
  <2>1. Sole(tc, w, tp, v, X) /\ (p \in peers <=> Present(tc, w, tp, v, X))
    BY DEF Awaiting
  <2> HIDE DEF X
  <2>2. /\ (d \in X => p \notin peers) => Sole(tc2, w2, tp2, v, X)
        /\ Present(tc2, w2, tp2, v, X) <=> p \in peers \/ d \in X
    BY <2>1 DEF Given
  <2> QED
    BY <2>2 DEF X
<1>2. \A p : d \in PeerCalls(v, kind, p) => p = d.peer
  BY DEF PeerCalls
<1> QED
  BY <1>1, <1>2 DEF Awaiting

LEMMA LoadingLeft ==
  ASSUME NEW v, NEW tc, NEW w, NEW tp, NEW tc2, NEW w2, NEW tp2, NEW f, NEW e, NEW places,
         Left(tc, w, tp, tc2, w2, tp2, v, e, places), Loading(tc, w, tp, v, f)
  PROVE  /\ e \notin SearchCalls(v, f.requestGen) =>
              /\ f.more => Present(tc2, w2, tp2, v, SearchCalls(v, f.requestGen))
              /\ e \notin PageCalls(v) => Loading(tc2, w2, tp2, v, f)
<1>1. \A X : (\A c \in X : ~c.over) /\ e \notin X => (Present(tc2, w2, tp2, v, X) <=> Present(tc, w, tp, v, X))
  BY DEF Left
<1>2. /\ \A c \in SearchCalls(v, f.requestGen) : ~c.over
      /\ \A c \in PageCalls(v) : ~c.over
  BY DEF SearchCalls, PageCalls
<1>3. /\ e \notin SearchCalls(v, f.requestGen) =>
           (Present(tc2, w2, tp2, v, SearchCalls(v, f.requestGen)) <=> Present(tc, w, tp, v, SearchCalls(v, f.requestGen)))
      /\ e \notin PageCalls(v) => (Present(tc2, w2, tp2, v, PageCalls(v)) <=> Present(tc, w, tp, v, PageCalls(v)))
  BY <1>1, <1>2
<1> QED
  BY <1>3 DEF Loading

LEMMA PresentGiven ==
  ASSUME NEW v, NEW tc, NEW w, NEW tp, NEW tc2, NEW w2, NEW tp2, NEW d, NEW places,
         Given(tc, w, tp, tc2, w2, tp2, v, d, places)
  PROVE  \A X : Present(tc2, w2, tp2, v, X) <=> Present(tc, w, tp, v, X) \/ d \in X
BY DEF Given

LEMMA AwaitBoth ==
  ASSUME NEW v, NEW tc, NEW w, NEW tp, NEW tc2, NEW w2, NEW tp2, NEW d, NEW places, NEW keys, NEW sent,
         Given(tc, w, tp, tc2, w2, tp2, v, d, places), KindOf(d) = "none",
         Awaiting(tc, w, tp, v, "key", keys), Awaiting(tc, w, tp, v, "wave", sent)
  PROVE  Awaiting(tc2, w2, tp2, v, "key", keys) /\ Awaiting(tc2, w2, tp2, v, "wave", sent)
<1>1. \A kind \in {"key", "wave"} : d \notin PeerCalls(v, kind, d.peer)
  BY DEF PeerCalls
<1> QED
  BY <1>1, AwaitingGiven

\* A call of no kind was sent, or one of a new search.
LEMMA BusyGiven ==
  ASSUME NEW v, NEW tc, NEW w, NEW tp, NEW tc2, NEW w2, NEW tp2, NEW d, NEW places, NEW f, NEW g,
         Given(tc, w, tp, tc2, w2, tp2, v, d, places), KindOf(d) = "none",
         Awaiting(tc, w, tp, v, "key", f.keyBusy), Awaiting(tc, w, tp, v, "wave", f.waveBusy),
         g.keyBusy = f.keyBusy, g.waveBusy = f.waveBusy,
         \/ Loading(tc, w, tp, v, f) /\ g.more = f.more /\ g.loading = f.loading /\ g.requestGen = f.requestGen
         \/ d \in SearchCalls(v, g.requestGen)
  PROVE  BusyWith(tc2, w2, tp2, v, g)
<1>1. \A kind \in {"key", "wave"} : d \notin PeerCalls(v, kind, d.peer)
  BY DEF PeerCalls
<1>2. Awaiting(tc2, w2, tp2, v, "key", g.keyBusy) /\ Awaiting(tc2, w2, tp2, v, "wave", g.waveBusy)
  BY <1>1, AwaitingGiven
<1>3. Loading(tc2, w2, tp2, v, g)
  BY PresentGiven DEF Loading
<1> QED
  BY <1>2, <1>3 DEF BusyWith

LEMMA BusySame ==
  ASSUME NEW v, NEW tc, NEW w, NEW tp, NEW f, NEW g, BusyWith(tc, w, tp, v, f),
         g.keyBusy = f.keyBusy, g.waveBusy = f.waveBusy, g.requestGen = f.requestGen,
         g.more => f.more, g.loading => f.loading
  PROVE  BusyWith(tc, w, tp, v, g)
BY DEF BusyWith, Loading

\* An answer of no kind was heard.
LEMMA BusyLeft ==
  ASSUME NEW v, NEW tc, NEW w, NEW tp, NEW tc2, NEW w2, NEW tp2, NEW f, NEW e \in ForumCalls(v), NEW places,
         Left(tc, w, tp, tc2, w2, tp2, v, e, places), ~e.over, BusyWith(tc, w, tp, v, f), KindOf(e) = "none" \/ e.visit # v
  PROVE  /\ Awaiting(tc2, w2, tp2, v, "key", f.keyBusy) /\ Awaiting(tc2, w2, tp2, v, "wave", f.waveBusy)
         /\ e \notin SearchCalls(v, f.requestGen) /\ e \notin PageCalls(v) => BusyWith(tc2, w2, tp2, v, f)
<1>1. \A kind \in {"key", "wave"} : e \notin PeerCalls(v, kind, e.peer)
  BY DEF PeerCalls
<1>2. Awaiting(tc2, w2, tp2, v, "key", f.keyBusy) /\ Awaiting(tc2, w2, tp2, v, "wave", f.waveBusy)
  BY <1>1, AwaitingLeft DEF BusyWith
<1> QED
  BY <1>2, LoadingLeft DEF BusyWith

LEMMA NoKind ==
  ASSUME NEW v, NEW c \in ForumCalls(v), c.visit # v \/ c.op \in SaveOps \cup {"load", "block", "unblock"}
  PROVE  /\ KindOf(c) = "none" \/ c.visit # v
         /\ c \notin PageCalls(v) /\ \A gen : c \notin SearchCalls(v, gen)
BY DEF KindOf, PageCalls, SearchCalls, SaveOps

\* What ends no busy state: a call of another page, of the profile, or a block.
LEMMA BusyHearsElse ==
  ASSUME NEW v, NEW tc, NEW w, NEW tp, NEW q, NEW w2, NEW tp2, NEW f, NEW e \in ForumCalls(v), NEW places, NEW tc2,
         Left(tc, w, tp, q, w2, tp2, v, e, places), ~e.over, BusyWith(tc, w, tp, v, f),
         e.visit # v \/ e.op \in SaveOps \cup {"load", "block", "unblock"},
         tc2 = q \/ \E d \in ForumCalls(v) : tc2 = Append(q, d) /\ d.op \in SaveOps
  PROVE  BusyWith(tc2, w2, tp2, v, f)
<1>1. BusyWith(q, w2, tp2, v, f)
  BY BusyLeft, NoKind
<1>2. CASE tc2 # q
  <2>1. PICK d \in ForumCalls(v) : tc2 = Append(q, d) /\ d.op \in SaveOps
    BY <1>2
  <2>2. Given(q, w2, tp2, tc2, w2, tp2, v, d, {1, 3, 5})
    BY <2>1, CallGiven DEF Left
  <2>3. KindOf(d) = "none"
    BY <2>1 DEF KindOf, SaveOps
  <2> QED
    BY <1>1, <2>2, <2>3, BusyGiven DEF BusyWith
<1> QED
  BY <1>1, <1>2

\* Answers of a search, and of what a page asks for when it is mounted.
LEMMA BusyHearsSearch ==
  ASSUME ForumType, NEW e, NEW m, NEW q, NEW places, Hears(e, m, q, places), e.visit = visit,
         e.op = "discover" \/ (e.op = "schema" /\ e.for = "search"),
         SearchHeard(e, m, q), BusyWith(toClient, waiting, toPage, visit, forum)
  PROVE  BusyWith(toClient', waiting', toPage', visit, forum')
<1> DEFINE v == visit
           w2 == waiting'
           tp2 == toPage'
           f == forum
           g == forum'
           tc2 == toClient'
<1>1. /\ e \in ForumCalls(v) /\ ~e.over /\ e.for # "page"
      /\ Left(toClient, waiting, toPage, q, w2, tp2, v, e, places)
  BY DEF Hears, Heard, ForumCalls, PartOf
<1>2. KindOf(e) = "none" /\ e \notin PageCalls(v)
  BY <1>1 DEF KindOf, PageCalls
<1>3. Awaiting(q, w2, tp2, v, "key", f.keyBusy) /\ Awaiting(q, w2, tp2, v, "wave", f.waveBusy)
  BY <1>1, <1>2, BusyLeft
<1>4. e.gen # f.requestGen => BusyWith(q, w2, tp2, v, f)
  BY <1>1, <1>2, BusyLeft DEF SearchCalls
<1>5. g.keyBusy = f.keyBusy /\ g.waveBusy = f.waveBusy
  BY DEF SearchHeard, SameKeys
<1>6. CASE e.gen # f.requestGen /\ tc2 = q /\ g = f
  BY <1>4, <1>6
<1>7. CASE g.requestGen = f.requestGen /\ \E d : tc2 = Append(q, d) /\ PageCall(d) /\ d.op = "discover" /\ d.for = "search" /\ d.gen = f.requestGen
  <2>1. PICK d : tc2 = Append(q, d) /\ PageCall(d) /\ d.op = "discover" /\ d.for = "search" /\ d.gen = f.requestGen
    BY <1>7
  <2>2. Given(q, w2, tp2, tc2, w2, tp2, v, d, {1, 3, 5})
    BY <1>1, <2>1, CallGiven DEF Left, PageCall
  <2>3. KindOf(d) = "none" /\ d \in SearchCalls(v, g.requestGen)
    BY <1>7, <2>1 DEF KindOf, SearchCalls, PageCall
  <2> QED
    BY <1>3, <1>5, <2>2, <2>3, BusyGiven
<1>8. CASE ~g.loading /\ ~g.more /\ tc2 = q
  <2>1. Loading(q, w2, tp2, v, g)
    BY <1>8 DEF Loading
  <2> QED
    BY <1>3, <1>5, <1>8, <2>1 DEF BusyWith
<1> QED
  BY <1>6, <1>7, <1>8 DEF SearchHeard, SameSearch

LEMMA BusyHearsMount ==
  ASSUME ForumType, NEW e, NEW m, NEW q, NEW places, Hears(e, m, q, places), e.visit = visit,
         e.op = "schema", e.for = "page",
         MountHeard(e, m, q), BusyWith(toClient, waiting, toPage, visit, forum)
  PROVE  BusyWith(toClient', waiting', toPage', visit, forum')
<1> DEFINE v == visit
           w2 == waiting'
           tp2 == toPage'
           f == forum
           g == forum'
           tc2 == toClient'
<1>1. /\ e \in ForumCalls(v) /\ ~e.over
      /\ Left(toClient, waiting, toPage, q, w2, tp2, v, e, places)
  BY DEF Hears, Heard
<1>2. KindOf(e) = "none" /\ e \notin SearchCalls(v, f.requestGen)
  BY <1>1 DEF KindOf, SearchCalls
<1>3. Awaiting(q, w2, tp2, v, "key", f.keyBusy) /\ Awaiting(q, w2, tp2, v, "wave", f.waveBusy)
  BY <1>1, <1>2, BusyLeft
<1>4. f.more => Present(q, w2, tp2, v, SearchCalls(v, f.requestGen))
  BY <1>1, <1>2, LoadingLeft DEF BusyWith
<1>5. g.keyBusy = f.keyBusy /\ g.waveBusy = f.waveBusy /\ g.more = f.more /\ g.requestGen = f.requestGen
  BY DEF MountHeard, SameKeys
<1>6. CASE m.ok
  <2>1. PICK d : tc2 = Append(q, d) /\ ReloadCall(d, "page", e.gen, e.peer, f.exchangeGen + 1)
    BY <1>6 DEF MountHeard
  <2>2. Given(q, w2, tp2, tc2, w2, tp2, v, d, {1, 3, 5})
    BY <1>1, <2>1, CallGiven DEF Left, PageCall, ReloadCall
  <2>3. KindOf(d) = "none" /\ d \in PageCalls(v)
    BY <2>1 DEF KindOf, PageCalls, PageCall, ReloadCall
  <2>4. Awaiting(tc2, w2, tp2, v, "key", f.keyBusy) /\ Awaiting(tc2, w2, tp2, v, "wave", f.waveBusy)
    BY <1>3, <2>2, <2>3, AwaitBoth
  <2>5. Awaiting(tc2, w2, tp2, v, "key", g.keyBusy) /\ Awaiting(tc2, w2, tp2, v, "wave", g.waveBusy)
    BY <1>5, <2>4
  <2>6. Loading(tc2, w2, tp2, v, g)
    BY <1>4, <1>5, <2>2, <2>3, PresentGiven DEF Loading
  <2> QED
    BY <2>5, <2>6 DEF BusyWith
<1>7. CASE ~m.ok
  <2>1. ~g.loading /\ tc2 = q
    BY <1>7 DEF MountHeard
  <2>2. Loading(q, w2, tp2, v, g)
    BY <1>4, <1>5, <2>1 DEF Loading
  <2> QED
    BY <1>3, <1>5, <2>1, <2>2 DEF BusyWith
<1> QED
  BY <1>6, <1>7

LEMMA AwaitingElse ==
  ASSUME NEW v, NEW tc, NEW w, NEW tp, NEW tc2, NEW w2, NEW tp2, NEW kind, NEW peers, NEW d, NEW places,
         Given(tc, w, tp, tc2, w2, tp2, v, d, places), KindOf(d) # kind, Awaiting(tc, w, tp, v, kind, peers)
  PROVE  Awaiting(tc2, w2, tp2, v, kind, peers)
<1>1. d \notin PeerCalls(v, kind, d.peer)
  BY DEF PeerCalls
<1> QED
  BY <1>1, AwaitingGiven

LEMMA BusyHearsExchanges ==
  ASSUME ForumType, NEW e, NEW m, NEW q, NEW places, Hears(e, m, q, places), e.visit = visit,
         e.op = "exchanges",
         ExchangesHeard(e, m, q), BusyWith(toClient, waiting, toPage, visit, forum)
  PROVE  BusyWith(toClient', waiting', toPage', visit, forum')
<1> DEFINE v == visit
           w2 == waiting'
           tp2 == toPage'
           f == forum
           g == forum'
           tc2 == toClient'
<1>1. /\ e \in ForumCalls(v) /\ ~e.over
      /\ Left(toClient, waiting, toPage, q, w2, tp2, v, e, places)
  BY DEF Hears, Heard
<1>2. /\ e \notin SearchCalls(v, f.requestGen)
      /\ e.for = "key" <=> KindOf(e) = "key"
      /\ e.for # "key" <=> KindOf(e) = "none"
      /\ e.for # "page" => e \notin PageCalls(v)
  BY DEF KindOf, SearchCalls, PageCalls
<1>3. g.waveBusy = f.waveBusy
  BY DEF ExchangesHeard
<1>4. CASE e.for = "page"
  <2>1. Awaiting(q, w2, tp2, v, "key", f.keyBusy) /\ Awaiting(q, w2, tp2, v, "wave", f.waveBusy)
    BY <1>1, <1>2, <1>4, BusyLeft
  <2>2. g.keyBusy = f.keyBusy
    BY <1>4 DEF ExchangesHeard
  <2>3. PICK d : tc2 = Append(q, d) /\ SearchCall(d, g, TRUE)
    BY <1>4 DEF ExchangesHeard
  <2>4. Given(q, w2, tp2, tc2, w2, tp2, v, d, {1, 3, 5})
    BY <1>1, <2>3, CallGiven DEF Left, SearchCall, PageCall
  <2>5. KindOf(d) = "none" /\ d \in SearchCalls(v, g.requestGen)
    BY <2>3 DEF KindOf, SearchCalls, SearchCall, PageCall
  <2> QED
    BY <1>3, <2>1, <2>2, <2>4, <2>5, BusyGiven
<1>5. CASE e.for = "key"
  <2>1. e \in PeerCalls(v, "key", e.peer) /\ e \notin PeerCalls(v, "wave", e.peer)
    BY <1>1, <1>2, <1>5 DEF PeerCalls
  <2>2. Awaiting(q, w2, tp2, v, "key", f.keyBusy \ {e.peer})
    BY <1>1, <2>1, AwaitingLeft DEF BusyWith
  <2>3. Awaiting(q, w2, tp2, v, "wave", f.waveBusy)
    BY <1>1, <2>1, AwaitingLeft DEF BusyWith
  <2>4. Loading(q, w2, tp2, v, f)
    BY <1>1, <1>2, <1>5, LoadingLeft DEF BusyWith
  <2>5. /\ tc2 = q /\ g.keyBusy = f.keyBusy \ {e.peer} /\ g.requestGen = f.requestGen
        /\ g.more = f.more /\ g.loading = f.loading
    BY <1>5 DEF ExchangesHeard, SameSearch
  <2>6. Loading(q, w2, tp2, v, g)
    BY <2>4, <2>5 DEF Loading
  <2> QED
    BY <1>3, <2>2, <2>3, <2>5, <2>6 DEF BusyWith
<1>6. CASE e.for \notin {"page", "key"}
  <2>1. BusyWith(q, w2, tp2, v, f)
    BY <1>1, <1>2, <1>6, BusyLeft
  <2>2. /\ tc2 = q /\ g.keyBusy = f.keyBusy /\ g.requestGen = f.requestGen
        /\ g.more = f.more /\ g.loading = f.loading
    BY <1>6 DEF ExchangesHeard, SameSearch, SameKeys
  <2> QED
    BY <1>3, <2>1, <2>2, BusySame
<1> QED
  BY <1>4, <1>5, <1>6

LEMMA BusyHearsKey ==
  ASSUME ForumType, NEW e, NEW m, NEW q, NEW places, Hears(e, m, q, places), e.visit = visit,
         e.op = "key",
         KeyHeard(e, m, q), BusyWith(toClient, waiting, toPage, visit, forum)
  PROVE  BusyWith(toClient', waiting', toPage', visit, forum')
<1> DEFINE v == visit
           w2 == waiting'
           tp2 == toPage'
           f == forum
           g == forum'
           tc2 == toClient'
           p == e.peer
<1>1. /\ e \in ForumCalls(v) /\ ~e.over
      /\ Left(toClient, waiting, toPage, q, w2, tp2, v, e, places)
  BY DEF Hears, Heard
<1>2. /\ e \notin SearchCalls(v, f.requestGen) /\ e \notin PageCalls(v)
      /\ e \in PeerCalls(v, "key", p) /\ e \notin PeerCalls(v, "wave", p)
  BY <1>1 DEF KindOf, SearchCalls, PageCalls, PeerCalls
<1>3. Awaiting(q, w2, tp2, v, "key", f.keyBusy \ {p})
  BY <1>1, <1>2, AwaitingLeft DEF BusyWith
<1>4. Awaiting(q, w2, tp2, v, "wave", f.waveBusy)
  BY <1>1, <1>2, AwaitingLeft DEF BusyWith
<1>5. Loading(q, w2, tp2, v, f)
  BY <1>1, <1>2, LoadingLeft DEF BusyWith
<1>6. g.waveBusy = f.waveBusy /\ g.requestGen = f.requestGen /\ g.more = f.more /\ g.loading = f.loading
  BY DEF KeyHeard, SameSearch
<1>7. Loading(q, w2, tp2, v, g)
  BY <1>5, <1>6 DEF Loading
<1>8. CASE tc2 = q /\ g.keyBusy = f.keyBusy \ {p}
  BY <1>3, <1>4, <1>6, <1>7, <1>8 DEF BusyWith
<1>9. CASE g.keyBusy = f.keyBusy /\ \E d : tc2 = Append(q, d) /\ ReloadCall(d, "key", e.gen, p, f.exchangeGen + 1)
  <2>1. PICK d : tc2 = Append(q, d) /\ ReloadCall(d, "key", e.gen, p, f.exchangeGen + 1)
    BY <1>9
  <2>2. Given(q, w2, tp2, tc2, w2, tp2, v, d, {1, 3, 5})
    BY <1>1, <2>1, CallGiven DEF Left, PageCall, ReloadCall
  <2>3. d \in PeerCalls(v, "key", d.peer) /\ KindOf(d) # "wave" /\ d.peer = p
    BY <2>1 DEF KindOf, PeerCalls, PageCall, ReloadCall
  <2>4. Awaiting(tc2, w2, tp2, v, "key", (f.keyBusy \ {p}) \cup {p})
    <3>1. d.peer \notin f.keyBusy \ {p}
      BY <2>3
    <3>2. Awaiting(tc2, w2, tp2, v, "key", (f.keyBusy \ {p}) \cup {d.peer})
      BY <1>3, <2>2, <2>3, <3>1, AwaitingGiven
    <3> QED
      BY <2>3, <3>2
  <2>5. Awaiting(tc2, w2, tp2, v, "wave", f.waveBusy)
    BY <1>4, <2>2, <2>3, AwaitingElse
  <2>6. p \in f.keyBusy
    <3>1. Sole(toClient, waiting, toPage, v, PeerCalls(v, "key", p)) /\ (p \in f.keyBusy <=> Present(toClient, waiting, toPage, v, PeerCalls(v, "key", p)))
      BY <1>1 DEF BusyWith, Awaiting, ForumCalls, ForumCall
    <3>2. Present(toClient, waiting, toPage, v, PeerCalls(v, "key", p))
      <4> DEFINE X == PeerCalls(v, "key", p)
      <4>1. e \in X /\ \A c \in X : ~c.over
        BY <1>2 DEF PeerCalls
      <4> HIDE DEF X
      <4>2. Present(toClient, waiting, toPage, v, X)
        BY <1>1, <4>1 DEF Left
      <4> QED
        BY <4>2 DEF X
    <3> QED
      BY <3>1, <3>2
  <2>7. (f.keyBusy \ {p}) \cup {p} = f.keyBusy
    BY <2>6
  <2>8. Awaiting(tc2, w2, tp2, v, "key", g.keyBusy)
    BY <1>9, <2>4, <2>7
  <2>9. Loading(tc2, w2, tp2, v, g)
    BY <1>7, <2>2, PresentGiven DEF Loading
  <2> QED
    BY <1>6, <2>5, <2>8, <2>9 DEF BusyWith
<1> QED
  BY <1>8, <1>9 DEF KeyHeard

LEMMA BusyHearsWave ==
  ASSUME ForumType, NEW e, NEW m, NEW q, NEW places, Hears(e, m, q, places), e.visit = visit,
         e.op = "wave",
         WaveHeard(e, m, q), BusyWith(toClient, waiting, toPage, visit, forum)
  PROVE  BusyWith(toClient', waiting', toPage', visit, forum')
<1> DEFINE v == visit
           w2 == waiting'
           tp2 == toPage'
           f == forum
           g == forum'
           p == e.peer
<1>1. /\ e \in ForumCalls(v) /\ ~e.over
      /\ Left(toClient, waiting, toPage, q, w2, tp2, v, e, places)
  BY DEF Hears, Heard
<1>2. /\ e \notin SearchCalls(v, f.requestGen) /\ e \notin PageCalls(v)
      /\ e \in PeerCalls(v, "wave", p) /\ e \notin PeerCalls(v, "key", p)
  BY <1>1 DEF KindOf, SearchCalls, PageCalls, PeerCalls
<1>3. Awaiting(q, w2, tp2, v, "wave", f.waveBusy \ {p})
  BY <1>1, <1>2, AwaitingLeft DEF BusyWith
<1>4. Awaiting(q, w2, tp2, v, "key", f.keyBusy)
  BY <1>1, <1>2, AwaitingLeft DEF BusyWith
<1>5. Loading(q, w2, tp2, v, f)
  BY <1>1, <1>2, LoadingLeft DEF BusyWith
<1>6. /\ g.waveBusy = f.waveBusy \ {p} /\ g.keyBusy = f.keyBusy /\ toClient' = q
      /\ g.requestGen = f.requestGen /\ g.more = f.more /\ g.loading = f.loading
  BY DEF WaveHeard, SameSearch
<1>7. Loading(q, w2, tp2, v, g)
  BY <1>5, <1>6 DEF Loading
<1> QED
  BY <1>3, <1>4, <1>6, <1>7 DEF BusyWith

LEMMA BusyHears ==
  ASSUME ForumType, NEW e, NEW m, NEW q, NEW places, Hears(e, m, q, places), BusyForum
  PROVE  BusyForum'
<1>1. SUFFICES ASSUME page = "forum"
               PROVE  BusyWith(toClient', waiting', toPage', visit, forum')
  BY DEF BusyForum, Hears
<1>2. BusyWith(toClient, waiting, toPage, visit, forum)
  BY <1>1 DEF BusyForum
<1>3. /\ e \in ForumCalls(visit) /\ ~e.over /\ Goes(e, m, q)
      /\ Left(toClient, waiting, toPage, q, waiting', toPage', visit, e, places)
  BY DEF Hears, Heard
<1>4. CASE e.visit = visit /\ e.op = "schema" /\ e.for = "page" /\ MountHeard(e, m, q)
  BY <1>2, <1>4, BusyHearsMount
<1>5. CASE e.visit = visit /\ (e.op = "discover" \/ (e.op = "schema" /\ e.for = "search")) /\ SearchHeard(e, m, q)
  BY <1>2, <1>5, BusyHearsSearch
<1>6. CASE e.visit = visit /\ e.op = "exchanges" /\ ExchangesHeard(e, m, q)
  BY <1>2, <1>6, BusyHearsExchanges
<1>7. CASE e.visit = visit /\ e.op = "key" /\ KeyHeard(e, m, q)
  BY <1>2, <1>7, BusyHearsKey
<1>8. CASE e.visit = visit /\ e.op = "wave" /\ WaveHeard(e, m, q)
  BY <1>2, <1>8, BusyHearsWave
<1>9. CASE /\ forum' = forum /\ (e.visit # visit \/ e.op \in SaveOps \cup {"load", "block", "unblock"})
           /\ toClient' = q \/ \E d \in ForumCalls(visit) : toClient' = Append(q, d) /\ d.op \in SaveOps
  BY <1>2, <1>3, <1>9, BusyHearsElse
<1>10. e.op \in SaveOps /\ SaveHeard(e, m, q) =>
         forum' = forum /\ (toClient' = q \/ \E d \in ForumCalls(visit) : toClient' = Append(q, d) /\ d.op \in SaveOps)
  BY DEF SaveHeard, NextSave, SaveOps
<1>11. LoadHeard(m, q) => forum' = forum /\ toClient' = q
  BY DEF LoadHeard
<1> QED
  BY <1>1, <1>3, <1>4, <1>5, <1>6, <1>7, <1>8, <1>9, <1>10, <1>11 DEF Goes

LEMMA BusyOfSame ==
  ASSUME NEW v, NEW tc, NEW w, NEW tp, NEW tc2, NEW w2, NEW tp2, NEW f,
         Same(tc, w, tp, tc2, w2, tp2, v), BusyWith(tc, w, tp, v, f)
  PROVE  BusyWith(tc2, w2, tp2, v, f)
<1>1. \A X : /\ Sole(tc, w, tp, v, X) => Sole(tc2, w2, tp2, v, X)
             /\ Present(tc2, w2, tp2, v, X) <=> Present(tc, w, tp, v, X)
  BY DEF Same
<1>2. ASSUME NEW kind, NEW peers, Awaiting(tc, w, tp, v, kind, peers)
      PROVE  Awaiting(tc2, w2, tp2, v, kind, peers)
  BY <1>1, <1>2 DEF Awaiting
<1>3. Loading(tc, w, tp, v, f) => Loading(tc2, w2, tp2, v, f)
  BY <1>1 DEF Loading
<1> QED
  BY <1>2, <1>3 DEF BusyWith

LEMMA BusyEvent ==
  ASSUME ForumType, EventHears, BusyForum
  PROVE  BusyForum'
<1>1. SUFFICES ASSUME page = "forum"
               PROVE  BusyWith(toClient', waiting', toPage', visit, forum')
  BY DEF BusyForum, EventHears
<1> DEFINE v == visit
           tp2 == toPage'
           f == forum
           g == forum'
           tc2 == toClient'
           xs == {1, 3, 5}
<1>2. /\ Same(toClient, waiting, toPage, toClient, waiting, tp2, v) /\ waiting' = waiting
      /\ BusyWith(toClient, waiting, toPage, v, f)
  BY <1>1 DEF EventHears, BusyForum
<1>3. BusyWith(toClient, waiting, tp2, v, f)
  BY <1>2, BusyOfSame
<1>4. CASE Searching(g, f, TRUE) /\ \E d : tc2 = Append(toClient, d) /\ SearchCall(d, g, TRUE)
  <2>1. PICK d : tc2 = Append(toClient, d) /\ SearchCall(d, g, TRUE)
    BY <1>4
  <2>2. Given(toClient, waiting, tp2, tc2, waiting, tp2, v, d, {1, 3, 5})
    BY <1>2, <2>1, CallGiven DEF Same, SearchCall, PageCall
  <2>3. KindOf(d) = "none" /\ d \in SearchCalls(v, g.requestGen) /\ g.keyBusy = f.keyBusy /\ g.waveBusy = f.waveBusy
    BY <1>4, <2>1 DEF KindOf, SearchCalls, SearchCall, PageCall, Searching
  <2> QED
    BY <1>2, <1>3, <2>2, <2>3, BusyGiven DEF BusyWith
<1>5. CASE Reloading(g, f) /\ \E d : tc2 = Append(toClient, d) /\ ReloadCall(d, "event", 0, 0, f.exchangeGen + 1)
  <2>1. PICK d : tc2 = Append(toClient, d) /\ ReloadCall(d, "event", 0, 0, f.exchangeGen + 1)
    BY <1>5
  <2>2. Given(toClient, waiting, tp2, tc2, waiting, tp2, v, d, {1, 3, 5})
    BY <1>2, <2>1, CallGiven DEF Same, ReloadCall, PageCall
  <2>3. KindOf(d) = "none"
    BY <2>1 DEF KindOf, ReloadCall
  <2>4. /\ g.keyBusy = f.keyBusy /\ g.waveBusy = f.waveBusy
        /\ g.more = f.more /\ g.loading = f.loading /\ g.requestGen = f.requestGen
    <3>1. f \in ForumStates
      BY DEF ForumType, ForumPage
    <3> HIDE DEF f, g
    <3>2. g = [f EXCEPT !.exchangeGen = @ + 1]
      BY <1>5 DEF Reloading
    <3> QED
      BY <3>1, <3>2 DEF ForumStates
  <2> QED
    BY <1>2, <1>3, <2>2, <2>3, <2>4, BusyGiven DEF BusyWith
<1> QED
  BY <1>1, <1>4, <1>5 DEF EventHears

LEMMA AwaitingMore ==
  ASSUME NEW v, NEW tc, NEW w, NEW tp, NEW tc2, NEW w2, NEW tp2, NEW kind, NEW peers, NEW d, NEW places,
         Given(tc, w, tp, tc2, w2, tp2, v, d, places), d \in PeerCalls(v, kind, d.peer), d.peer \notin peers,
         Awaiting(tc, w, tp, v, kind, peers)
  PROVE  Awaiting(tc2, w2, tp2, v, kind, peers \cup {d.peer})
BY AwaitingGiven

LEMMA BusyActs ==
  ASSUME ForumType, Acts, BusyForum
  PROVE  BusyForum'
<1>1. SUFFICES ASSUME page = "forum"
               PROVE  BusyWith(toClient', waiting, toPage, visit, forum')
  <2>1. Kept
    BY DEF Acts, Finds, LoadsMore, RequestsKey, SendsFirstWave, Composes, Edits, SaveBegins, BlocksElsewhere
  <2> QED
    BY <2>1 DEF BusyForum, Kept
<1> DEFINE v == visit
           f == forum
           g == forum'
           tc2 == toClient'
<1>2. /\ Queues(toClient, waiting, toPage, v)
      /\ BusyWith(toClient, waiting, toPage, v, f)
  BY <1>1, QueuesOf DEF BusyForum
<1>3. ASSUME NEW reset \in BOOLEAN, \E d : tc2 = Append(toClient, d) /\ SearchCall(d, g, reset),
             g.keyBusy = f.keyBusy, g.waveBusy = f.waveBusy
      PROVE  BusyWith(tc2, waiting, toPage, v, g)
  <2>1. PICK d : tc2 = Append(toClient, d) /\ SearchCall(d, g, reset)
    BY <1>3
  <2>2. Given(toClient, waiting, toPage, tc2, waiting, toPage, v, d, {1, 3, 5})
    BY <1>2, <2>1, CallGiven DEF SearchCall, PageCall
  <2>3. KindOf(d) = "none" /\ d \in SearchCalls(v, g.requestGen)
    BY <2>1 DEF KindOf, SearchCalls, SearchCall, PageCall
  <2> QED
    BY <1>2, <1>3, <2>2, <2>3, BusyGiven DEF BusyWith
<1>4. CASE Finds
  <2>1. g.keyBusy = f.keyBusy /\ g.waveBusy = f.waveBusy /\ \E d : tc2 = Append(toClient, d) /\ SearchCall(d, g, TRUE)
    BY <1>4 DEF Finds, Searching
  <2> QED
    BY <1>3, <2>1
<1>5. CASE LoadsMore
  <2>1. g.keyBusy = f.keyBusy /\ g.waveBusy = f.waveBusy /\ \E d : tc2 = Append(toClient, d) /\ SearchCall(d, g, FALSE)
    BY <1>5 DEF LoadsMore, Searching
  <2> QED
    BY <1>3, <2>1
<1>6. CASE \E m \in F!Members : RequestsKey(m)
  <2>1. PICK m \in F!Members : RequestsKey(m)
    BY <1>6
  <2>2. PICK d : tc2 = Append(toClient, d) /\ PeerCall(d, "key", m)
    BY <2>1 DEF RequestsKey
  <2>3. Given(toClient, waiting, toPage, tc2, waiting, toPage, v, d, {1, 3, 5})
    BY <1>2, <2>2, CallGiven DEF PeerCall, PageCall
  <2>4. d \in PeerCalls(v, "key", d.peer) /\ KindOf(d) # "wave" /\ d.peer = m
    BY <2>2 DEF KindOf, PeerCalls, PageCall, PeerCall
  <2>5. /\ m \notin f.keyBusy /\ g.keyBusy = f.keyBusy \cup {m} /\ g.waveBusy = f.waveBusy
        /\ g.more = f.more /\ g.loading = f.loading /\ g.requestGen = f.requestGen
    BY <2>1 DEF RequestsKey, SameSearch
  <2>9. Awaiting(toClient, waiting, toPage, v, "key", f.keyBusy) /\ d.peer \notin f.keyBusy
    BY <1>2, <2>4, <2>5 DEF BusyWith
  <2>6. Awaiting(tc2, waiting, toPage, v, "key", f.keyBusy \cup {d.peer})
    BY <2>3, <2>4, <2>9, AwaitingMore
  <2>7. Awaiting(tc2, waiting, toPage, v, "wave", f.waveBusy)
    BY <1>2, <2>3, <2>4, AwaitingElse DEF BusyWith
  <2>8. Loading(tc2, waiting, toPage, v, g)
    BY <1>2, <2>3, <2>5, PresentGiven DEF Loading, BusyWith
  <2> QED
    BY <2>4, <2>5, <2>6, <2>7, <2>8 DEF BusyWith
<1>7. CASE \E m \in F!Members : SendsFirstWave(m)
  <2>1. PICK m \in F!Members : SendsFirstWave(m)
    BY <1>7
  <2>2. PICK d : tc2 = Append(toClient, d) /\ PeerCall(d, "wave", m)
    BY <2>1 DEF SendsFirstWave
  <2>3. Given(toClient, waiting, toPage, tc2, waiting, toPage, v, d, {1, 3, 5})
    BY <1>2, <2>2, CallGiven DEF PeerCall, PageCall
  <2>4. d \in PeerCalls(v, "wave", d.peer) /\ KindOf(d) # "key" /\ d.peer = m
    BY <2>2 DEF KindOf, PeerCalls, PageCall, PeerCall
  <2>5. /\ m \notin f.waveBusy /\ g.waveBusy = f.waveBusy \cup {m} /\ g.keyBusy = f.keyBusy
        /\ g.more = f.more /\ g.loading = f.loading /\ g.requestGen = f.requestGen
    BY <2>1 DEF SendsFirstWave, SameSearch
  <2>9. Awaiting(toClient, waiting, toPage, v, "wave", f.waveBusy) /\ d.peer \notin f.waveBusy
    BY <1>2, <2>4, <2>5 DEF BusyWith
  <2>6. Awaiting(tc2, waiting, toPage, v, "wave", f.waveBusy \cup {d.peer})
    BY <2>3, <2>4, <2>9, AwaitingMore
  <2>7. Awaiting(tc2, waiting, toPage, v, "key", f.keyBusy)
    BY <1>2, <2>3, <2>4, AwaitingElse DEF BusyWith
  <2>8. Loading(tc2, waiting, toPage, v, g)
    BY <1>2, <2>3, <2>5, PresentGiven DEF Loading, BusyWith
  <2> QED
    BY <2>4, <2>5, <2>6, <2>7, <2>8 DEF BusyWith
<1>8. CASE Composes
  <2>1. /\ tc2 = toClient /\ g.keyBusy = f.keyBusy /\ g.waveBusy = f.waveBusy
        /\ g.more = f.more /\ g.loading = f.loading /\ g.requestGen = f.requestGen
    BY <1>8 DEF Composes, SameSearch, SameKeys
  <2> QED
    BY <1>2, <2>1, BusySame
<1> QED
  BY <1>1, <1>4, <1>5, <1>6, <1>7, <1>8 DEF Acts, Edits, SaveBegins, BlocksElsewhere

LEMMA BusyMounts ==
  ASSUME ForumType, Mounts
  PROVE  BusyForum'
<1> DEFINE n == visit'
           g == forum'
           tc2 == toClient'
<1>1. SUFFICES ASSUME page' = "forum"
               PROVE  BusyWith(tc2, waiting, toPage, n, g)
  BY DEF BusyForum, Mounts
<1>2. n = visit + 1 /\ visit \in Nat /\ Queues(toClient, waiting, toPage, visit)
  BY QueuesOf DEF Mounts, ForumType, ForumPage
<1>3. PICK d \in ForumCalls(n) : tc2 = Append(toClient, d) /\ d.visit = n /\ ~d.over /\ d.op = "schema" /\ d.for = "page"
  BY <1>1 DEF Mounts
<1>4. g.keyBusy = {} /\ g.waveBusy = {} /\ ~g.more
  BY DEF Mounts, Blank
<1> HIDE DEF n, g, tc2
<1>5. /\ Queues(toClient, waiting, toPage, n)
      /\ \A X : (\A c \in X : c.visit = n) => Sole(toClient, waiting, toPage, n, X) /\ ~Present(toClient, waiting, toPage, n, X)
  BY <1>2, NextVisit
<1>6. Given(toClient, waiting, toPage, tc2, waiting, toPage, n, d, {1, 3, 5})
  BY <1>3, <1>5, CallGiven
<1>7. ASSUME NEW kind PROVE Awaiting(toClient, waiting, toPage, n, kind, {})
  <2>1. \A p : \A c \in PeerCalls(n, kind, p) : c.visit = n
    BY DEF PeerCalls
  <2>2. \A p : Sole(toClient, waiting, toPage, n, PeerCalls(n, kind, p)) /\ ~Present(toClient, waiting, toPage, n, PeerCalls(n, kind, p))
    BY <1>5, <2>1
  <2> QED
    BY <2>2 DEF Awaiting
<1>8. KindOf(d) = "none" /\ d \in PageCalls(n)
  BY <1>3 DEF KindOf, PageCalls
<1>9. Awaiting(tc2, waiting, toPage, n, "key", {}) /\ Awaiting(tc2, waiting, toPage, n, "wave", {})
  BY <1>6, <1>7, <1>8, AwaitBoth
<1>10. Loading(tc2, waiting, toPage, n, g)
  BY <1>4, <1>6, <1>8, PresentGiven DEF Loading
<1> QED
  BY <1>4, <1>9, <1>10 DEF BusyWith

-----------------------------------------------------------------------------
(* Forum: a save of the profile passes its places one after the other.     *)

\* Of the saves, only e came to a place: from s to the next one.
Moved(tc, w, tp, tc2, w2, tp2, v, e, s) ==
  /\ \A a \in 1..7 :
       /\ At(tc2, w2, tp2, v, a, LiveSaves(v, Stage(a))) =>
            At(tc, w, tp, v, a, LiveSaves(v, Stage(a))) \/ (a = s + 1 /\ e \in LiveSaves(v, Stage(s)))
       /\ At(tc2, w2, tp2, v, a, Saves(v, Stage(a))) =>
            At(tc, w, tp, v, a, Saves(v, Stage(a))) \/ (a = s + 1 /\ e \in Saves(v, Stage(s)))
  /\ s \in 1..7 =>
       /\ e \in LiveSaves(v, Stage(s)) => At(tc, w, tp, v, s, LiveSaves(v, Stage(s)))
       /\ e \in Saves(v, Stage(s)) => At(tc, w, tp, v, s, Saves(v, Stage(s)))

LEMMA MovedLeft ==
  ASSUME NEW v, NEW tc, NEW w, NEW tp, NEW tc2, NEW w2, NEW tp2, NEW e, NEW from, NEW s \in 1..8,
         Left(tc, w, tp, tc2, w2, tp2, v, e, from), s = 8 \/ s \in from
  PROVE  Moved(tc, w, tp, tc2, w2, tp2, v, e, s)
<1>1. ASSUME NEW a \in 1..7
      PROVE  /\ At(tc2, w2, tp2, v, a, LiveSaves(v, Stage(a))) => At(tc, w, tp, v, a, LiveSaves(v, Stage(a)))
             /\ At(tc2, w2, tp2, v, a, Saves(v, Stage(a))) => At(tc, w, tp, v, a, Saves(v, Stage(a)))
             /\ a \in from /\ e \in LiveSaves(v, Stage(a)) => At(tc, w, tp, v, a, LiveSaves(v, Stage(a)))
             /\ a \in from /\ e \in Saves(v, Stage(a)) => At(tc, w, tp, v, a, Saves(v, Stage(a)))
  <2> DEFINE X == LiveSaves(v, Stage(a))
             K == Saves(v, Stage(a))
  <2>1. \A c \in X : ~c.over
    BY StageOf
  <2>2. At(tc2, w2, tp2, v, a, K) => At(tc, w, tp, v, a, K)
    BY DEF Left
  <2>3. a \in from /\ e \in K => At(tc, w, tp, v, a, K)
    BY DEF Left
  <2> HIDE DEF X, K
  <2>4. /\ At(tc2, w2, tp2, v, a, X) => At(tc, w, tp, v, a, X)
        /\ a \in from /\ e \in X => At(tc, w, tp, v, a, X)
    BY <2>1 DEF Left
  <2> QED
    BY <2>2, <2>3, <2>4 DEF X, K
<1> QED
  BY <1>1 DEF Moved

LEMMA MovedGiven ==
  ASSUME NEW v, NEW tc, NEW w, NEW tp, NEW tc2, NEW w2, NEW tp2, NEW tc3, NEW w3, NEW tp3, NEW e, NEW d, NEW to, NEW s \in 1..8,
         Moved(tc, w, tp, tc2, w2, tp2, v, e, s), Given(tc2, w2, tp2, tc3, w3, tp3, v, d, to),
         \A a \in 1..7 : a \in to /\ d \in Saves(v, Stage(a)) => a = s + 1 /\ e \in Saves(v, Stage(s)),
         \A a \in 1..7 : a \in to /\ d \in LiveSaves(v, Stage(a)) => a = s + 1 /\ e \in LiveSaves(v, Stage(s))
  PROVE  Moved(tc, w, tp, tc3, w3, tp3, v, e, s)
<1>1. ASSUME NEW a \in 1..7, NEW X
      PROVE  At(tc3, w3, tp3, v, a, X) => At(tc2, w2, tp2, v, a, X) \/ (a \in to /\ d \in X)
  BY DEF Given
<1>2. ASSUME NEW a \in 1..7
      PROVE  /\ At(tc3, w3, tp3, v, a, LiveSaves(v, Stage(a))) =>
                  At(tc2, w2, tp2, v, a, LiveSaves(v, Stage(a))) \/ (a = s + 1 /\ e \in LiveSaves(v, Stage(s)))
             /\ At(tc3, w3, tp3, v, a, Saves(v, Stage(a))) =>
                  At(tc2, w2, tp2, v, a, Saves(v, Stage(a))) \/ (a = s + 1 /\ e \in Saves(v, Stage(s)))
  BY <1>1
<1> QED
  BY <1>2 DEF Moved

LEMMA MovedSame ==
  ASSUME NEW v, NEW tc, NEW w, NEW tp, NEW tc2, NEW w2, NEW tp2, NEW tc3, NEW w3, NEW tp3, NEW e, NEW s,
         Moved(tc, w, tp, tc2, w2, tp2, v, e, s), Same(tc2, w2, tp2, tc3, w3, tp3, v)
  PROVE  Moved(tc, w, tp, tc3, w3, tp3, v, e, s)
<1>1. \A a \in 1..7 : \A X : At(tc3, w3, tp3, v, a, X) <=> At(tc2, w2, tp2, v, a, X)
  BY DEF Same
<1>2. ASSUME NEW a \in 1..7
      PROVE  /\ At(tc3, w3, tp3, v, a, LiveSaves(v, Stage(a))) <=> At(tc2, w2, tp2, v, a, LiveSaves(v, Stage(a)))
             /\ At(tc3, w3, tp3, v, a, Saves(v, Stage(a))) <=> At(tc2, w2, tp2, v, a, Saves(v, Stage(a)))
  BY <1>1
<1> QED
  BY <1>2 DEF Moved

\* The client has taken e, told something, and answered, or e is over.
LEMMA MovedBack ==
  ASSUME NEW v, NEW tc, NEW w, NEW tp, NEW tc2, NEW w2, NEW told, NEW tp2, NEW e \in ForumCalls(v), NEW from, NEW s \in {1, 3, 6, 8},
         Left(tc, w, tp, tc2, w2, tp, v, e, from),
         told = tp \/ (\E m \in ForumEvents : told = tp \o <<m>>),
         (e.over /\ tp2 = told) \/ (~e.over /\ \E m \in ForumReplies(v) : m.call = e /\ tp2 = told \o <<m>>),
         IF s = 8 THEN e.op \notin SaveOps ELSE s \in from /\ e.op = Stage(s)
  PROVE  Moved(tc, w, tp, tc2, w2, tp2, v, e, s)
<1>1. s \in 1..8 /\ (s = 8 \/ s \in from)
  OBVIOUS
<1>2. Moved(tc, w, tp, tc2, w2, tp, v, e, s)
  BY <1>1, MovedLeft
<1>3. Queues(tc2, w2, tp, v)
  BY DEF Left
<1>4. Moved(tc, w, tp, tc2, w2, told, v, e, s) /\ Queues(tc2, w2, told, v)
  <2>1. CASE told = tp
    BY <1>2, <1>3, <2>1
  <2>2. CASE \E m \in ForumEvents : told = tp \o <<m>>
    <3>1. Same(tc2, w2, tp, tc2, w2, told, v)
      BY <1>3, <2>2, EventTold
    <3> QED
      BY <1>2, <3>1, MovedSame DEF Same
  <2> QED
    BY <2>1, <2>2
<1>5. CASE \E m \in ForumReplies(v) : m.call = e /\ tp2 = told \o <<m>>
  <2> DEFINE to == {2, 4, 7}
  <2>1. Given(tc2, w2, told, tc2, w2, tp2, v, e, to)
    BY <1>4, <1>5, ReplyGiven
  <2>2. \A a \in 1..7 : a \in to /\ e \in Saves(v, Stage(a)) => a = s + 1 /\ e \in Saves(v, Stage(s))
    BY DEF Saves, Stage, SaveOps
  <2>3. \A a \in 1..7 : a \in to /\ e \in LiveSaves(v, Stage(a)) => a = s + 1 /\ e \in LiveSaves(v, Stage(s))
    BY DEF Saves, LiveSaves, Stage, SaveOps
  <2> HIDE DEF to
  <2> QED
    BY <1>1, <1>4, <2>1, <2>2, <2>3, MovedGiven
<1> QED
  BY <1>4, <1>5

LEMMA MovedOn ==
  ASSUME NEW v, NEW tc, NEW w, NEW tp, NEW tc2, NEW w2, NEW e \in ForumCalls(v), NEW d \in ForumWaits(v),
         Left(tc, w, tp, tc2, w, tp, v, e, {1, 3, 5}), Alike(e, d), w2 = Append(w, d)
  PROVE  Moved(tc, w, tp, tc2, w2, tp, v, e, IF e.op = "publish" THEN 5 ELSE 8)
<1> DEFINE s == IF e.op = "publish" THEN 5 ELSE 8
           from == {1, 3, 5}
           to == {6}
<1>1. s \in 1..8 /\ (s = 8 \/ s \in from)
  OBVIOUS
<1>2. Moved(tc, w, tp, tc2, w, tp, v, e, s)
  BY <1>1, MovedLeft
<1>3. Given(tc2, w, tp, tc2, w2, tp, v, d, to)
  BY WaitGiven DEF Left
<1>4. d \in ForumCalls(v) /\ d.op \in {"key", "publish"}
  BY DEF ForumWaits
<1>5. \A a \in 1..7 : a \in to /\ d \in Saves(v, Stage(a)) => a = s + 1 /\ e \in Saves(v, Stage(s))
  BY <1>4 DEF Saves, Stage, Alike
<1>6. \A a \in 1..7 : a \in to /\ d \in LiveSaves(v, Stage(a)) => a = s + 1 /\ e \in LiveSaves(v, Stage(s))
  BY <1>4 DEF Saves, LiveSaves, Stage, Alike
<1> HIDE DEF s, to
<1>7. Moved(tc, w, tp, tc2, w2, tp, v, e, s)
  BY <1>1, <1>2, <1>3, <1>5, <1>6, MovedGiven
<1> QED
  BY <1>7 DEF s

\* The replies in the queue, after an event and a reply were told.
LEMMA ToldPlaces ==
  ASSUME NEW v, NEW tp \in Seq(ForumMessages(v)), NEW told, told = tp \/ (\E m \in ForumEvents : told = tp \o <<m>>),
         NEW X, X \subseteq ForumReplies(v)
  PROVE  /\ told \in Seq(ForumMessages(v)) /\ (Some(told, X) => Some(tp, X))
         /\ \A m \in ForumReplies(v) : Some(told \o <<m>>, X) => Some(tp, X) \/ m \in X
<1>1. \A m \in ForumEvents : m \in ForumMessages(v) /\ m \notin X
  BY DEF ForumMessages, ForumEvents, ForumReplies
<1>2. told \in Seq(ForumMessages(v)) /\ (Some(told, X) => Some(tp, X))
  <2>1. CASE told = tp
    BY <2>1
  <2>2. CASE \E m \in ForumEvents : told = tp \o <<m>>
    <3>1. PICK m \in ForumEvents : told = tp \o <<m>>
      BY <2>2
    <3>2. told = Append(tp, m)
      BY <1>1, <3>1, ConcatOne
    <3> QED
      BY <1>1, <3>2, AppendOf, AppendPlaces
  <2> QED
    BY <2>1, <2>2
<1>3. ASSUME NEW m \in ForumReplies(v), Some(told \o <<m>>, X)
      PROVE  Some(tp, X) \/ m \in X
  <2>1. m \in ForumMessages(v)
    BY DEF ForumMessages
  <2>2. told \o <<m>> = Append(told, m)
    BY <1>2, <2>1, ConcatOne
  <2> QED
    BY <1>2, <1>3, <2>1, <2>2, AppendPlaces
<1> QED
  BY <1>2, <1>3

\* The answers of publishProfile that do not tell what the client holds.
Wrong(v, values, number) ==
  {m \in ForumReplies(v) : m.call \in LiveSaves(v, "publish") /\ m.ok /\ ~(m.values = values /\ m.revision = number)}

LEMMA RunCallMoves ==
  ASSUME ForumType, F!RunCall
  PROVE  LET e == Head(toClient) IN
         /\ e \in ForumCalls(visit)
         /\ \E s \in {1, 3, 5, 8} :
              /\ IF s = 8 THEN e.op \notin SaveOps ELSE e.op = Stage(s)
              /\ Moved(toClient, waiting, toPage, toClient', waiting', toPage', visit, e, s)
         /\ profile' = profile /\ revision' = revision /\ (e.op = "saveRules" \/ rules' = rules)
         /\ e.op = "saveRules" => rules' = e.rules
         /\ Some(toPage', Wrong(visit, profile, revision)) => Some(toPage, Wrong(visit, profile, revision))
<1> DEFINE e == Head(toClient)
           v == visit
           tc2 == Tail(toClient)
           places == {1, 3, 5}
           X == Wrong(v, profile, revision)
<1>1. /\ toClient # <<>> /\ e \in ForumCalls(v) /\ toClient' = tc2 /\ Runs(e)
  BY RunCallRuns
<1>2. Left(toClient, waiting, toPage, tc2, waiting, toPage, v, e, places) /\ toPage \in Seq(ForumMessages(v))
  BY <1>1, QueuesOf, CallLeft DEF Queues
<1>3. /\ profile' = profile /\ revision' = revision /\ (e.op = "saveRules" \/ rules' = rules)
      /\ e.op = "saveRules" => rules' = e.rules
  BY <1>1 DEF Runs, F!client
<1>4. X \subseteq ForumReplies(v) /\ \A m \in ForumReplies(v) : m.call = e /\ e.op # "publish" => m \notin X
  BY DEF Wrong, LiveSaves, Saves
<1> HIDE DEF e, v, tc2, X
<1>5. CASE \E d : Alike(e, d) /\ d \in ForumWaits(v) /\ waiting' = Append(waiting, d) /\ toPage' = toPage
  <2>1. PICK d : Alike(e, d) /\ d \in ForumWaits(v) /\ waiting' = Append(waiting, d) /\ toPage' = toPage
    BY <1>5
  <2>2. Moved(toClient, waiting, toPage, tc2, waiting', toPage, v, e, IF e.op = "publish" THEN 5 ELSE 8)
    BY <1>1, <1>2, <2>1, MovedOn DEF places
  <2> DEFINE s == IF e.op = "publish" THEN 5 ELSE 8
  <2>3. s \in {1, 3, 5, 8} /\ (IF s = 8 THEN e.op \notin SaveOps ELSE e.op = Stage(s))
    BY <2>1 DEF SaveOps, Stage, Alike, ForumWaits
  <2>4. Moved(toClient, waiting, toPage, tc2, waiting', toPage, v, e, s)
    BY <2>2
  <2> HIDE DEF s
  <2> QED
    BY <1>1, <1>3, <2>1, <2>3, <2>4 DEF e, v, X
<1>6. ASSUME NEW told, NEW ok, NEW found, waiting' = waiting, told = toPage \/ (\E m \in ForumEvents : told = toPage \o <<m>>),
             AnswersAfter(e, told, ok, found), e.op \notin {"publish", "key"} \/ e.op = "key"
      PROVE  /\ \E s \in {1, 3, 5, 8} :
                  /\ IF s = 8 THEN e.op \notin SaveOps ELSE e.op = Stage(s)
                  /\ Moved(toClient, waiting, toPage, tc2, waiting, toPage', v, e, s)
             /\ Some(toPage', X) => Some(toPage, X)
  <2>1. (e.over /\ toPage' = told) \/ (~e.over /\ \E m \in ForumReplies(v) : m.call = e /\ toPage' = told \o <<m>>)
    BY <1>6 DEF AnswersAfter, Answered, v
  <2> DEFINE s == IF e.op = "validate" THEN 1 ELSE IF e.op = "saveRules" THEN 3 ELSE 8
  <2>2. /\ s \in {1, 3, 6, 8} /\ s \in {1, 3, 5, 8} /\ (IF s = 8 THEN e.op \notin SaveOps ELSE s \in places /\ e.op = Stage(s))
        /\ IF s = 8 THEN e.op \notin SaveOps ELSE e.op = Stage(s)
    BY <1>6 DEF SaveOps, Stage, places
  <2> HIDE DEF s, places
  <2>3. Moved(toClient, waiting, toPage, tc2, waiting, toPage', v, e, s)
    BY <1>1, <1>2, <1>6, <2>1, <2>2, MovedBack
  <2>4. e.op # "publish"
    BY <1>6
  <2>5. Some(toPage', X) => Some(toPage, X)
    <3>1. /\ Some(told, X) => Some(toPage, X)
          /\ \A m \in ForumReplies(v) : Some(told \o <<m>>, X) => Some(toPage, X) \/ m \in X
      BY <1>2, <1>4, <1>6, ToldPlaces
    <3> QED
      BY <1>4, <2>1, <2>4, <3>1
  <2> QED
    BY <2>2, <2>3, <2>5
<1>7. CASE ~ \E d : Alike(e, d) /\ d \in ForumWaits(v) /\ waiting' = Append(waiting, d) /\ toPage' = toPage
  <2>1. /\ waiting' = waiting /\ (e.op \notin {"publish", "key"} \/ e.op = "key")
        /\ \E told, ok, found : (told = toPage \/ (\E m \in ForumEvents : told = toPage \o <<m>>)) /\ AnswersAfter(e, told, ok, found)
    BY <1>1, <1>7 DEF Runs, v
  <2>2. /\ \E s \in {1, 3, 5, 8} :
             /\ IF s = 8 THEN e.op \notin SaveOps ELSE e.op = Stage(s)
             /\ Moved(toClient, waiting, toPage, tc2, waiting, toPage', v, e, s)
        /\ Some(toPage', X) => Some(toPage, X)
    BY <1>6, <2>1
  <2> QED
    BY <1>1, <1>3, <2>1, <2>2 DEF e, v, X
<1> QED
  BY <1>5, <1>7

LEMMA WaitEndsMoves ==
  ASSUME ForumType, NEW i \in DOMAIN waiting, F!WaitEnds(i)
  PROVE  LET e == waiting[i] IN
         /\ e \in ForumCalls(visit) /\ rules' = rules
         /\ \E s \in {6, 8} :
              /\ IF s = 8 THEN e.op \notin SaveOps ELSE e.op = "publish"
              /\ Moved(toClient, waiting, toPage, toClient', waiting', toPage', visit, e, s)
         /\ e.op \notin SaveOps =>
              /\ profile' = profile /\ revision' = revision
              /\ Some(toPage', Wrong(visit, profile, revision)) => Some(toPage, Wrong(visit, profile, revision))
         /\ Some(toPage', Wrong(visit, profile', revision')) => Some(toPage, Wrong(visit, profile', revision'))
<1> DEFINE e == waiting[i]
           v == visit
           w2 == F!Without(waiting, i)
           places == IF e.op = "publish" THEN {6} ELSE {}
           X == Wrong(v, profile', revision')
<1>1. /\ i \in 1..Len(waiting) /\ (\A j \in 1..(i - 1) : waiting[j].op # e.op)
      /\ e \in ForumWaits(v) /\ waiting' = w2 /\ toClient' = toClient
      /\ Ends(e)
  BY WaitEndsEnds
<1>2. Left(toClient, waiting, toPage, toClient, w2, toPage, v, e, places) /\ toPage \in Seq(ForumMessages(v))
  BY <1>1, QueuesOf, WaitLeft DEF Queues
<1>3. /\ rules' = rules /\ e \in ForumCalls(v) /\ e.op \in {"key", "publish"}
      /\ e.op \notin SaveOps => profile' = profile /\ revision' = revision
  BY <1>1 DEF Ends, F!client, ForumWaits, SaveOps
<1>4. X \subseteq ForumReplies(v)
      /\ \A m \in ForumReplies(v) : (m.call = e /\ e.op # "publish") \/ (m.values = profile' /\ m.revision = revision') => m \notin X
  BY DEF Wrong, LiveSaves, Saves
<1> HIDE DEF e, v, w2, X
<1>5. PICK told, ok, found : (told = toPage \/ (\E m \in ForumEvents : told = toPage \o <<m>>)) /\ AnswersAfter(e, told, ok, found)
  BY <1>1 DEF Ends
<1>6. /\ \/ e.over /\ toPage' = told
         \/ ~e.over /\ \E m \in ForumReplies(v) : /\ m.call = e /\ toPage' = told \o <<m>>
                                                  /\ m.values = profile' /\ m.revision = revision'
  BY <1>5 DEF AnswersAfter, Answered, v
<1>7. Some(toPage', X) => Some(toPage, X)
  <2>1. /\ Some(told, X) => Some(toPage, X)
        /\ \A m \in ForumReplies(v) : Some(told \o <<m>>, X) => Some(toPage, X) \/ m \in X
    BY <1>2, <1>4, <1>5, ToldPlaces
  <2> QED
    BY <1>4, <1>6, <2>1
<1> DEFINE s == IF e.op = "publish" THEN 6 ELSE 8
<1>8. /\ s \in {1, 3, 6, 8} /\ s \in {6, 8} /\ (IF s = 8 THEN e.op \notin SaveOps ELSE s \in places /\ e.op = Stage(s))
      /\ IF s = 8 THEN e.op \notin SaveOps ELSE e.op = "publish"
  BY <1>3 DEF SaveOps, Stage
<1> HIDE DEF s, places
<1>9. Moved(toClient, waiting, toPage, toClient, w2, toPage', v, e, s)
  BY <1>2, <1>3, <1>5, <1>6, <1>8, MovedBack
<1>10. \E r \in {6, 8} :
         /\ IF r = 8 THEN e.op \notin SaveOps ELSE e.op = "publish"
         /\ Moved(toClient, waiting, toPage, toClient', waiting', toPage', v, e, r)
  BY <1>1, <1>8, <1>9
<1>11. e.op \notin SaveOps => (Some(toPage', Wrong(visit, profile, revision)) => Some(toPage, Wrong(visit, profile, revision)))
  BY <1>3, <1>7 DEF X, v
<1> QED
  BY <1>3, <1>7, <1>10, <1>11 DEF e, v, X

SaveCalls(v) == {c \in ForumCalls(v) : c.visit = v /\ ~c.over /\ c.op \in SaveOps}
LoadCalls(v) == {c \in ForumCalls(v) : c.visit = v /\ ~c.over /\ c.op \in {"load", "block", "unblock"}}
OtherRules(v, chosen) == {c \in SaveCalls(v) : c.rules # chosen}

\* What the profile waits for: first its load, then one save at a time.
UnderWay(tc, w, tp, v, ed) ==
  /\ SaveOrder(tc, w, tp, v)
  /\ Sole(tc, w, tp, v, SaveCalls(v)) /\ (ed.busy <=> Present(tc, w, tp, v, SaveCalls(v)))
  /\ Sole(tc, w, tp, v, LoadCalls(v)) /\ (ed.loaded => ~Present(tc, w, tp, v, LoadCalls(v)))
  /\ ~Present(tc, w, tp, v, OtherRules(v, ed.rules))
  /\ (ed.busy \/ ed.saved => ed.loaded) /\ ~(ed.busy /\ ed.saved)

\* How far the save of this page has come in the client; once it is told of, no
\* other save is to come.
Stored(tc, w, tp, v, ed, chosen, values, number) ==
  /\ \A a \in 4..7 : At(tc, w, tp, v, a, LiveSaves(v, Stage(a))) => chosen = ed.rules
  /\ ~Some(tp, Wrong(v, values, number))
  /\ ed.saved => /\ values = ed.values /\ chosen = ed.rules /\ number = ed.revision
                 /\ \A a \in 1..7 : ~At(tc, w, tp, v, a, Saves(v, Stage(a)))

SaveProfile ==
  page = "profile" => /\ UnderWay(toClient, waiting, toPage, visit, editor)
                      /\ Stored(toClient, waiting, toPage, visit, editor, rules, profile, revision)

LEMMA SaveCallsBlind ==
  ASSUME NEW v
  PROVE  /\ Blind(v, SaveCalls(v)) /\ Blind(v, LoadCalls(v)) /\ \A chosen : Blind(v, OtherRules(v, chosen))
BY DEF Blind, SaveCalls, LoadCalls, OtherRules, Alike

LEMMA LiveSaveCalls ==
  ASSUME NEW v
  PROVE  \A a \in 1..7 : LiveSaves(v, Stage(a)) \subseteq SaveCalls(v)
BY DEF LiveSaves, Saves, SaveCalls, Stage, SaveOps

LEMMA UnderWayPasses ==
  ASSUME NEW v, NEW tc, NEW w, NEW tp, NEW tc2, NEW w2, NEW tp2, NEW ed,
         Passes(tc, w, tp, tc2, w2, tp2, v), UnderWay(tc, w, tp, v, ed)
  PROVE  UnderWay(tc2, w2, tp2, v, ed)
<1>1. ASSUME NEW X, Blind(v, X)
      PROVE  /\ Sole(tc, w, tp, v, X) => Sole(tc2, w2, tp2, v, X)
             /\ Present(tc2, w2, tp2, v, X) <=> Present(tc, w, tp, v, X)
  BY <1>1 DEF Passes
<1>2. SaveOrder(tc2, w2, tp2, v)
  BY DEF Passes, UnderWay
<1>3. /\ Sole(tc2, w2, tp2, v, SaveCalls(v)) /\ Sole(tc2, w2, tp2, v, LoadCalls(v))
      /\ Present(tc2, w2, tp2, v, SaveCalls(v)) <=> Present(tc, w, tp, v, SaveCalls(v))
      /\ Present(tc2, w2, tp2, v, LoadCalls(v)) <=> Present(tc, w, tp, v, LoadCalls(v))
      /\ ~Present(tc2, w2, tp2, v, OtherRules(v, ed.rules))
  BY <1>1, SaveCallsBlind DEF UnderWay
<1> QED
  BY <1>2, <1>3 DEF UnderWay

\* A save that has come further leaves what was stored before it in place.
LEMMA StoredMoves ==
  ASSUME NEW v, NEW tc, NEW w, NEW tp, NEW tc2, NEW w2, NEW tp2, NEW ed, NEW e, NEW s \in 1..8,
         NEW chosen, NEW values, NEW number, NEW chosen2, NEW values2, NEW number2,
         SaveOrder(tc, w, tp, v), Stored(tc, w, tp, v, ed, chosen, values, number),
         IF s = 8 THEN e.op \notin SaveOps ELSE e \in Saves(v, Stage(s)),
         Moved(tc, w, tp, tc2, w2, tp2, v, e, s),
         s # 3 => chosen2 = chosen,
         s = 3 /\ e \in LiveSaves(v, Stage(s)) => chosen2 = ed.rules,
         s # 6 => values2 = values /\ number2 = number,
         ~Some(tp2, Wrong(v, values2, number2))
  PROVE  Stored(tc2, w2, tp2, v, ed, chosen2, values2, number2)
<1>1. ASSUME NEW a \in 4..7, At(tc2, w2, tp2, v, a, LiveSaves(v, Stage(a)))
      PROVE  chosen2 = ed.rules
  <2>0. a \in 1..7
    OBVIOUS
  <2>1. At(tc, w, tp, v, a, LiveSaves(v, Stage(a))) \/ (a = s + 1 /\ e \in LiveSaves(v, Stage(s)))
    BY <1>1, <2>0 DEF Moved
  <2>2. CASE s = 3
    <3>1. 3 \in 1..7 /\ ~(a <= 3)
      OBVIOUS
    <3>2. At(tc, w, tp, v, 3, Saves(v, Stage(3)))
      BY <2>2, <3>1 DEF Moved
    <3>3. ~At(tc, w, tp, v, a, LiveSaves(v, Stage(a)))
      BY <2>0, <3>1, <3>2 DEF SaveOrder
    <3> QED
      BY <2>1, <2>2, <3>3
  <2>3. CASE s # 3 /\ At(tc, w, tp, v, a, LiveSaves(v, Stage(a)))
    BY <2>3 DEF Stored
  <2>4. CASE s # 3 /\ a = s + 1 /\ e \in LiveSaves(v, Stage(s))
    <3>1. s \in 4..7
      BY <2>4
    <3>2. At(tc, w, tp, v, s, LiveSaves(v, Stage(s)))
      BY <2>4, <3>1 DEF Moved
    <3> QED
      BY <2>4, <3>1, <3>2 DEF Stored
  <2> QED
    BY <2>1, <2>2, <2>3, <2>4
<1>2. ASSUME ed.saved
      PROVE  /\ values2 = ed.values /\ chosen2 = ed.rules /\ number2 = ed.revision
             /\ \A a \in 1..7 : ~At(tc2, w2, tp2, v, a, Saves(v, Stage(a)))
  <2>1. \A a \in 1..7 : ~At(tc, w, tp, v, a, Saves(v, Stage(a)))
    BY <1>2 DEF Stored
  <2>2. s = 8 \/ s \in 1..7
    OBVIOUS
  <2>3. s = 8
    BY <2>1, <2>2 DEF Moved
  <2>4. \A a \in 1..7 : a # s + 1
    BY <2>3
  <2>5. \A a \in 1..7 : ~At(tc2, w2, tp2, v, a, Saves(v, Stage(a)))
    BY <2>1, <2>4 DEF Moved
  <2> QED
    BY <1>2, <2>3, <2>5 DEF Stored
<1> QED
  BY <1>1, <1>2 DEF Stored

LEMMA SaveRunCall ==
  ASSUME ForumType, SaveProfile, F!RunCall
  PROVE  SaveProfile'
<1>0. SUFFICES ASSUME page = "profile"
               PROVE  /\ UnderWay(toClient', waiting', toPage', visit, editor)
                      /\ Stored(toClient', waiting', toPage', visit, editor, rules', profile', revision')
  BY RunCallRuns DEF SaveProfile
<1> DEFINE e == Head(toClient)
           v == visit
<1>1. /\ UnderWay(toClient, waiting, toPage, v, editor)
      /\ Stored(toClient, waiting, toPage, v, editor, rules, profile, revision)
  BY <1>0 DEF SaveProfile
<1>2. UnderWay(toClient', waiting', toPage', v, editor)
  BY <1>1, RunCallPasses, UnderWayPasses
<1>3. /\ e \in ForumCalls(v)
      /\ profile' = profile /\ revision' = revision /\ (e.op = "saveRules" \/ rules' = rules)
      /\ e.op = "saveRules" => rules' = e.rules
      /\ Some(toPage', Wrong(v, profile, revision)) => Some(toPage, Wrong(v, profile, revision))
  BY RunCallMoves
<1>4. PICK s \in {1, 3, 5, 8} :
        /\ IF s = 8 THEN e.op \notin SaveOps ELSE e.op = Stage(s)
        /\ Moved(toClient, waiting, toPage, toClient', waiting', toPage', v, e, s)
  BY RunCallMoves
<1>5. /\ s \in 1..8 /\ (IF s = 8 THEN e.op \notin SaveOps ELSE e \in Saves(v, Stage(s)))
      /\ s # 3 => e.op # "saveRules"
      /\ s = 3 => e.op = "saveRules"
      /\ s # 6
  BY <1>3, <1>4 DEF Saves, Stage, SaveOps
<1>6. e \in LiveSaves(v, "saveRules") => e.rules = editor.rules
  <2> DEFINE X == OtherRules(v, editor.rules)
  <2>1. ~Some(toClient, X)
    BY <1>1 DEF UnderWay, Present
  <2>2. toClient \in Seq(ForumCalls(v)) /\ toClient # <<>>
    BY RunCallRuns, QueuesOf DEF Queues
  <2>3. e \notin X
    BY <2>1, <2>2, TailPlaces
  <2> QED
    BY <2>3 DEF OtherRules, SaveCalls, LiveSaves, Saves, SaveOps
<1>7. s = 3 /\ e \in LiveSaves(v, Stage(s)) => rules' = editor.rules
  BY <1>3, <1>5, <1>6 DEF Stage
<1>8. ~Some(toPage', Wrong(v, profile', revision'))
  <2>1. ~Some(toPage, Wrong(v, profile, revision))
    BY <1>1 DEF Stored
  <2> QED
    BY <1>3, <2>1
<1> HIDE DEF e, v
<1>9. SaveOrder(toClient, waiting, toPage, v)
  BY <1>1 DEF UnderWay
<1>10. Stored(toClient', waiting', toPage', v, editor, rules', profile', revision')
  BY <1>1, <1>3, <1>4, <1>5, <1>7, <1>8, <1>9, StoredMoves
<1> QED
  BY <1>2, <1>10 DEF v

LEMMA SaveWaitEnds ==
  ASSUME ForumType, SaveProfile, NEW i \in DOMAIN waiting, F!WaitEnds(i)
  PROVE  SaveProfile'
<1>0. SUFFICES ASSUME page = "profile"
               PROVE  /\ UnderWay(toClient', waiting', toPage', visit, editor)
                      /\ Stored(toClient', waiting', toPage', visit, editor, rules', profile', revision')
  BY WaitEndsEnds DEF SaveProfile
<1> DEFINE e == waiting[i]
           v == visit
<1>1. /\ UnderWay(toClient, waiting, toPage, v, editor)
      /\ Stored(toClient, waiting, toPage, v, editor, rules, profile, revision)
  BY <1>0 DEF SaveProfile
<1>2. UnderWay(toClient', waiting', toPage', v, editor)
  BY <1>1, WaitEndsPasses, UnderWayPasses
<1>3. /\ e \in ForumCalls(v) /\ rules' = rules
      /\ e.op \notin SaveOps =>
           /\ profile' = profile /\ revision' = revision
           /\ Some(toPage', Wrong(v, profile, revision)) => Some(toPage, Wrong(v, profile, revision))
      /\ Some(toPage', Wrong(v, profile', revision')) => Some(toPage, Wrong(v, profile', revision'))
  BY WaitEndsMoves
<1>4. PICK s \in {6, 8} :
        /\ IF s = 8 THEN e.op \notin SaveOps ELSE e.op = "publish"
        /\ Moved(toClient, waiting, toPage, toClient', waiting', toPage', v, e, s)
  BY WaitEndsMoves
<1>5. s \in 1..8 /\ s # 3 /\ (IF s = 8 THEN e.op \notin SaveOps ELSE e \in Saves(v, Stage(s)))
  BY <1>3, <1>4 DEF Saves, Stage
<1>6. SaveOrder(toClient, waiting, toPage, v)
  BY <1>1 DEF UnderWay
<1>7. ~Some(toPage', Wrong(v, profile', revision'))
  <2>1. CASE s = 8
    BY <1>1, <1>3, <1>4, <2>1 DEF Stored
  <2>2. CASE s = 6
    <3>1. 6 \in 1..7 /\ 7 \in 1..7 /\ ~(7 <= 6)
      OBVIOUS
    <3>2. At(toClient, waiting, toPage, v, 6, Saves(v, Stage(6)))
      BY <1>4, <1>5, <2>2, <3>1 DEF Moved
    <3>3. ~At(toClient, waiting, toPage, v, 7, LiveSaves(v, Stage(7)))
      BY <1>6, <3>1, <3>2 DEF SaveOrder
    <3>4. ~Some(toPage, Answers(v, LiveSaves(v, "publish")))
      BY <3>3 DEF At, Stage
    <3>5. \A a, b : ~Some(toPage, Wrong(v, a, b))
      BY <3>4 DEF Some, Answers, Wrong
    <3> QED
      BY <1>3, <3>5
  <2> QED
    BY <2>1, <2>2
<1>8. s # 6 => profile' = profile /\ revision' = revision
  BY <1>3, <1>4
<1> HIDE DEF e, v
<1>9. Stored(toClient', waiting', toPage', v, editor, rules', profile', revision')
  BY <1>1, <1>3, <1>4, <1>5, <1>6, <1>7, <1>8, StoredMoves
<1> QED
  BY <1>2, <1>9 DEF v

LEMMA UnderWayLeft ==
  ASSUME NEW v, NEW tc, NEW w, NEW tp, NEW tc2, NEW w2, NEW tp2, NEW ed, NEW e, NEW places,
         Left(tc, w, tp, tc2, w2, tp2, v, e, places), ~e.over, UnderWay(tc, w, tp, v, ed)
  PROVE  /\ SaveOrder(tc2, w2, tp2, v)
         /\ Sole(tc2, w2, tp2, v, SaveCalls(v)) /\ Sole(tc2, w2, tp2, v, LoadCalls(v))
         /\ e \in SaveCalls(v) => ed.busy /\ ~Present(tc2, w2, tp2, v, SaveCalls(v)) /\ e.rules = ed.rules
         /\ e \notin SaveCalls(v) => (ed.busy <=> Present(tc2, w2, tp2, v, SaveCalls(v)))
         /\ e \in LoadCalls(v) => ~ed.loaded /\ ~Present(tc2, w2, tp2, v, LoadCalls(v))
         /\ ed.loaded => ~Present(tc2, w2, tp2, v, LoadCalls(v))
         /\ ~Present(tc2, w2, tp2, v, OtherRules(v, ed.rules))
<1>1. SaveOrder(tc2, w2, tp2, v)
  BY LeftOrder DEF UnderWay
<1>2. ASSUME NEW X, \A c \in X : ~c.over
      PROVE  /\ Sole(tc, w, tp, v, X) => Sole(tc2, w2, tp2, v, X) /\ (e \in X => ~Present(tc2, w2, tp2, v, X))
             /\ e \in X => Present(tc, w, tp, v, X)
             /\ e \notin X => (Present(tc2, w2, tp2, v, X) <=> Present(tc, w, tp, v, X))
  BY <1>2 DEF Left
<1>3. /\ \A c \in SaveCalls(v) : ~c.over
      /\ \A c \in LoadCalls(v) : ~c.over
      /\ \A c \in OtherRules(v, ed.rules) : ~c.over
  BY DEF SaveCalls, LoadCalls, OtherRules
<1>4. /\ Sole(tc2, w2, tp2, v, SaveCalls(v))
      /\ e \in SaveCalls(v) => ed.busy /\ ~Present(tc2, w2, tp2, v, SaveCalls(v))
      /\ e \notin SaveCalls(v) => (ed.busy <=> Present(tc2, w2, tp2, v, SaveCalls(v)))
  BY <1>2, <1>3 DEF UnderWay
<1>5. /\ Sole(tc2, w2, tp2, v, LoadCalls(v))
      /\ e \in LoadCalls(v) => ~ed.loaded /\ ~Present(tc2, w2, tp2, v, LoadCalls(v))
      /\ ed.loaded => ~Present(tc2, w2, tp2, v, LoadCalls(v))
  BY <1>2, <1>3 DEF UnderWay
<1>6. e \notin OtherRules(v, ed.rules) /\ ~Present(tc2, w2, tp2, v, OtherRules(v, ed.rules))
  BY <1>2, <1>3 DEF UnderWay
<1> QED
  BY <1>1, <1>4, <1>5, <1>6 DEF OtherRules

LEMMA PlacesLeft ==
  ASSUME NEW v, NEW tc, NEW w, NEW tp, NEW tc2, NEW w2, NEW tp2, NEW e, NEW places,
         Left(tc, w, tp, tc2, w2, tp2, v, e, places)
  PROVE  \A a \in 1..7 :
           /\ At(tc2, w2, tp2, v, a, LiveSaves(v, Stage(a))) => At(tc, w, tp, v, a, LiveSaves(v, Stage(a)))
           /\ At(tc2, w2, tp2, v, a, Saves(v, Stage(a))) => At(tc, w, tp, v, a, Saves(v, Stage(a)))
<1>1. Moved(tc, w, tp, tc2, w2, tp2, v, e, 8)
  BY MovedLeft
<1>2. \A a \in 1..7 : a # 8 + 1
  OBVIOUS
<1> QED
  BY <1>1, <1>2 DEF Moved

\* What a page waits for when nothing it waits for was sent.
LEMMA UnderWayGiven ==
  ASSUME NEW v, NEW tc, NEW w, NEW tp, NEW tc2, NEW w2, NEW tp2, NEW d, NEW places, NEW ed,
         Given(tc, w, tp, tc2, w2, tp2, v, d, places), d.op \notin SaveOps \cup {"load", "block", "unblock"},
         UnderWay(tc, w, tp, v, ed)
  PROVE  UnderWay(tc2, w2, tp2, v, ed)
<1>1. SaveOrder(tc2, w2, tp2, v)
  BY OtherOrder DEF UnderWay
<1>2. d \notin SaveCalls(v) /\ d \notin LoadCalls(v) /\ d \notin OtherRules(v, ed.rules)
  BY DEF SaveCalls, LoadCalls, OtherRules
<1>3. ASSUME NEW X, d \notin X
      PROVE  /\ Sole(tc, w, tp, v, X) => Sole(tc2, w2, tp2, v, X)
             /\ Present(tc2, w2, tp2, v, X) <=> Present(tc, w, tp, v, X)
  BY <1>3 DEF Given
<1>4. /\ Sole(tc2, w2, tp2, v, SaveCalls(v)) /\ Sole(tc2, w2, tp2, v, LoadCalls(v))
      /\ Present(tc2, w2, tp2, v, SaveCalls(v)) <=> Present(tc, w, tp, v, SaveCalls(v))
      /\ Present(tc2, w2, tp2, v, LoadCalls(v)) <=> Present(tc, w, tp, v, LoadCalls(v))
      /\ ~Present(tc2, w2, tp2, v, OtherRules(v, ed.rules))
  BY <1>2, <1>3 DEF UnderWay
<1> QED
  BY <1>1, <1>4 DEF UnderWay

LEMMA StoredFewer ==
  ASSUME NEW v, NEW tc, NEW w, NEW tp, NEW tc2, NEW w2, NEW tp2, NEW ed, NEW chosen, NEW values, NEW number,
         Stored(tc, w, tp, v, ed, chosen, values, number),
         \A a \in 1..7 :
           /\ At(tc2, w2, tp2, v, a, LiveSaves(v, Stage(a))) => At(tc, w, tp, v, a, LiveSaves(v, Stage(a)))
           /\ At(tc2, w2, tp2, v, a, Saves(v, Stage(a))) => At(tc, w, tp, v, a, Saves(v, Stage(a))),
         Some(tp2, Wrong(v, values, number)) => Some(tp, Wrong(v, values, number))
  PROVE  Stored(tc2, w2, tp2, v, ed, chosen, values, number)
<1>1. \A a \in 4..7 : a \in 1..7
  OBVIOUS
<1> QED
  BY <1>1 DEF Stored

LEMMA StoredGiven ==
  ASSUME NEW v, NEW tc, NEW w, NEW tp, NEW tc2, NEW w2, NEW d, NEW places, NEW ed, NEW chosen, NEW values, NEW number,
         Given(tc, w, tp, tc2, w2, tp, v, d, places), d.op \notin SaveOps,
         Stored(tc, w, tp, v, ed, chosen, values, number)
  PROVE  Stored(tc2, w2, tp, v, ed, chosen, values, number)
<1>1. d \notin Saves(v, Stage(1)) /\ \A a \in 1..7 : d \notin Saves(v, Stage(a)) /\ d \notin LiveSaves(v, Stage(a))
  BY DEF Saves, LiveSaves, Stage, SaveOps
<1>2. ASSUME NEW a \in 1..7, NEW X, d \notin X
      PROVE  At(tc2, w2, tp, v, a, X) => At(tc, w, tp, v, a, X)
  BY <1>2 DEF Given
<1>3. \A a \in 1..7 :
        /\ At(tc2, w2, tp, v, a, LiveSaves(v, Stage(a))) => At(tc, w, tp, v, a, LiveSaves(v, Stage(a)))
        /\ At(tc2, w2, tp, v, a, Saves(v, Stage(a))) => At(tc, w, tp, v, a, Saves(v, Stage(a)))
  BY <1>1, <1>2
<1> QED
  BY <1>3, StoredFewer

\* Hearing an answer leaves fewer of them.
LEMMA HearsFewer ==
  ASSUME ForumType, NEW e, NEW m, NEW q, NEW places, Hears(e, m, q, places), NEW X, Some(toPage', X)
  PROVE  Some(toPage, X)
<1>1. toPage \in Seq(ForumMessages(visit))
  BY QueuesOf DEF Queues
<1>2. toPage' = toPage \/ (toPage # <<>> /\ toPage' = Tail(toPage))
  BY DEF Hears
<1> QED
  BY <1>1, <1>2, TailPlaces

\* A save is over, well or not.
LEMMA SaveHearsEnd ==
  ASSUME ForumType, NEW e, NEW m, NEW q, NEW places, Hears(e, m, q, places), e.op \in SaveOps, e.visit = visit,
         UnderWay(toClient, waiting, toPage, visit, editor),
         Stored(toClient, waiting, toPage, visit, editor, rules, profile, revision),
         ~m.ok \/ e.op = "publish", SaveHeard(e, m, q)
  PROVE  /\ UnderWay(toClient', waiting', toPage', visit, editor')
         /\ Stored(toClient', waiting', toPage', visit, editor', rules, profile, revision)
<1> DEFINE v == visit
           w2 == waiting'
           tp2 == toPage'
           ed == editor'
<1>1. /\ e \in ForumCalls(v) /\ ~e.over /\ m.ok \in BOOLEAN
      /\ Left(toClient, waiting, toPage, q, w2, tp2, v, e, places)
  BY DEF Hears, Heard
<1>2. /\ toClient' = q
      /\ ed.loaded = editor.loaded /\ ed.rules = editor.rules /\ ~ed.busy
      /\ m.ok => ed.saved /\ ed.values = m.values /\ ed.revision = m.revision
      /\ ~m.ok => ed.saved = editor.saved
  BY DEF SaveHeard
<1>3. e \in SaveCalls(v)
  BY <1>1 DEF SaveCalls
<1> HIDE DEF v, w2, tp2, ed
<1>4. /\ SaveOrder(q, w2, tp2, v) /\ Sole(q, w2, tp2, v, SaveCalls(v)) /\ Sole(q, w2, tp2, v, LoadCalls(v))
      /\ editor.busy /\ ~Present(q, w2, tp2, v, SaveCalls(v)) /\ e.rules = editor.rules
      /\ editor.loaded => ~Present(q, w2, tp2, v, LoadCalls(v))
      /\ ~Present(q, w2, tp2, v, OtherRules(v, editor.rules))
  BY <1>1, <1>3, UnderWayLeft DEF v
<1>5. editor.loaded /\ ~editor.saved
  BY <1>4 DEF UnderWay, v
<1>6. UnderWay(q, w2, tp2, v, ed)
  BY <1>2, <1>4, <1>5 DEF UnderWay
<1>7. \A a \in 1..7 :
        /\ At(q, w2, tp2, v, a, LiveSaves(v, Stage(a))) => At(toClient, waiting, toPage, v, a, LiveSaves(v, Stage(a)))
        /\ At(q, w2, tp2, v, a, Saves(v, Stage(a))) => At(toClient, waiting, toPage, v, a, Saves(v, Stage(a)))
  BY <1>1, PlacesLeft
<1>8. Some(tp2, Wrong(v, profile, revision)) => Some(toPage, Wrong(v, profile, revision))
  BY HearsFewer DEF tp2
<1>9. Stored(q, w2, tp2, v, editor, rules, profile, revision)
  BY <1>7, <1>8, StoredFewer DEF v
<1>10. CASE m.ok
  <2>1. e.op = "publish" /\ e \in LiveSaves(v, "publish")
    BY <1>1, <1>10 DEF LiveSaves, Saves, v
  <2>2. places = {2, 4, 7} /\ toPage # <<>> /\ m = Head(toPage) /\ m.call = e /\ m \in ForumReplies(v)
    BY <1>10 DEF Hears, v
  <2>3. m \notin Wrong(v, profile, revision)
    <3>1. ~Some(toPage, Wrong(v, profile, revision))
      BY DEF Stored, v
    <3>2. toPage \in Seq(ForumMessages(v))
      BY QueuesOf DEF Queues, v
    <3> QED
      BY <2>2, <3>1, <3>2, TailPlaces
  <2>4. m.values = profile /\ m.revision = revision
    BY <1>10, <2>1, <2>2, <2>3 DEF Wrong
  <2>5. 7 \in places /\ 7 \in 1..7 /\ 7 \in 4..7 /\ Stage(7) = "publish"
    BY <2>2 DEF Stage
  <2>6. Moved(toClient, waiting, toPage, q, w2, tp2, v, e, 7)
    BY <1>1, <2>5, MovedLeft
  <2>7. At(toClient, waiting, toPage, v, 7, LiveSaves(v, Stage(7)))
    BY <2>1, <2>5, <2>6 DEF Moved
  <2>8. rules = editor.rules
    BY <2>5, <2>7 DEF Stored, v
  <2>9. SaveOrder(toClient, waiting, toPage, v)
    BY DEF UnderWay, v
  <2>10. ASSUME NEW a \in 1..7
         PROVE  ~At(q, w2, tp2, v, a, Saves(v, Stage(a)))
    <3>1. CASE a = 7
      <4>1. LastAt(toClient, waiting, toPage, v, 7, LiveSaves(v, Stage(7)), Saves(v, Stage(7)))
        BY <2>5, <2>9 DEF SaveOrder
      <4>2. ~At(q, w2, tp2, v, 7, Saves(v, Stage(7)))
        BY <1>1, <2>1, <2>5, <4>1 DEF Left
      <4> QED
        BY <3>1, <4>2
    <3>2. CASE a # 7
      <4>1. ~At(toClient, waiting, toPage, v, a, Saves(v, Stage(a)))
        BY <2>5, <2>7, <2>9, <3>2 DEF SaveOrder
      <4> QED
        BY <1>7, <4>1
    <3> QED
      BY <3>1, <3>2
  <2>11. Stored(q, w2, tp2, v, ed, rules, profile, revision)
    BY <1>2, <1>9, <1>10, <2>4, <2>8, <2>10 DEF Stored
  <2> QED
    BY <1>2, <1>6, <2>11 DEF v, w2, tp2, ed
<1>11. CASE ~m.ok
  <2>1. Stored(q, w2, tp2, v, ed, rules, profile, revision)
    BY <1>2, <1>5, <1>9, <1>11 DEF Stored
  <2> QED
    BY <1>2, <1>6, <2>1 DEF v, w2, tp2, ed
<1> QED
  BY <1>1, <1>10, <1>11

\* A save goes on with its next call.
LEMMA SaveHearsOn ==
  ASSUME ForumType, NEW e, NEW m, NEW q, NEW places, Hears(e, m, q, places), e.op \in SaveOps, e.op # "publish", m.ok,
         UnderWay(toClient, waiting, toPage, visit, editor),
         Stored(toClient, waiting, toPage, visit, editor, rules, profile, revision),
         NEW d, toClient' = Append(q, d), NextSave(e, d)
  PROVE  /\ UnderWay(toClient', waiting', toPage', visit, editor)
         /\ Stored(toClient', waiting', toPage', visit, editor, rules, profile, revision)
<1> DEFINE v == visit
           w2 == waiting'
           tp2 == toPage'
           tc2 == toClient'
           to == {1, 3, 5}
           s == IF e.op = "validate" THEN 2 ELSE 4
<1>1. /\ e \in ForumCalls(v) /\ ~e.over /\ places = {2, 4, 7}
      /\ Left(toClient, waiting, toPage, q, w2, tp2, v, e, places)
  BY DEF Hears, Heard
<1>2. /\ d \in ForumCalls(v) /\ d.op = (IF e.op = "validate" THEN "saveRules" ELSE "publish")
      /\ d.visit = e.visit /\ d.rules = e.rules /\ ~d.over
  BY <1>1 DEF NextSave
<1>3. /\ s \in 1..8 /\ s \in 1..6 /\ s \in places /\ s # 8 /\ s # 3 /\ s # 6
      /\ e \in Saves(v, Stage(s)) /\ d.op = Stage(s + 1)
      /\ \A a \in 1..7 : a \in to /\ Stage(a) = d.op => a = s + 1
  BY <1>1, <1>2 DEF Saves, Stage, SaveOps
<1>4. /\ d \in SaveCalls(v) <=> e \in SaveCalls(v)
      /\ d \notin LoadCalls(v)
      /\ d \in OtherRules(v, editor.rules) <=> e \in OtherRules(v, editor.rules)
      /\ e \in SaveCalls(v) <=> e \in LiveSaves(v, Stage(s))
      /\ \A a \in 1..7 : a \in to /\ d \in Saves(v, Stage(a)) => a = s + 1 /\ e \in Saves(v, Stage(s))
      /\ \A a \in 1..7 : a \in to /\ d \in LiveSaves(v, Stage(a)) => a = s + 1 /\ e \in LiveSaves(v, Stage(s))
  <2>1. d \in SaveCalls(v) <=> e \in SaveCalls(v)
    BY <1>1, <1>2 DEF SaveCalls, SaveOps
  <2>2. d \notin LoadCalls(v)
    BY <1>2 DEF LoadCalls
  <2>3. d \in OtherRules(v, editor.rules) <=> e \in OtherRules(v, editor.rules)
    BY <1>2, <2>1 DEF OtherRules
  <2> HIDE DEF s, to, v
  <2>4. e \in SaveCalls(v) <=> e \in LiveSaves(v, Stage(s))
    BY <1>1, <1>3 DEF SaveCalls, LiveSaves, Saves
  <2>5. \A a \in 1..7 : a \in to /\ d \in Saves(v, Stage(a)) => a = s + 1 /\ e \in Saves(v, Stage(s))
    BY <1>3 DEF Saves
  <2>6. \A a \in 1..7 : a \in to /\ d \in LiveSaves(v, Stage(a)) => a = s + 1 /\ e \in LiveSaves(v, Stage(s))
    BY <1>1, <1>2, <1>3 DEF Saves, LiveSaves
  <2> QED
    BY <2>1, <2>2, <2>3, <2>4, <2>5, <2>6
<1> HIDE DEF s, v, w2, tp2, tc2
<1>5. Given(q, w2, tp2, tc2, w2, tp2, v, d, to)
  BY <1>1, <1>2, CallGiven DEF Left, tc2
<1>6. /\ Sole(q, w2, tp2, v, SaveCalls(v)) /\ Sole(q, w2, tp2, v, LoadCalls(v))
      /\ e \in SaveCalls(v) => editor.busy /\ ~Present(q, w2, tp2, v, SaveCalls(v)) /\ e.rules = editor.rules
      /\ e \notin SaveCalls(v) => (editor.busy <=> Present(q, w2, tp2, v, SaveCalls(v)))
      /\ editor.loaded => ~Present(q, w2, tp2, v, LoadCalls(v))
      /\ ~Present(q, w2, tp2, v, OtherRules(v, editor.rules))
  BY <1>1, UnderWayLeft DEF v
<1> HIDE DEF to
<1>7. SaveOrder(toClient, waiting, toPage, v)
  BY DEF UnderWay, v
<1>8. SaveOrder(tc2, w2, tp2, v)
  <2>1. d \in LiveSaves(v, Stage(s + 1)) => e \in LiveSaves(v, Stage(s))
    <3>1. d \in ForumCalls(v) /\ d.op \in SaveOps /\ ~d.over
      BY <1>2 DEF SaveOps
    <3>2. d \in LiveSaves(v, Stage(s + 1)) => d.visit = v
      BY DEF LiveSaves
    <3> QED
      BY <1>4, <3>1, <3>2 DEF SaveCalls
  <2>2. \A a \in 1..7 : a \in to /\ d \in Saves(v, Stage(a)) => a = s + 1
    BY <1>4
  <2> QED
    BY <1>1, <1>3, <1>5, <1>7, <2>1, <2>2, MoveOrder
<1>9. /\ Sole(tc2, w2, tp2, v, SaveCalls(v)) /\ (editor.busy <=> Present(tc2, w2, tp2, v, SaveCalls(v)))
  <2>1. (d \in SaveCalls(v) => ~Present(q, w2, tp2, v, SaveCalls(v)))
    BY <1>4, <1>6
  <2>2. /\ Sole(tc2, w2, tp2, v, SaveCalls(v))
        /\ Present(tc2, w2, tp2, v, SaveCalls(v)) <=> Present(q, w2, tp2, v, SaveCalls(v)) \/ d \in SaveCalls(v)
    BY <1>5, <1>6, <2>1 DEF Given
  <2> QED
    BY <1>4, <1>6, <2>2
<1>10. Sole(tc2, w2, tp2, v, LoadCalls(v)) /\ (editor.loaded => ~Present(tc2, w2, tp2, v, LoadCalls(v)))
  BY <1>4, <1>5, <1>6 DEF Given
<1>11. ~Present(tc2, w2, tp2, v, OtherRules(v, editor.rules))
  <2>1. d \notin OtherRules(v, editor.rules)
    BY <1>4, <1>6 DEF OtherRules
  <2> QED
    BY <1>5, <1>6, <2>1 DEF Given
<1>12. UnderWay(tc2, w2, tp2, v, editor)
  BY <1>8, <1>9, <1>10, <1>11 DEF UnderWay
<1>13. Moved(toClient, waiting, toPage, q, w2, tp2, v, e, s)
  BY <1>1, <1>3, MovedLeft
<1>14. Moved(toClient, waiting, toPage, tc2, w2, tp2, v, e, s)
  BY <1>3, <1>4, <1>5, <1>13, MovedGiven
<1>15. ~Some(tp2, Wrong(v, profile, revision))
  <2>1. ~Some(toPage, Wrong(v, profile, revision))
    BY DEF Stored, v
  <2> QED
    BY <2>1, HearsFewer DEF tp2
<1>16. Stored(tc2, w2, tp2, v, editor, rules, profile, revision)
  <2>1. Stored(toClient, waiting, toPage, v, editor, rules, profile, revision)
    BY DEF v
  <2> QED
    BY <1>3, <1>7, <1>14, <1>15, <2>1, StoredMoves
<1> QED
  BY <1>12, <1>16 DEF v, w2, tp2, tc2

\* The profile is loaded, or is not.
LEMMA SaveHearsLoad ==
  ASSUME ForumType, NEW e, NEW m, NEW q, NEW places, Hears(e, m, q, places), e.op \in {"load", "block", "unblock"}, e.visit = visit,
         UnderWay(toClient, waiting, toPage, visit, editor),
         Stored(toClient, waiting, toPage, visit, editor, rules, profile, revision),
         LoadHeard(m, q)
  PROVE  /\ UnderWay(toClient', waiting', toPage', visit, editor')
         /\ Stored(toClient', waiting', toPage', visit, editor', rules, profile, revision)
<1> DEFINE v == visit
           w2 == waiting'
           tp2 == toPage'
           ed == editor'
<1>1. /\ e \in ForumCalls(v) /\ ~e.over /\ m.ok \in BOOLEAN
      /\ Left(toClient, waiting, toPage, q, w2, tp2, v, e, places)
  BY DEF Hears, Heard
<1>2. e \in LoadCalls(v) /\ e \notin SaveCalls(v)
  BY <1>1 DEF LoadCalls, SaveCalls, SaveOps
<1> HIDE DEF v, w2, tp2, ed
<1>3. /\ SaveOrder(q, w2, tp2, v) /\ Sole(q, w2, tp2, v, SaveCalls(v)) /\ Sole(q, w2, tp2, v, LoadCalls(v))
      /\ editor.busy <=> Present(q, w2, tp2, v, SaveCalls(v))
      /\ ~editor.loaded /\ ~Present(q, w2, tp2, v, LoadCalls(v))
  BY <1>1, <1>2, UnderWayLeft DEF v
<1>4. ~editor.busy /\ ~editor.saved
  BY <1>3 DEF UnderWay, v
<1>5. /\ toClient' = q /\ ~ed.busy /\ ~ed.saved
  BY <1>4 DEF LoadHeard, ed
<1>6. ~Present(q, w2, tp2, v, OtherRules(v, ed.rules))
  <2>1. OtherRules(v, ed.rules) \subseteq SaveCalls(v)
    BY DEF OtherRules
  <2>2. Answers(v, OtherRules(v, ed.rules)) \subseteq Answers(v, SaveCalls(v))
    BY <2>1 DEF Answers
  <2> QED
    BY <1>3, <1>4, <2>1, <2>2, NonePlaces DEF Present
<1>7. UnderWay(q, w2, tp2, v, ed)
  BY <1>3, <1>4, <1>5, <1>6 DEF UnderWay
<1>8. \A a \in 1..7 : ~At(q, w2, tp2, v, a, LiveSaves(v, Stage(a)))
  <2>1. \A a \in 1..7 : LiveSaves(v, Stage(a)) \subseteq SaveCalls(v)
    BY LiveSaveCalls
  <2>2. \A a \in 1..7 : Answers(v, LiveSaves(v, Stage(a))) \subseteq Answers(v, SaveCalls(v))
    BY <2>1 DEF Answers
  <2>3. ~Some(q, SaveCalls(v)) /\ ~Some(w2, SaveCalls(v)) /\ ~Some(tp2, Answers(v, SaveCalls(v)))
    BY <1>3, <1>4 DEF Present
  <2> QED
    BY <2>1, <2>2, <2>3, NonePlaces DEF At
<1>9. ~Some(tp2, Wrong(v, profile, revision))
  <2>1. ~Some(toPage, Wrong(v, profile, revision))
    BY DEF Stored, v
  <2> QED
    BY <2>1, HearsFewer DEF tp2
<1>10. Stored(q, w2, tp2, v, ed, rules, profile, revision)
  <2>1. \A a \in 4..7 : a \in 1..7
    OBVIOUS
  <2> QED
    BY <1>5, <1>8, <1>9, <2>1 DEF Stored
<1> QED
  BY <1>5, <1>7, <1>10 DEF v, w2, tp2, ed

\* What is no save of this page, and no load, leaves the profile as it is.
LEMMA SaveHearsElse ==
  ASSUME ForumType, NEW e, NEW m, NEW q, NEW places, Hears(e, m, q, places), e \notin SaveCalls(visit),
         UnderWay(toClient, waiting, toPage, visit, editor),
         Stored(toClient, waiting, toPage, visit, editor, rules, profile, revision),
         toClient' = q \/ \E d \in ForumCalls(visit) : toClient' = Append(q, d) /\ d.op \notin SaveOps \cup {"load", "block", "unblock"}
  PROVE  /\ UnderWay(toClient', waiting', toPage', visit, editor)
         /\ Stored(toClient', waiting', toPage', visit, editor, rules, profile, revision)
<1> DEFINE v == visit
           w2 == waiting'
           tp2 == toPage'
           tc2 == toClient'
<1>1. /\ e \in ForumCalls(v) /\ ~e.over /\ m.ok \in BOOLEAN
      /\ Left(toClient, waiting, toPage, q, w2, tp2, v, e, places)
  BY DEF Hears, Heard
<1> HIDE DEF v, w2, tp2, tc2
<1>2. /\ SaveOrder(q, w2, tp2, v) /\ Sole(q, w2, tp2, v, SaveCalls(v)) /\ Sole(q, w2, tp2, v, LoadCalls(v))
      /\ editor.busy <=> Present(q, w2, tp2, v, SaveCalls(v))
      /\ editor.loaded => ~Present(q, w2, tp2, v, LoadCalls(v))
      /\ ~Present(q, w2, tp2, v, OtherRules(v, editor.rules))
  BY <1>1, UnderWayLeft DEF v
<1>3. UnderWay(q, w2, tp2, v, editor)
  BY <1>2 DEF UnderWay, v
<1>4. Stored(q, w2, tp2, v, editor, rules, profile, revision)
  <2>1. Some(tp2, Wrong(v, profile, revision)) => Some(toPage, Wrong(v, profile, revision))
    BY HearsFewer DEF tp2
  <2> QED
    BY <1>1, <2>1, PlacesLeft, StoredFewer DEF v
<1>5. CASE tc2 # q
  <2>1. PICK d \in ForumCalls(v) : tc2 = Append(q, d) /\ d.op \notin SaveOps \cup {"load", "block", "unblock"}
    BY <1>5 DEF v, tc2
  <2>2. Given(q, w2, tp2, tc2, w2, tp2, v, d, {1, 3, 5})
    BY <1>1, <2>1, CallGiven DEF Left
  <2> QED
    BY <1>3, <1>4, <2>1, <2>2, UnderWayGiven, StoredGiven DEF v, w2, tp2, tc2
<1> QED
  BY <1>3, <1>4, <1>5 DEF v, w2, tp2, tc2

LEMMA SaveGoesOn ==
  ASSUME ForumType, NEW e, NEW m, NEW q, NEW places, Hears(e, m, q, places), SaveProfile
  PROVE  SaveProfile'
<1>1. SUFFICES ASSUME page = "profile"
               PROVE  /\ UnderWay(toClient', waiting', toPage', visit, editor')
                      /\ Stored(toClient', waiting', toPage', visit, editor', rules, profile, revision)
  BY DEF SaveProfile, Hears, F!client
<1>2. /\ UnderWay(toClient, waiting, toPage, visit, editor)
      /\ Stored(toClient, waiting, toPage, visit, editor, rules, profile, revision)
  BY <1>1 DEF SaveProfile
<1>3. e \in ForumCalls(visit) /\ Goes(e, m, q)
  BY DEF Hears, Heard
<1>4. CASE e.op \in SaveOps /\ SaveHeard(e, m, q)
  <2>1. CASE m.ok /\ e.op # "publish" /\ editor' = editor /\ \E d : toClient' = Append(q, d) /\ NextSave(e, d)
    BY <1>2, <1>4, <2>1, SaveHearsOn
  <2>2. CASE ~m.ok \/ e.op = "publish"
    <3>1. CASE e.visit = visit
      BY <1>2, <1>4, <2>2, <3>1, SaveHearsEnd
    <3>2. CASE e.visit # visit
      <4>1. toClient' = q /\ editor' = editor /\ e \notin SaveCalls(visit)
        BY <1>4, <2>2, <3>2 DEF SaveHeard, SaveCalls
      <4> QED
        BY <1>2, <4>1, SaveHearsElse
    <3> QED
      BY <3>1, <3>2
  <2> QED
    BY <1>4, <2>1, <2>2 DEF SaveHeard
<1>5. CASE e.op \in {"load", "block", "unblock"} /\ e.visit = visit /\ LoadHeard(m, q)
  BY <1>2, <1>5, SaveHearsLoad
<1>6. CASE /\ e.op \notin SaveOps /\ editor' = editor
           /\ toClient' = q \/ \E d \in ForumCalls(visit) : toClient' = Append(q, d) /\ d.op \notin SaveOps \cup {"load", "block", "unblock"}
  <2>1. e \notin SaveCalls(visit)
    BY <1>6 DEF SaveCalls
  <2> QED
    BY <1>2, <1>6, <2>1, SaveHearsElse
<1>7. MountHeard(e, m, q) \/ SearchHeard(e, m, q) \/ ExchangesHeard(e, m, q) \/ KeyHeard(e, m, q) \/ WaveHeard(e, m, q) =>
        /\ editor' = editor
        /\ toClient' = q \/ \E d \in ForumCalls(visit) : toClient' = Append(q, d) /\ d.op \notin SaveOps \cup {"load", "block", "unblock"}
  BY DEF MountHeard, SearchHeard, ExchangesHeard, KeyHeard, WaveHeard, ReloadCall, SearchCall, PageCall, SaveOps
<1> QED
  BY <1>3, <1>4, <1>5, <1>6, <1>7 DEF Goes

LEMMA SaveEvent ==
  ASSUME ForumType, EventHears, SaveProfile
  PROVE  SaveProfile'
<1>1. SUFFICES ASSUME page = "profile"
               PROVE  /\ UnderWay(toClient, waiting, toPage', visit, editor)
                      /\ Stored(toClient, waiting, toPage', visit, editor, rules, profile, revision)
  BY DEF SaveProfile, EventHears, F!client
<1> DEFINE v == visit
           tp2 == toPage'
<1>2. /\ UnderWay(toClient, waiting, toPage, v, editor)
      /\ Stored(toClient, waiting, toPage, v, editor, rules, profile, revision)
      /\ Same(toClient, waiting, toPage, toClient, waiting, tp2, v)
      /\ toPage \in Seq(ForumMessages(v)) /\ toPage # <<>> /\ tp2 = Tail(toPage)
  BY <1>1, QueuesOf DEF SaveProfile, EventHears, Queues
<1> HIDE DEF v, tp2
<1>3. ASSUME NEW X
      PROVE  /\ Sole(toClient, waiting, toPage, v, X) => Sole(toClient, waiting, tp2, v, X)
             /\ Present(toClient, waiting, tp2, v, X) <=> Present(toClient, waiting, toPage, v, X)
             /\ \A a \in 1..7 : At(toClient, waiting, tp2, v, a, X) <=> At(toClient, waiting, toPage, v, a, X)
  BY <1>2 DEF Same
<1>4. SaveOrder(toClient, waiting, tp2, v)
  BY <1>2, SameOrder DEF UnderWay
<1>5. UnderWay(toClient, waiting, tp2, v, editor)
  BY <1>2, <1>3, <1>4 DEF UnderWay
<1>6. Some(tp2, Wrong(v, profile, revision)) => Some(toPage, Wrong(v, profile, revision))
  BY <1>2, TailPlaces
<1>7. Stored(toClient, waiting, tp2, v, editor, rules, profile, revision)
  BY <1>2, <1>3, <1>6, StoredFewer
<1> QED
  BY <1>5, <1>7 DEF v, tp2

LEMMA SaveActs ==
  ASSUME ForumType, Acts, SaveProfile
  PROVE  SaveProfile'
<1>1. SUFFICES ASSUME page = "profile"
               PROVE  /\ UnderWay(toClient', waiting, toPage, visit, editor')
                      /\ Stored(toClient', waiting, toPage, visit, editor', rules, profile, revision)
  <2>1. Kept
    BY DEF Acts, Finds, LoadsMore, RequestsKey, SendsFirstWave, Composes, Edits, SaveBegins, BlocksElsewhere
  <2> QED
    BY <2>1 DEF SaveProfile, Kept, F!client
<1> DEFINE v == visit
           tc2 == toClient'
           ed == editor'
<1>2. /\ UnderWay(toClient, waiting, toPage, v, editor)
      /\ Stored(toClient, waiting, toPage, v, editor, rules, profile, revision)
      /\ Queues(toClient, waiting, toPage, v)
  BY <1>1, QueuesOf DEF SaveProfile
<1>3. ~editor.busy => \A chosen : ~Present(toClient, waiting, toPage, v, OtherRules(v, chosen))
  <2>1. \A chosen : OtherRules(v, chosen) \subseteq SaveCalls(v) /\ Answers(v, OtherRules(v, chosen)) \subseteq Answers(v, SaveCalls(v))
    BY DEF OtherRules, Answers
  <2>2. ~editor.busy => ~Present(toClient, waiting, toPage, v, SaveCalls(v))
    BY <1>2 DEF UnderWay
  <2> QED
    BY <2>1, <2>2, NonePlaces DEF Present
<1>4. ~editor.busy => \A a \in 1..7 : ~At(toClient, waiting, toPage, v, a, LiveSaves(v, Stage(a)))
  <2>1. \A a \in 1..7 : /\ LiveSaves(v, Stage(a)) \subseteq SaveCalls(v)
                        /\ Answers(v, LiveSaves(v, Stage(a))) \subseteq Answers(v, SaveCalls(v))
    BY LiveSaveCalls DEF Answers
  <2>2. ~editor.busy => ~Present(toClient, waiting, toPage, v, SaveCalls(v))
    BY <1>2 DEF UnderWay
  <2> QED
    BY <2>1, <2>2, NonePlaces DEF At, Present
<1>5. \A a \in 4..7 : a \in 1..7
  OBVIOUS
<1>6. CASE Composes
  <2>1. tc2 = toClient /\ ed = editor
    BY <1>6 DEF Composes
  <2> QED
    BY <1>2, <2>1
<1>7. CASE Edits
  <2>1. tc2 = toClient /\ editor.loaded /\ ~editor.busy /\ ed.loaded /\ ~ed.busy /\ ~ed.saved
    BY <1>7 DEF Edits
  <2> HIDE DEF v, tc2, ed
  <2>2. UnderWay(toClient, waiting, toPage, v, ed)
    BY <1>2, <1>3, <2>1 DEF UnderWay
  <2>3. Stored(toClient, waiting, toPage, v, ed, rules, profile, revision)
    BY <1>2, <1>4, <1>5, <2>1 DEF Stored
  <2> QED
    BY <2>1, <2>2, <2>3 DEF v, tc2, ed
<1>8. CASE SaveBegins
  <2>1. /\ editor.loaded /\ ~editor.busy /\ ed.loaded /\ ed.busy /\ ~ed.saved /\ ed.rules = editor.rules
    BY <1>8 DEF SaveBegins
  <2>2. PICK d : tc2 = Append(toClient, d) /\ PageCall(d) /\ d.op = "validate" /\ d.rules = editor.rules
    BY <1>8 DEF SaveBegins
  <2>3. d \in ForumCalls(v) /\ d \in SaveCalls(v) /\ d \notin LoadCalls(v) /\ d \notin OtherRules(v, editor.rules)
    BY <2>2 DEF PageCall, SaveCalls, LoadCalls, OtherRules, SaveOps
  <2>4. \A a \in 1..7 : a \in {1, 3, 5} /\ d \in Saves(v, Stage(a)) => a = 1
    BY <2>2 DEF Saves, Stage
  <2> DEFINE to == {1, 3, 5}
  <2>5. Given(toClient, waiting, toPage, tc2, waiting, toPage, v, d, to)
    BY <1>2, <2>2, <2>3, CallGiven
  <2>6. \A a \in 1..7 : a \in to /\ d \in Saves(v, Stage(a)) => a = 1
    BY <2>4
  <2> HIDE DEF v, tc2, ed, to
  <2>7. SaveOrder(tc2, waiting, toPage, v)
    <3> DEFINE t == 1
    <3>1. /\ t \in 1..7 /\ (\A b \in 1..7 : ~(b < t))
          /\ \A a \in 1..7 : a \in to /\ d \in Saves(v, Stage(a)) => a = t
      BY <2>6
    <3>2. SaveOrder(toClient, waiting, toPage, v) /\ \A a \in 1..7 : ~At(toClient, waiting, toPage, v, a, LiveSaves(v, Stage(a)))
      BY <1>2, <1>4, <2>1 DEF UnderWay
    <3> HIDE DEF t
    <3> QED
      BY <2>5, <3>1, <3>2, GiveOrder
  <2>8. UnderWay(tc2, waiting, toPage, v, ed)
    <3>1. /\ Sole(toClient, waiting, toPage, v, SaveCalls(v)) /\ ~Present(toClient, waiting, toPage, v, SaveCalls(v))
          /\ Sole(toClient, waiting, toPage, v, LoadCalls(v)) /\ ~Present(toClient, waiting, toPage, v, LoadCalls(v))
          /\ ~Present(toClient, waiting, toPage, v, OtherRules(v, editor.rules))
      BY <1>2, <2>1 DEF UnderWay
    <3>2. Sole(tc2, waiting, toPage, v, SaveCalls(v)) /\ Present(tc2, waiting, toPage, v, SaveCalls(v))
      BY <2>3, <2>5, <3>1 DEF Given
    <3>3. Sole(tc2, waiting, toPage, v, LoadCalls(v)) /\ ~Present(tc2, waiting, toPage, v, LoadCalls(v))
      BY <2>3, <2>5, <3>1 DEF Given
    <3>4. ~Present(tc2, waiting, toPage, v, OtherRules(v, editor.rules))
      BY <2>3, <2>5, <3>1 DEF Given
    <3> QED
      BY <2>1, <2>7, <3>2, <3>3, <3>4 DEF UnderWay
  <2>9. \A a \in 4..7 : ~At(tc2, waiting, toPage, v, a, LiveSaves(v, Stage(a)))
    <3>1. ASSUME NEW a \in 4..7, At(tc2, waiting, toPage, v, a, LiveSaves(v, Stage(a)))
          PROVE  FALSE
      <4>1. a \in 1..7 /\ a # 1
        OBVIOUS
      <4>2. a \in to /\ d \in LiveSaves(v, Stage(a))
        BY <1>4, <2>1, <2>5, <3>1, <4>1 DEF Given
      <4> QED
        BY <2>6, <4>1, <4>2 DEF LiveSaves
    <3> QED
      BY <3>1
  <2>10. Stored(tc2, waiting, toPage, v, ed, rules, profile, revision)
    BY <1>2, <2>1, <2>9 DEF Stored
  <2> QED
    BY <2>8, <2>10 DEF v, tc2, ed
<1> QED
  BY <1>1, <1>6, <1>7, <1>8 DEF Acts, Finds, LoadsMore, RequestsKey, SendsFirstWave, BlocksElsewhere

LEMMA SaveMounts ==
  ASSUME ForumType, Mounts
  PROVE  SaveProfile'
<1> DEFINE n == visit'
           ed == editor'
           tc2 == toClient'
           to == {1, 3, 5}
<1>1. SUFFICES ASSUME page' = "profile"
               PROVE  /\ UnderWay(tc2, waiting, toPage, n, ed)
                      /\ Stored(tc2, waiting, toPage, n, ed, rules, profile, revision)
  BY DEF SaveProfile, Mounts, F!client
<1>2. n = visit + 1 /\ visit \in Nat /\ Queues(toClient, waiting, toPage, visit)
  BY QueuesOf DEF Mounts, ForumType, ForumPage
<1>3. PICK d \in ForumCalls(n) : tc2 = Append(toClient, d) /\ d.visit = n /\ ~d.over /\ d.op = "load"
  BY <1>1 DEF Mounts
<1>4. ~ed.loaded /\ ~ed.busy /\ ~ed.saved
  BY DEF Mounts, Blank
<1> HIDE DEF n, ed, tc2
<1>5. /\ Queues(toClient, waiting, toPage, n) /\ SaveOrder(toClient, waiting, toPage, n)
      /\ \A X : (\A c \in X : c.visit = n) =>
           /\ Sole(toClient, waiting, toPage, n, X) /\ ~Present(toClient, waiting, toPage, n, X)
           /\ \A a \in 1..7 : ~At(toClient, waiting, toPage, n, a, X)
  BY <1>2, NextVisit
<1>6. Given(toClient, waiting, toPage, tc2, waiting, toPage, n, d, to)
  BY <1>3, <1>5, CallGiven
<1>7. /\ \A c \in SaveCalls(n) : c.visit = n
      /\ \A c \in LoadCalls(n) : c.visit = n
      /\ \A c \in OtherRules(n, ed.rules) : c.visit = n
      /\ \A a \in 1..7 : \A c \in LiveSaves(n, Stage(a)) : c.visit = n
      /\ d \notin SaveCalls(n) /\ d \notin OtherRules(n, ed.rules) /\ d.op \notin SaveOps
      /\ \A a \in 1..7 : d \notin LiveSaves(n, Stage(a))
  BY <1>3 DEF SaveCalls, LoadCalls, OtherRules, LiveSaves, Saves, SaveOps, Stage
<1> HIDE DEF to
<1>8. Sole(tc2, waiting, toPage, n, SaveCalls(n)) /\ ~Present(tc2, waiting, toPage, n, SaveCalls(n))
  <2>1. Sole(toClient, waiting, toPage, n, SaveCalls(n)) /\ ~Present(toClient, waiting, toPage, n, SaveCalls(n))
    BY <1>5, <1>7
  <2> QED
    BY <1>6, <1>7, <2>1 DEF Given
<1>9. Sole(tc2, waiting, toPage, n, LoadCalls(n))
  <2>1. Sole(toClient, waiting, toPage, n, LoadCalls(n)) /\ ~Present(toClient, waiting, toPage, n, LoadCalls(n))
    BY <1>5, <1>7
  <2> QED
    BY <1>6, <2>1 DEF Given
<1>10. ~Present(tc2, waiting, toPage, n, OtherRules(n, ed.rules))
  <2>1. ~Present(toClient, waiting, toPage, n, OtherRules(n, ed.rules))
    BY <1>5, <1>7
  <2> QED
    BY <1>6, <1>7, <2>1 DEF Given
<1>11. SaveOrder(tc2, waiting, toPage, n)
  BY <1>5, <1>6, <1>7, OtherOrder
<1>12. UnderWay(tc2, waiting, toPage, n, ed)
  BY <1>4, <1>8, <1>9, <1>10, <1>11 DEF UnderWay
<1>13. \A a \in 1..7 : ~At(tc2, waiting, toPage, n, a, LiveSaves(n, Stage(a)))
  <2>1. ASSUME NEW a \in 1..7
        PROVE  ~At(tc2, waiting, toPage, n, a, LiveSaves(n, Stage(a)))
    <3> DEFINE X == LiveSaves(n, Stage(a))
    <3>1. (\A c \in X : c.visit = n) /\ d \notin X
      BY <1>7
    <3> HIDE DEF X
    <3>2. ~At(toClient, waiting, toPage, n, a, X)
      BY <1>5, <3>1
    <3>3. ~At(tc2, waiting, toPage, n, a, X)
      BY <1>6, <3>1, <3>2 DEF Given
    <3> QED
      BY <3>3 DEF X
  <2> QED
    BY <2>1
<1>14. ~Some(toPage, Wrong(n, profile, revision))
  <2> DEFINE X == LiveSaves(n, "publish")
  <2>1. 7 \in 1..7 /\ Stage(7) = "publish"
    BY DEF Stage
  <2>2. \A c \in X : c.visit = n
    BY DEF LiveSaves
  <2> HIDE DEF X
  <2>3. ~At(toClient, waiting, toPage, n, 7, X)
    BY <1>5, <2>1, <2>2
  <2>4. ~Some(toPage, Answers(n, X))
    BY <2>3 DEF At
  <2> QED
    BY <2>4 DEF Some, Answers, Wrong, X
<1>15. Stored(tc2, waiting, toPage, n, ed, rules, profile, revision)
  <2>1. \A a \in 4..7 : a \in 1..7
    OBVIOUS
  <2> QED
    BY <1>4, <1>13, <1>14, <2>1 DEF Stored
<1> QED
  BY <1>12, <1>15

-----------------------------------------------------------------------------
(* Forum: the invariant, and what it gives.                                *)

ForumInv == ForumType /\ BusyForum /\ SaveProfile

LEMMA ForumInvInit ==
  ASSUME F!Init
  PROVE  ForumInv
BY ForumTypeInit DEF ForumInv, BusyForum, SaveProfile

LEMMA ForumSteps ==
  ASSUME ForumType, F!Next
  PROVE  \/ Mounts \/ Acts
         \/ F!RunCall \/ (\E i \in DOMAIN waiting : F!WaitEnds(i))
         \/ (\E e, m, q, places : Hears(e, m, q, places))
         \/ EventHears
<1>1. CASE F!Member
  BY <1>1, MemberActs
<1>2. CASE F!HearReply
  BY <1>2, HearReplyHears
<1>3. CASE F!TimeOut
  BY <1>3, TimeOutHears
<1>4. CASE F!HearEvent
  BY <1>4, HearEventHears
<1> QED
  BY <1>1, <1>2, <1>3, <1>4 DEF F!Next

LEMMA ForumInvNext ==
  ASSUME ForumInv, F!Next
  PROVE  ForumInv'
<1>1. ForumType /\ BusyForum /\ SaveProfile
  BY DEF ForumInv
<1>2. CASE Mounts
  BY <1>1, <1>2, MountsTypes, BusyMounts, SaveMounts DEF ForumInv
<1>3. CASE Acts
  BY <1>1, <1>3, ActsTypes, BusyActs, SaveActs DEF ForumInv
<1>4. CASE F!RunCall
  <2>1. ForumType' /\ Passes(toClient, waiting, toPage, toClient', waiting', toPage', visit)
    BY <1>1, <1>4, RunCallPasses
  <2>2. UNCHANGED <<page, visit, forum>>
    BY <1>1, <1>4, RunCallRuns
  <2>3. BusyForum'
    BY <1>1, <2>1, <2>2, AwaitingPasses, LoadingPasses DEF BusyForum, BusyWith
  <2> QED
    BY <1>1, <1>4, <2>1, <2>3, SaveRunCall DEF ForumInv
<1>5. CASE \E i \in DOMAIN waiting : F!WaitEnds(i)
  <2>0. PICK i \in DOMAIN waiting : F!WaitEnds(i)
    BY <1>5
  <2>1. ForumType' /\ Passes(toClient, waiting, toPage, toClient', waiting', toPage', visit)
    BY <1>1, <2>0, WaitEndsPasses
  <2>2. UNCHANGED <<page, visit, forum>>
    BY <1>1, <2>0, WaitEndsEnds
  <2>3. BusyForum'
    BY <1>1, <2>1, <2>2, AwaitingPasses, LoadingPasses DEF BusyForum, BusyWith
  <2> QED
    BY <1>1, <2>0, <2>1, <2>3, SaveWaitEnds DEF ForumInv
<1>6. CASE \E e, m, q, places : Hears(e, m, q, places)
  BY <1>1, <1>6, HearsTypes, BusyHears, SaveGoesOn DEF ForumInv
<1>7. CASE EventHears
  BY <1>1, <1>7, EventTypes, BusyEvent, SaveEvent DEF ForumInv
<1> QED
  BY <1>1, <1>2, <1>3, <1>4, <1>5, <1>6, <1>7, ForumSteps

LEMMA ForumInvSaved ==
  ASSUME ForumInv
  PROVE  F!SavedIsStored
BY DEF ForumInv, SaveProfile, Stored, F!SavedIsStored

\* A call of a set that is under way is one whose answer is awaited.
LEMMA PresentIsAwaited ==
  ASSUME ForumType, NEW X, \A c \in X : c.visit = visit /\ ~c.over
  PROVE  Present(toClient, waiting, toPage, visit, X) <=> \E c \in X : c \in F!Awaited
<1>1. /\ DOMAIN toClient = 1..Len(toClient) /\ DOMAIN waiting = 1..Len(waiting) /\ DOMAIN toPage = 1..Len(toPage)
      /\ \A i \in 1..Len(toPage) : toPage[i] \in ForumMessages(visit)
  BY QueuesOf DEF Queues
<1>2. \A i \in 1..Len(toPage) : toPage[i] \in Answers(visit, X) <=> toPage[i].type = "reply" /\ toPage[i].call \in X
  BY <1>1 DEF Answers, ForumMessages, ForumReplies, ForumEvents
<1> QED
  BY <1>1, <1>2 DEF Present, Some, F!Awaited, F!Replies

LEMMA AwaitedCalls ==
  ASSUME ForumType, NEW c \in F!Awaited
  PROVE  c \in ForumCalls(visit) /\ c.visit = visit /\ ~c.over
<1>1. /\ DOMAIN toClient = 1..Len(toClient) /\ DOMAIN waiting = 1..Len(waiting) /\ DOMAIN toPage = 1..Len(toPage)
      /\ \A i \in 1..Len(toPage) : toPage[i] \in ForumMessages(visit)
      /\ \A i \in 1..Len(toClient) : toClient[i] \in ForumCalls(visit)
      /\ \A i \in 1..Len(waiting) : waiting[i] \in ForumCalls(visit)
  BY QueuesOf DEF Queues, ForumWaits
<1>2. \A i \in 1..Len(toPage) : toPage[i].type = "reply" => toPage[i].call \in ForumCalls(visit)
  BY <1>1 DEF ForumMessages, ForumReplies, ForumEvents
<1> QED
  BY <1>1, <1>2 DEF F!Awaited, F!Replies

LEMMA AwaitingIsExact ==
  ASSUME ForumType, NEW kind, NEW peers \in SUBSET Nat, Awaiting(toClient, waiting, toPage, visit, kind, peers)
  PROVE  peers = {c.peer : c \in {d \in F!Awaited : KindOf(d) = kind}}
<1>1. ASSUME NEW p \in Nat
      PROVE  p \in peers <=> \E c \in F!Awaited : c.peer = p /\ KindOf(c) = kind
  <2> DEFINE X == PeerCalls(visit, kind, p)
  <2>1. \A c \in X : c.visit = visit /\ ~c.over /\ c.peer = p /\ KindOf(c) = kind
    BY DEF PeerCalls
  <2>2. \A c \in F!Awaited : c.peer = p /\ KindOf(c) = kind => c \in X
    BY AwaitedCalls DEF PeerCalls
  <2>3. p \in peers <=> Present(toClient, waiting, toPage, visit, X)
    BY DEF Awaiting
  <2> HIDE DEF X
  <2>4. Present(toClient, waiting, toPage, visit, X) <=> \E c \in X : c \in F!Awaited
    BY <2>1, PresentIsAwaited
  <2> QED
    BY <2>1, <2>2, <2>3, <2>4
<1>2. \A c \in F!Awaited : c.peer \in Nat
  BY AwaitedCalls DEF ForumCalls, ForumCall
<1> QED
  BY <1>1, <1>2

LEMMA ForumInvBusy ==
  ASSUME ForumInv
  PROVE  F!BusyIsAwaited
<1>1. ForumType /\ BusyForum /\ SaveProfile
  BY DEF ForumInv
<1>2. ASSUME page = "forum"
      PROVE  /\ forum.loading \/ forum.more =>
                  \E c \in F!Awaited : \/ c.op \in {"schema", "exchanges"} /\ c.for = "page"
                                       \/ c.op \in {"schema", "discover"} /\ c.gen = forum.requestGen
             /\ forum.keyBusy = {c.peer : c \in {d \in F!Awaited : d.op = "key" \/ (d.op = "exchanges" /\ d.for = "key")}}
             /\ forum.waveBusy = {c.peer : c \in {d \in F!Awaited : d.op = "wave"}}
  <2>1. BusyWith(toClient, waiting, toPage, visit, forum) /\ forum.keyBusy \in SUBSET Nat /\ forum.waveBusy \in SUBSET Nat
    BY <1>1, <1>2 DEF BusyForum, ForumType, ForumPage, ForumStates
  <2>2. \A c : /\ KindOf(c) = "wave" <=> c.op = "wave"
               /\ KindOf(c) = "key" <=> c.op = "key" \/ (c.op = "exchanges" /\ c.for = "key")
    BY DEF KindOf
  <2>3. forum.keyBusy = {c.peer : c \in {d \in F!Awaited : KindOf(d) = "key"}}
    BY <1>1, <2>1, AwaitingIsExact DEF BusyWith
  <2>4. forum.waveBusy = {c.peer : c \in {d \in F!Awaited : KindOf(d) = "wave"}}
    BY <1>1, <2>1, AwaitingIsExact DEF BusyWith
  <2>5. forum.loading \/ forum.more =>
          \/ Present(toClient, waiting, toPage, visit, SearchCalls(visit, forum.requestGen))
          \/ Present(toClient, waiting, toPage, visit, PageCalls(visit))
    BY <2>1 DEF BusyWith, Loading
  <2>6. /\ \A c \in SearchCalls(visit, forum.requestGen) : c.visit = visit /\ ~c.over /\ c.op \in {"schema", "discover"} /\ c.gen = forum.requestGen
        /\ \A c \in PageCalls(visit) : c.visit = visit /\ ~c.over /\ c.op \in {"schema", "exchanges"} /\ c.for = "page"
    BY DEF SearchCalls, PageCalls
  <2>7. forum.loading \/ forum.more =>
          \E c \in F!Awaited : c \in SearchCalls(visit, forum.requestGen) \/ c \in PageCalls(visit)
    BY <1>1, <2>5, <2>6, PresentIsAwaited
  <2>8. {d \in F!Awaited : KindOf(d) = "key"} = {d \in F!Awaited : d.op = "key" \/ (d.op = "exchanges" /\ d.for = "key")}
    BY <2>2
  <2>9. {d \in F!Awaited : KindOf(d) = "wave"} = {d \in F!Awaited : d.op = "wave"}
    BY <2>2
  <2> QED
    BY <2>3, <2>4, <2>6, <2>7, <2>8, <2>9
<1>3. ASSUME page = "profile"
      PROVE  editor.busy <=> \E c \in F!Awaited : c.op \in {"validate", "saveRules", "publish"}
  <2>1. editor.busy <=> Present(toClient, waiting, toPage, visit, SaveCalls(visit))
    BY <1>1, <1>3 DEF SaveProfile, UnderWay
  <2>2. \A c \in SaveCalls(visit) : c.visit = visit /\ ~c.over /\ c.op \in {"validate", "saveRules", "publish"}
    BY DEF SaveCalls, SaveOps
  <2>3. \A c \in F!Awaited : c.op \in {"validate", "saveRules", "publish"} => c \in SaveCalls(visit)
    BY <1>1, AwaitedCalls DEF SaveCalls, SaveOps
  <2>4. Present(toClient, waiting, toPage, visit, SaveCalls(visit)) <=> \E c \in SaveCalls(visit) : c \in F!Awaited
    BY <1>1, <2>2, PresentIsAwaited
  <2> QED
    BY <2>1, <2>2, <2>3, <2>4
<1> QED
  BY <1>2, <1>3 DEF F!BusyIsAwaited

-----------------------------------------------------------------------------
(* Forum: the theorems.                                                    *)

LEMMA ForumInvKept ==
  ASSUME ForumInv, UNCHANGED F!vars
  PROVE  ForumInv'
<1>1. UNCHANGED <<rules, profile, revision, blocked, exchanges, senderSlots, toClient, toPage, waiting, page, visit, forum, editor>>
  BY DEF F!vars, F!client, F!port
<1>2. ForumType'
  BY <1>1 DEF ForumInv, ForumType, ForumClient, ForumPage, ForumPort
<1>3. BusyForum'
  BY <1>1 DEF ForumInv, BusyForum
<1>4. SaveProfile'
  BY <1>1 DEF ForumInv, SaveProfile
<1> QED
  BY <1>2, <1>3, <1>4 DEF ForumInv

LEMMA ForumMoves ==
  ASSUME [Next]_vars, area' = "forum"
  PROVE  area = "forum" /\ (F!Next \/ UNCHANGED F!vars)
BY DEF Next, GroupsStep, ForumStep, AdminStep, ListsStep, vars, forumOnly, savers, wavers,
       F!vars, F!client, F!port

\* What is in the queues and on the pages of the forum and of the profile: each
\* flag that says that a page is busy has one call under way that will clear it,
\* and a save comes to the client in the order in which it was made.
THEOREM ForumInvHolds == Spec => [](area = "forum" => ForumInv)
<1> DEFINE Inv == area = "forum" => ForumInv
<1>1. Init => Inv
  BY ForumInvInit DEF Init
<1>2. Inv /\ [Next]_vars => Inv'
  <2> SUFFICES ASSUME Inv, [Next]_vars, area' = "forum"
               PROVE  ForumInv'
    OBVIOUS
  <2>1. ForumInv /\ (F!Next \/ UNCHANGED F!vars)
    BY ForumMoves
  <2> QED
    BY <2>1, ForumInvNext, ForumInvKept
<1> QED
  BY <1>1, <1>2, PTL DEF Spec

\* What the profile says is saved is what the client holds.
THEOREM SavedIsStoredHolds == Spec => []SavedIsStored
<1>1. (area = "forum" => ForumInv) => SavedIsStored
  BY ForumInvSaved DEF SavedIsStored
<1> QED
  BY <1>1, ForumInvHolds, PTL

\* A page of the forum or of the profile is busy exactly while a call that it
\* made is under way.
THEOREM BusyIsAwaitedHolds == Spec => []BusyIsAwaited
<1>1. (area = "forum" => ForumInv) => BusyIsAwaited
  BY ForumInvBusy DEF BusyIsAwaited
<1> QED
  BY <1>1, ForumInvHolds, PTL

-----------------------------------------------------------------------------
(* Forum: the members it is given, a page of them at a time.               *)

\* Who matches under the rules and the profile of some moment, and the page of
\* them from a number on.
MatchedUnder(u, b, f) == {m \in F!Members : m \in f \cap (u \ Offline) /\ m \notin b}
FoundUnder(u, b, f, at) ==
  LET all == MatchedUnder(u, b, f)
      next == at + PageSize
  IN [entries |-> {m \in all : at <= F!Rank(m, all) /\ F!Rank(m, all) < next},
      cursor |-> IF next < F!Cardinality(all) THEN next ELSE 0]

\* Those up to a cursor; all of them where there is none.
UpTo(all, n) == IF n = 0 THEN all ELSE {m \in all : F!Rank(m, all) < n}

LEMMA FoundNow ==
  ASSUME NEW f, NEW at
  PROVE  /\ F!Matched(f) = MatchedUnder(rules \cap profile, blocked, f)
         /\ F!Found(f, at) = FoundUnder(rules \cap profile, blocked, f, at)
<1>1. F!Matched(f) = MatchedUnder(rules \cap profile, blocked, f)
  BY DEF F!Matched, F!Matching, MatchedUnder
<1> QED
  BY <1>1, Zenon DEF F!Found, FoundUnder

\* As many come before a member as there are others at most.
LEMMA RankOf ==
  ASSUME NEW all \in SUBSET F!Members, NEW m \in all
  PROVE  F!Rank(m, all) \in Nat /\ F!Cardinality(all) \in Nat /\ F!Rank(m, all) < F!Cardinality(all)
<1> DEFINE before == {k \in all : k < m}
<1>1. IsFiniteSet(F!Members) /\ m \in Nat
  BY PagesAssumption, FS_Interval DEF F!Members, F!ForumAssumption
<1>2. IsFiniteSet(all)
  BY <1>1, FS_Subset
<1>3. /\ IsFiniteSet(before) /\ Cardinality(before) <= Cardinality(all)
      /\ Cardinality(all) = Cardinality(before) => all = before
  BY <1>2, FS_Subset
<1>4. m \notin before
  BY <1>1
<1>5. Cardinality(before) \in Nat /\ Cardinality(all) \in Nat
  BY <1>2, <1>3, FS_CardinalityType
<1>6. F!Rank(m, all) = Cardinality(before)
  BY Zenon DEF F!Rank, F!Cardinality, Cardinality
<1>7. F!Cardinality(all) = Cardinality(all)
  BY DEF F!Cardinality, Cardinality
<1> HIDE DEF before
<1> QED
  BY <1>3, <1>4, <1>5, <1>6, <1>7

\* The first page is all up to the cursor it comes with, and the next one
\* completes those up to a cursor to those up to the next.
LEMMA PagesGrow ==
  ASSUME NEW u, NEW b, NEW f, NEW at \in Nat,
         NEW all, all = MatchedUnder(u, b, f), NEW x, x = FoundUnder(u, b, f, at)
  PROVE  /\ at = 0 => x.entries = UpTo(all, x.cursor)
         /\ at # 0 => UpTo(all, at) \cup x.entries = UpTo(all, x.cursor)
         /\ x.entries \cap b = {}
<1> DEFINE next == at + PageSize
           size == F!Cardinality(all)
<1>1. all \in SUBSET F!Members /\ all \cap b = {}
  BY DEF MatchedUnder
<1>2. next \in Nat /\ next # 0 /\ at < next
  BY PagesAssumption DEF F!ForumAssumption
<1>3. /\ x.entries = {m \in all : at <= F!Rank(m, all) /\ F!Rank(m, all) < next}
      /\ x.cursor = IF next < size THEN next ELSE 0
  BY DEF FoundUnder
<1>4. \A m \in all : F!Rank(m, all) \in Nat /\ size \in Nat /\ F!Rank(m, all) < size
  BY <1>1, RankOf
<1> HIDE DEF next, size
<1>5. \A m \in all : m \in UpTo(all, x.cursor) <=> F!Rank(m, all) < next
  BY <1>2, <1>3, <1>4 DEF UpTo
<1>6. UpTo(all, x.cursor) \subseteq all /\ UpTo(all, at) \subseteq all /\ x.entries \subseteq all
  BY <1>3 DEF UpTo
<1>7. ASSUME at = 0 PROVE x.entries = UpTo(all, x.cursor)
  <2>1. \A m \in all : m \in x.entries <=> m \in UpTo(all, x.cursor)
    BY <1>3, <1>4, <1>5, <1>7
  <2> QED
    BY <1>6, <2>1
<1>8. ASSUME at # 0 PROVE UpTo(all, at) \cup x.entries = UpTo(all, x.cursor)
  <2>1. \A m \in all : m \in UpTo(all, at) <=> F!Rank(m, all) < at
    BY <1>8 DEF UpTo
  <2>2. \A m \in all : m \in UpTo(all, at) \cup x.entries <=> m \in UpTo(all, x.cursor)
    BY <1>2, <1>3, <1>4, <1>5, <2>1
  <2> QED
    BY <1>6, <2>2
<1> QED
  BY <1>1, <1>6, <1>7, <1>8

-----------------------------------------------------------------------------
(* Queues: an element of E comes after each element of X.                  *)

Followed(q, X, E) == \A i \in 1..Len(q) : q[i] \in X => \E j \in 1..Len(q) : i < j /\ q[j] \in E

LEMMA TailFollowed ==
  ASSUME NEW S, NEW q \in Seq(S), q # <<>>, NEW X, NEW E, Followed(q, X, E)
  PROVE  Followed(Tail(q), X, E) /\ (Head(q) \in X => Some(Tail(q), E))
<1> DEFINE rest == Tail(q)
<1>1. /\ Len(rest) = Len(q) - 1 /\ Len(q) \in Nat \ {0}
      /\ \A i \in 1..(Len(q) - 1) : i + 1 \in 1..Len(q) /\ rest[i] = q[i + 1]
      /\ Head(q) = q[1] /\ 1 \in 1..Len(q)
  BY TailOf
<1> HIDE DEF rest
<1>2. \A i \in 1..Len(rest) : i \in Nat /\ i > 0 /\ i + 1 \in 1..Len(q) /\ rest[i] = q[i + 1]
  BY <1>1
<1>3. \A j \in 1..Len(q) : j > 1 => j - 1 \in 1..Len(rest) /\ rest[j - 1] = q[j]
  <2> SUFFICES ASSUME NEW j \in 1..Len(q), j > 1
               PROVE  j - 1 \in 1..Len(rest) /\ rest[j - 1] = q[j]
    OBVIOUS
  <2>1. j - 1 \in 1..Len(rest) /\ (j - 1) + 1 = j
    BY <1>1
  <2> QED
    BY <1>2, <2>1
<1>4. Followed(rest, X, E)
  <2> SUFFICES ASSUME NEW i \in 1..Len(rest), rest[i] \in X
               PROVE  \E j \in 1..Len(rest) : i < j /\ rest[j] \in E
    BY DEF Followed
  <2>1. PICK j \in 1..Len(q) : i + 1 < j /\ q[j] \in E
    BY <1>2 DEF Followed
  <2>2. j > 1 /\ i < j - 1
    BY <1>1, <1>2, <2>1
  <2>3. j - 1 \in 1..Len(rest) /\ rest[j - 1] \in E
    BY <1>3, <2>1, <2>2
  <2> QED
    BY <2>2, <2>3
<1>5. ASSUME q[1] \in X PROVE Some(rest, E)
  <2>1. PICK j \in 1..Len(q) : 1 < j /\ q[j] \in E
    BY <1>1, <1>5 DEF Followed
  <2>2. j - 1 \in 1..Len(rest) /\ rest[j - 1] \in E
    BY <1>1, <1>3, <2>1
  <2> QED
    BY <2>2 DEF Some
<1> QED
  BY <1>1, <1>4, <1>5 DEF rest

LEMMA AppendFollowed ==
  ASSUME NEW S, NEW q \in Seq(S), NEW e \in S, NEW X, NEW E, e \notin X, Followed(q, X, E) \/ e \in E
  PROVE  Followed(Append(q, e), X, E)
<1> DEFINE r == Append(q, e)
           n == Len(q)
<1>1. /\ Len(r) = n + 1 /\ n \in Nat
      /\ \A i \in 1..n : i \in 1..(n + 1) /\ r[i] = q[i]
      /\ r[n + 1] = e
  BY AppendOf
<1> HIDE DEF r
<1> SUFFICES ASSUME NEW i \in 1..Len(r), r[i] \in X
             PROVE  \E j \in 1..Len(r) : i < j /\ r[j] \in E
  BY DEF Followed, r
<1>2. i \in 1..n /\ q[i] \in X
  BY <1>1
<1>3. CASE e \in E
  <2>1. n + 1 \in 1..Len(r) /\ i < n + 1
    BY <1>1, <1>2
  <2> QED
    BY <1>1, <1>3, <2>1
<1>4. CASE Followed(q, X, E)
  <2>1. PICK j \in 1..n : i < j /\ q[j] \in E
    BY <1>2, <1>4 DEF Followed
  <2> QED
    BY <1>1, <2>1
<1> QED
  BY <1>3, <1>4

-----------------------------------------------------------------------------
(* Forum: what is told and not heard yet.                                  *)

Contacts == {m \in ForumEvents : m.type = "contacts"}
Decisions == {m \in ForumEvents : m.type = "key-decision"}

\* Answers that are no longer true, of members and of exchanges, and those that
\* say that a call failed that never does.
StaleFinds(v, b) ==
  {m \in ForumReplies(v) :
     m.call.op = "discover" /\ m.ok /\ m.found # FoundUnder(m.under, b, m.call.set, m.call.at)}
StaleReads(v, x) == {m \in ForumReplies(v) : m.exchanges # x}
Refusals(v) == {m \in ForumReplies(v) : m.call.op \in {"schema", "exchanges"} /\ ~m.ok}

\* An event tells of what has changed since an answer.
Told(tp, v, b, x) ==
  /\ Followed(tp, StaleFinds(v, b), Contacts)
  /\ Followed(tp, StaleReads(v, x), Decisions)
  /\ ~Some(tp, Refusals(v))
ForumTold == Told(toPage, visit, blocked, exchanges)

LEMMA EventIsNoReply ==
  ASSUME NEW v, NEW m \in ForumEvents
  PROVE  m \notin ForumReplies(v) /\ m \in ForumMessages(v)
BY DEF ForumEvents, ForumReplies, ForumMessages

LEMMA ToldTail ==
  ASSUME NEW v, NEW tp \in Seq(ForumMessages(v)), tp # <<>>, NEW b, NEW x, Told(tp, v, b, x)
  PROVE  /\ Told(Tail(tp), v, b, x)
         /\ Head(tp) \in StaleFinds(v, b) => Some(Tail(tp), Contacts)
         /\ Head(tp) \in StaleReads(v, x) => Some(Tail(tp), Decisions)
         /\ Head(tp) \notin Refusals(v)
BY TailFollowed, TailPlaces DEF Told

\* A change is told by its event, whatever was true before.
LEMMA ToldEvent ==
  ASSUME NEW v, NEW tp \in Seq(ForumMessages(v)), NEW m \in ForumEvents, NEW b, NEW x, NEW b2, NEW x2, Told(tp, v, b, x),
         b2 = b \/ m \in Contacts, x2 = x \/ m \in Decisions
  PROVE  Told(tp \o <<m>>, v, b2, x2)
<1>1. m \in ForumMessages(v) /\ m \notin ForumReplies(v)
  BY EventIsNoReply
<1>2. m \notin StaleFinds(v, b2) /\ m \notin StaleReads(v, x2) /\ m \notin Refusals(v)
  BY <1>1 DEF StaleFinds, StaleReads, Refusals
<1>3. tp \o <<m>> = Append(tp, m)
  BY <1>1, ConcatOne
<1>4. Followed(Append(tp, m), StaleFinds(v, b2), Contacts)
  BY <1>1, <1>2, AppendFollowed DEF Told
<1>5. Followed(Append(tp, m), StaleReads(v, x2), Decisions)
  BY <1>1, <1>2, AppendFollowed DEF Told
<1>6. ~Some(Append(tp, m), Refusals(v))
  BY <1>1, <1>2, AppendPlaces DEF Told
<1> QED
  BY <1>3, <1>4, <1>5, <1>6 DEF Told

LEMMA ToldReply ==
  ASSUME NEW v, NEW tp \in Seq(ForumMessages(v)), NEW m \in ForumReplies(v), NEW b, NEW x, Told(tp, v, b, x),
         m \notin StaleFinds(v, b), m \notin StaleReads(v, x), m \notin Refusals(v)
  PROVE  Told(tp \o <<m>>, v, b, x)
<1>1. m \in ForumMessages(v)
  BY DEF ForumMessages
<1>3. tp \o <<m>> = Append(tp, m)
  BY <1>1, ConcatOne
<1>4. Followed(Append(tp, m), StaleFinds(v, b), Contacts)
  BY <1>1, AppendFollowed DEF Told
<1>5. Followed(Append(tp, m), StaleReads(v, x), Decisions)
  BY <1>1, AppendFollowed DEF Told
<1>6. ~Some(Append(tp, m), Refusals(v))
  BY <1>1, AppendPlaces DEF Told
<1> QED
  BY <1>3, <1>4, <1>5, <1>6 DEF Told

\* An answer is true when it is given.
LEMMA ToldAnswer ==
  ASSUME NEW e, NEW told \in Seq(ForumMessages(visit)), NEW ok, NEW found, AnswersAfter(e, told, ok, found),
         Told(told, visit, blocked', exchanges'),
         e.op \in {"schema", "exchanges"} => ok,
         e.op = "discover" /\ ok => found = FoundUnder(rules \cap profile, blocked', e.set, e.at)
  PROVE  Told(toPage', visit, blocked', exchanges')
<1>1. CASE toPage' = told
  BY <1>1
<1>2. CASE \E m : Answered(e, m) /\ m.ok = ok /\ m.found = found /\ toPage' = told \o <<m>>
  <2>1. PICK m : Answered(e, m) /\ m.ok = ok /\ m.found = found /\ toPage' = told \o <<m>>
    BY <1>2
  <2>2. m \in ForumReplies(visit) /\ m.call = e /\ m.under = rules \cap profile /\ m.exchanges = exchanges'
    BY <2>1 DEF Answered
  <2>3. m \notin StaleReads(visit, exchanges') /\ m \notin Refusals(visit)
    BY <2>1, <2>2 DEF StaleReads, Refusals
  <2>4. m \notin StaleFinds(visit, blocked')
    BY <2>1, <2>2 DEF StaleFinds
  <2> QED
    BY <2>1, <2>2, <2>3, <2>4, ToldReply
<1> QED
  BY <1>1, <1>2 DEF AnswersAfter

\* What was told stays, in front of what is answered.
LEMMA AnswerLeaves ==
  ASSUME NEW e, NEW told \in Seq(ForumMessages(visit)), NEW ok, NEW found, AnswersAfter(e, told, ok, found), NEW X, Some(told, X)
  PROVE  Some(toPage', X)
<1>1. CASE toPage' = told
  BY <1>1
<1>2. CASE \E m : Answered(e, m) /\ toPage' = told \o <<m>>
  <2>1. PICK m : m \in ForumReplies(visit) /\ toPage' = told \o <<m>>
    BY <1>2 DEF Answered
  <2>2. m \in ForumMessages(visit)
    BY <2>1 DEF ForumMessages
  <2>3. told \o <<m>> = Append(told, m)
    BY <2>2, ConcatOne
  <2>4. Some(Append(told, m), X)
    BY <2>2, AppendPlaces
  <2> QED
    BY <2>1, <2>3, <2>4
<1> QED
  BY <1>1, <1>2 DEF AnswersAfter

\* A step of the client keeps what was told, and tells what it changes.
ClientTells ==
  /\ ForumTold'
  /\ blocked' = blocked \/ Some(toPage', Contacts)
  /\ exchanges' = exchanges \/ Some(toPage', Decisions)
  /\ Some(toPage, Contacts) => Some(toPage', Contacts)
  /\ Some(toPage, Decisions) => Some(toPage', Decisions)

\* An answer that changes neither.
LEMMA AnswerTells ==
  ASSUME ForumType, ForumTold, UNCHANGED <<visit, blocked, exchanges>>, NEW e, NEW ok, NEW found,
         AnswersAfter(e, toPage, ok, found),
         e.op \in {"schema", "exchanges"} => ok,
         e.op = "discover" /\ ok => found = FoundUnder(rules \cap profile, blocked, e.set, e.at)
  PROVE  ClientTells
<1>1. toPage \in Seq(ForumMessages(visit))
  BY DEF ForumType, ForumPort
<1>2. Told(toPage, visit, blocked', exchanges')
  BY DEF ForumTold
<1>3. Told(toPage', visit, blocked', exchanges')
  BY <1>1, <1>2, ToldAnswer
<1> QED
  BY <1>1, <1>3, AnswerLeaves DEF ClientTells, ForumTold

\* An event and an answer after it.
LEMMA EventTells ==
  ASSUME ForumType, ForumTold, visit' = visit, NEW m \in ForumEvents, NEW e, NEW ok, NEW found,
         AnswersAfter(e, toPage \o <<m>>, ok, found),
         e.op \notin {"schema", "exchanges", "discover"},
         blocked' = blocked \/ m \in Contacts, exchanges' = exchanges \/ m \in Decisions
  PROVE  ClientTells
<1>1. toPage \in Seq(ForumMessages(visit)) /\ m \in ForumMessages(visit)
  BY EventIsNoReply DEF ForumType, ForumPort
<1> DEFINE told == toPage \o <<m>>
<1>2. told = Append(toPage, m) /\ told \in Seq(ForumMessages(visit))
  BY <1>1, ConcatOne, AppendOf
<1>3. Told(told, visit, blocked', exchanges')
  BY <1>1, ToldEvent DEF ForumTold
<1>4. ASSUME NEW X, Some(toPage, X) \/ m \in X PROVE Some(told, X)
  <2>1. Some(Append(toPage, m), X)
    BY <1>1, <1>4, AppendPlaces
  <2> QED
    BY <1>2, <2>1
<1> HIDE DEF told
<1>5. AnswersAfter(e, told, ok, found)
  BY DEF told
<1>6. Told(toPage', visit, blocked', exchanges')
  BY <1>2, <1>3, <1>5, ToldAnswer
<1>7. \A X : Some(told, X) => Some(toPage', X)
  BY <1>2, <1>5, AnswerLeaves
<1> QED
  BY <1>4, <1>6, <1>7 DEF ClientTells, ForumTold

LEMMA RunCallTells ==
  ASSUME ForumType, ForumTold, F!RunCall
  PROVE  ClientTells
<1> DEFINE e == Head(toClient)
<1>1. Runs(e) /\ visit' = visit
  BY RunCallRuns
<1> HIDE DEF e
<1>2. CASE UNCHANGED <<F!client, toPage>>
  BY <1>1, <1>2 DEF ClientTells, ForumTold, F!client
<1>3. CASE e.op = "discover" /\ UNCHANGED F!client /\ AnswersAfter(e, toPage, TRUE, F!Found(e.set, e.at))
  <2> DEFINE yes == TRUE
             found == F!Found(e.set, e.at)
  <2>1. AnswersAfter(e, toPage, yes, found) /\ UNCHANGED <<visit, blocked, exchanges>>
    BY <1>1, <1>3 DEF F!client
  <2>2. found = FoundUnder(rules \cap profile, blocked, e.set, e.at) /\ e.op \notin {"schema", "exchanges"}
    BY <1>3, FoundNow
  <2> HIDE DEF yes, found
  <2> QED
    BY <2>1, <2>2, AnswerTells
<1>4. CASE e.op \in {"key", "wave", "validate"} /\ UNCHANGED F!client /\ AnswersAfter(e, toPage, FALSE, F!Nothing)
  <2> DEFINE no == FALSE
  <2>1. AnswersAfter(e, toPage, no, F!Nothing) /\ UNCHANGED <<visit, blocked, exchanges>> /\ e.op \notin {"schema", "exchanges", "discover"}
    BY <1>1, <1>4 DEF F!client
  <2> HIDE DEF no
  <2> QED
    BY <2>1, AnswerTells
<1>5. CASE /\ e.op # "discover" /\ UNCHANGED <<blocked, exchanges>>
           /\ AnswersAfter(e, toPage, TRUE, F!Nothing)
  <2> DEFINE yes == TRUE
  <2>1. AnswersAfter(e, toPage, yes, F!Nothing) /\ UNCHANGED <<visit, blocked, exchanges>> /\ e.op # "discover" /\ yes
    BY <1>1, <1>5
  <2> HIDE DEF yes
  <2> QED
    BY <2>1, AnswerTells
<1>6. CASE /\ e.op \in {"block", "unblock"} /\ UNCHANGED exchanges
           /\ \E m \in ForumEvents : m.type = "contacts" /\ AnswersAfter(e, toPage \o <<m>>, TRUE, F!Nothing)
  <2> DEFINE yes == TRUE
  <2>1. PICK m \in ForumEvents : m.type = "contacts" /\ AnswersAfter(e, toPage \o <<m>>, yes, F!Nothing)
    BY <1>6
  <2>2. m \in Contacts /\ e.op \notin {"schema", "exchanges", "discover"} /\ exchanges' = exchanges /\ visit' = visit
    BY <1>1, <1>6, <2>1 DEF Contacts
  <2> HIDE DEF yes
  <2> QED
    BY <2>1, <2>2, EventTells
<1> QED
  <2>1. CASE /\ e.op \in {"schema", "exchanges", "load", "validate"} /\ UNCHANGED F!client
             /\ AnswersAfter(e, toPage, TRUE, F!Nothing)
    BY <1>5, <2>1 DEF F!client
  <2> QED
    BY <1>1, <1>2, <1>3, <1>4, <1>5, <1>6, <2>1 DEF Runs

LEMMA WaitEndsTells ==
  ASSUME ForumType, ForumTold, NEW i \in DOMAIN waiting, F!WaitEnds(i)
  PROVE  ClientTells
<1> DEFINE e == waiting[i]
<1>1. Ends(e) /\ visit' = visit
  BY WaitEndsEnds
<1> HIDE DEF e
<1>2. CASE /\ e.op = "key" /\ UNCHANGED blocked
           /\ \E m \in ForumEvents : m.type = "key-decision" /\ AnswersAfter(e, toPage \o <<m>>, TRUE, F!Nothing)
  <2> DEFINE yes == TRUE
  <2>1. PICK m \in ForumEvents : m.type = "key-decision" /\ AnswersAfter(e, toPage \o <<m>>, yes, F!Nothing)
    BY <1>2
  <2>2. m \in Decisions /\ e.op \notin {"schema", "exchanges", "discover"} /\ blocked' = blocked /\ visit' = visit
    BY <1>1, <1>2, <2>1 DEF Decisions
  <2> HIDE DEF yes
  <2> QED
    BY <2>1, <2>2, EventTells
<1>3. CASE e.op = "key" /\ UNCHANGED F!client /\ AnswersAfter(e, toPage, FALSE, F!Nothing)
  <2> DEFINE no == FALSE
  <2>1. AnswersAfter(e, toPage, no, F!Nothing) /\ UNCHANGED <<visit, blocked, exchanges>> /\ e.op \notin {"schema", "exchanges", "discover"}
    BY <1>1, <1>3 DEF F!client
  <2> HIDE DEF no
  <2> QED
    BY <2>1, AnswerTells
<1>4. CASE e.op = "publish" /\ UNCHANGED <<blocked, exchanges>> /\ AnswersAfter(e, toPage, TRUE, F!Nothing)
  <2> DEFINE yes == TRUE
  <2>1. AnswersAfter(e, toPage, yes, F!Nothing) /\ UNCHANGED <<visit, blocked, exchanges>> /\ e.op \notin {"schema", "exchanges", "discover"}
    BY <1>1, <1>4
  <2> HIDE DEF yes
  <2> QED
    BY <2>1, AnswerTells
<1> QED
  BY <1>1, <1>2, <1>3, <1>4 DEF Ends

\* What is heard is no longer told.
LEMMA HeardTold ==
  ASSUME ForumType, ForumTold, UNCHANGED <<visit, blocked, exchanges>>,
         toPage' = toPage \/ (toPage # <<>> /\ toPage' = Tail(toPage))
  PROVE  ForumTold'
<1>1. toPage \in Seq(ForumMessages(visit))
  BY DEF ForumType, ForumPort
<1> QED
  BY <1>1, ToldTail DEF ForumTold

\* Another visit changes nothing in it.
LEMMA MountsTold ==
  ASSUME ForumType, ForumTold, Mounts
  PROVE  ForumTold'
<1>1. toPage \in Seq(ForumMessages(visit)) /\ toPage' = toPage /\ blocked' = blocked /\ exchanges' = exchanges
  BY DEF ForumType, ForumPort, Mounts, F!client
<1>2. \A i \in 1..Len(toPage) : toPage[i] \in ForumMessages(visit)
  BY <1>1, ElementOfSeq
<1>3. \A m \in ForumMessages(visit) : m \in ForumReplies(visit') => m \in ForumReplies(visit)
  BY EventIsNoReply DEF ForumMessages
<1>4. \A m \in ForumMessages(visit) :
        /\ m \in StaleFinds(visit', blocked') => m \in StaleFinds(visit, blocked)
        /\ m \in StaleReads(visit', exchanges') => m \in StaleReads(visit, exchanges)
        /\ m \in Refusals(visit') => m \in Refusals(visit)
  BY <1>1, <1>3 DEF StaleFinds, StaleReads, Refusals
<1>5. Followed(toPage, StaleFinds(visit', blocked'), Contacts)
  BY <1>2, <1>4 DEF ForumTold, Told, Followed
<1>6. Followed(toPage, StaleReads(visit', exchanges'), Decisions)
  BY <1>2, <1>4 DEF ForumTold, Told, Followed
<1>7. ~Some(toPage, Refusals(visit'))
  BY <1>2, <1>4 DEF ForumTold, Told, Some
<1> QED
  BY <1>1, <1>5, <1>6, <1>7 DEF ForumTold, Told

-----------------------------------------------------------------------------
(* Forum: the exchanges that are shown, or will be read.                   *)

LEMMA PresentIn ==
  ASSUME NEW tc, NEW w, NEW tp, NEW v, NEW X, NEW Y, X \subseteq Y
  PROVE  /\ Present(tc, w, tp, v, X) => Present(tc, w, tp, v, Y)
         /\ ~Present(tc, w, tp, v, Y) => Sole(tc, w, tp, v, X)
<1>1. Answers(v, X) \subseteq Answers(v, Y)
  BY DEF Answers
<1>2. /\ Some(tc, X) => Some(tc, Y)
      /\ Some(w, X) => Some(w, Y)
      /\ Some(tp, Answers(v, X)) => Some(tp, Answers(v, Y))
  BY <1>1, NonePlaces
<1>3. /\ ~Some(tc, X) => AtMostOne(tc, X)
      /\ ~Some(w, X) => AtMostOne(w, X)
      /\ ~Some(tp, Answers(v, X)) => AtMostOne(tp, Answers(v, X))
  BY NonePlaces
<1> QED
  BY <1>2, <1>3 DEF Present, Sole

\* What is sent adds to what is under way.
LEMMA SentPresent ==
  ASSUME NEW v, NEW q, NEW w, NEW tp, Queues(q, w, tp, v), NEW tc2,
         tc2 = q \/ \E d \in ForumCalls(v) : tc2 = Append(q, d),
         NEW X, Present(q, w, tp, v, X)
  PROVE  Present(tc2, w, tp, v, X)
<1>1. ASSUME NEW d \in ForumCalls(v), tc2 = Append(q, d)
      PROVE  Present(tc2, w, tp, v, X)
  <2>1. Given(q, w, tp, tc2, w, tp, v, d, {1, 3, 5})
    BY <1>1, CallGiven
  <2> QED
    BY <2>1, PresentGiven
<1> QED
  BY <1>1

\* The calls that read the exchanges for the page, when they were asked for
\* last, and those that will lead to one.
Reads(v, gen) == {c \in ForumCalls(v) : c.visit = v /\ ~c.over /\ c.op = "exchanges" /\ c.exchangeGen = gen}
MountReads(v) == {c \in ForumCalls(v) : c.visit = v /\ ~c.over /\ c.op = "schema" /\ c.for = "page"}
ReadAwaited(tc, w, tp, v, gen) == Present(tc, w, tp, v, Reads(v, gen)) \/ Present(tc, w, tp, v, MountReads(v))

\* What the page shows of the exchanges is so, or it hears of them.
Known(tc, w, tp, v, f, x) == f.exchanges = x \/ Some(tp, Decisions) \/ ReadAwaited(tc, w, tp, v, f.exchangeGen)
ExchangesKnown ==
  /\ timeouts \in Nat
  /\ page = "forum" /\ timeouts = 0 => Known(toClient, waiting, toPage, visit, forum, exchanges)

LEMMA ReadsBlind ==
  ASSUME NEW v
  PROVE  (\A gen : Blind(v, Reads(v, gen))) /\ Blind(v, MountReads(v))
BY DEF Blind, Reads, MountReads, Alike

\* A step of the client.
LEMMA KnownTells ==
  ASSUME ExchangesKnown, ClientTells, UNCHANGED <<page, visit, forum, timeouts>>,
         Passes(toClient, waiting, toPage, toClient', waiting', toPage', visit)
  PROVE  ExchangesKnown'
<1>1. SUFFICES ASSUME page = "forum", timeouts = 0
               PROVE  Known(toClient', waiting', toPage', visit, forum, exchanges')
  BY DEF ExchangesKnown
<1>2. Known(toClient, waiting, toPage, visit, forum, exchanges)
  BY <1>1 DEF ExchangesKnown
<1>3. ReadAwaited(toClient, waiting, toPage, visit, forum.exchangeGen) => ReadAwaited(toClient', waiting', toPage', visit, forum.exchangeGen)
  BY ReadsBlind DEF Passes, ReadAwaited
<1> QED
  BY <1>2, <1>3 DEF Known, ClientTells

LEMMA KnownMounts ==
  ASSUME ForumType, ExchangesKnown, Mounts
  PROVE  ExchangesKnown'
<1> DEFINE n == visit'
           g == forum'
           tc2 == toClient'
<1>1. SUFFICES ASSUME page' = "forum"
               PROVE  Known(tc2, waiting, toPage, n, g, exchanges)
  BY DEF ExchangesKnown, Mounts, F!client
<1>2. n = visit + 1 /\ visit \in Nat /\ Queues(toClient, waiting, toPage, visit)
  BY QueuesOf DEF Mounts, ForumType, ForumPage
<1>3. PICK d \in ForumCalls(n) : tc2 = Append(toClient, d) /\ d.visit = n /\ ~d.over /\ d.op = "schema" /\ d.for = "page"
  BY <1>1 DEF Mounts
<1> HIDE DEF n, g, tc2
<1>4. Queues(toClient, waiting, toPage, n)
  BY <1>2, NextVisit
<1>5. Given(toClient, waiting, toPage, tc2, waiting, toPage, n, d, {1, 3, 5})
  BY <1>3, <1>4, CallGiven
<1>6. d \in MountReads(n)
  BY <1>3 DEF MountReads
<1> QED
  BY <1>5, <1>6, PresentGiven DEF Known, ReadAwaited

LEMMA KnownActs ==
  ASSUME ForumType, ExchangesKnown, Acts
  PROVE  ExchangesKnown'
<1>1. Kept
  BY DEF Acts, Finds, LoadsMore, RequestsKey, SendsFirstWave, Composes, Edits, SaveBegins, BlocksElsewhere
<1>2. SUFFICES ASSUME page = "forum", timeouts = 0
               PROVE  Known(toClient', waiting, toPage, visit, forum', exchanges)
  BY <1>1 DEF ExchangesKnown, Kept, F!client
<1>3. forum'.exchanges = forum.exchanges /\ forum'.exchangeGen = forum.exchangeGen
  BY <1>2 DEF Acts, Finds, LoadsMore, RequestsKey, SendsFirstWave, Composes, Edits, SaveBegins, BlocksElsewhere,
              Searching, SameExchanges
<1>4. Sent(toClient)
  BY DEF Acts, Finds, LoadsMore, RequestsKey, SendsFirstWave, Composes, Edits, SaveBegins, BlocksElsewhere,
         SearchCall, PeerCall, PageCall, Sent
<1>5. Queues(toClient, waiting, toPage, visit) /\ Known(toClient, waiting, toPage, visit, forum, exchanges)
  BY <1>2, QueuesOf DEF ExchangesKnown
<1>6. \A X : Present(toClient, waiting, toPage, visit, X) => Present(toClient', waiting, toPage, visit, X)
  BY <1>4, <1>5, SentPresent DEF Sent
<1> QED
  BY <1>3, <1>5, <1>6 DEF Known, ReadAwaited

LEMMA ReloadingSame ==
  ASSUME forum \in ForumStates, NEW g, Reloading(g, forum)
  PROVE  /\ g \in ForumStates /\ g.exchangeGen = forum.exchangeGen + 1 /\ g.exchanges = forum.exchanges
         /\ g.schema = forum.schema /\ g.error = forum.error /\ g.peer = forum.peer /\ SameSearch(g, forum) /\ SameKeys(g, forum)
<1> DEFINE n == forum.exchangeGen + 1
<1>1. n \in Nat
  BY DEF ForumStates
<1>2. g = [forum EXCEPT !.exchangeGen = n] /\ g \in ForumStates
  BY DEF Reloading
<1> HIDE DEF n
<1>3. /\ g.exchangeGen = n /\ g.exchanges = forum.exchanges
      /\ g.schema = forum.schema /\ g.error = forum.error /\ g.peer = forum.peer
      /\ SameSearch(g, forum) /\ SameKeys(g, forum)
  BY <1>1, <1>2 DEF ForumStates, SameSearch, SameKeys
<1> QED
  BY <1>2, <1>3 DEF n

LEMMA KnownEvent ==
  ASSUME ForumType, ExchangesKnown, EventHears
  PROVE  ExchangesKnown'
<1> DEFINE tp2 == toPage'
           g == forum'
           tc2 == toClient'
<1>1. SUFFICES ASSUME page = "forum", timeouts = 0
               PROVE  Known(tc2, waiting, tp2, visit, g, exchanges)
  BY DEF ExchangesKnown, EventHears, F!client
<1>2. /\ Same(toClient, waiting, toPage, toClient, waiting, tp2, visit) /\ Head(toPage) \in ForumEvents
      /\ toPage # <<>> /\ tp2 = Tail(toPage) /\ toPage \in Seq(ForumMessages(visit)) /\ forum \in ForumStates
  BY DEF EventHears, ForumType, ForumPort, ForumPage
<1>3. Queues(toClient, waiting, tp2, visit)
  BY <1>2 DEF Same
<1>4. Known(toClient, waiting, toPage, visit, forum, exchanges)
  BY <1>1 DEF ExchangesKnown
<1>5. CASE Head(toPage).type = "contacts" /\ Searching(g, forum, TRUE) /\ \E d : tc2 = Append(toClient, d) /\ SearchCall(d, g, TRUE)
  <2>1. g.exchanges = forum.exchanges /\ g.exchangeGen = forum.exchangeGen
    BY <1>5 DEF Searching
  <2>2. \E d \in ForumCalls(visit) : tc2 = Append(toClient, d)
    BY <1>5 DEF SearchCall, PageCall
  <2>3. \A X : Present(toClient, waiting, toPage, visit, X) => Present(tc2, waiting, tp2, visit, X)
    <3>1. \A X : Present(toClient, waiting, toPage, visit, X) => Present(toClient, waiting, tp2, visit, X)
      BY <1>2 DEF Same
    <3> QED
      BY <1>3, <2>2, <3>1, SentPresent
  <2>4. Some(toPage, Decisions) => Some(tp2, Decisions)
    BY <1>2, <1>5, TailPlaces DEF Decisions
  <2> QED
    BY <1>4, <2>1, <2>3, <2>4 DEF Known, ReadAwaited
<1>6. CASE Reloading(g, forum) /\ \E d : tc2 = Append(toClient, d) /\ ReloadCall(d, "event", 0, 0, forum.exchangeGen + 1)
  <2>1. PICK d : tc2 = Append(toClient, d) /\ ReloadCall(d, "event", 0, 0, forum.exchangeGen + 1)
    BY <1>6
  <2>2. d \in Reads(visit, g.exchangeGen) /\ d \in ForumCalls(visit)
    BY <1>2, <1>6, <2>1, ReloadingSame DEF ReloadCall, PageCall, Reads
  <2>3. Given(toClient, waiting, tp2, tc2, waiting, tp2, visit, d, {1, 3, 5})
    BY <1>3, <2>1, <2>2, CallGiven
  <2> QED
    BY <2>2, <2>3, PresentGiven DEF Known, ReadAwaited
<1> QED
  BY <1>1, <1>5, <1>6 DEF EventHears

\* A reply is heard.
LEMMA KnownHears ==
  ASSUME ForumType, ForumTold, ExchangesKnown, NEW e, NEW m, NEW q, NEW places, Hears(e, m, q, places)
  PROVE  ExchangesKnown'
<1> DEFINE w2 == waiting'
           tp2 == toPage'
           g == forum'
           tc2 == toClient'
           v == visit
<1>1. timeouts' \in Nat /\ (timeouts' = 0 => timeouts = 0 /\ places # {})
  <2>1. (places = {} /\ timeouts' = timeouts + 1) \/ (places = {2, 4, 7} /\ timeouts' = timeouts)
    BY Zenon DEF Hears
  <2>2. timeouts \in Nat
    BY DEF ExchangesKnown
  <2> QED
    BY <2>1, <2>2
<1>2. SUFFICES ASSUME page = "forum", timeouts = 0, places # {}
               PROVE  Known(tc2, w2, tp2, v, g, exchanges)
  BY <1>1 DEF ExchangesKnown, Hears, F!client
<1>3. /\ Left(toClient, waiting, toPage, q, w2, tp2, v, e, places) /\ e \in ForumCalls(v) /\ ~e.over /\ Goes(e, m, q)
      /\ toPage # <<>> /\ m = Head(toPage) /\ m.call = e /\ m \in ForumReplies(v) /\ tp2 = Tail(toPage)
  BY <1>2 DEF Hears, Heard
<1>4. /\ toPage \in Seq(ForumMessages(v)) /\ forum \in ForumStates /\ Queues(q, w2, tp2, v)
      /\ Known(toClient, waiting, toPage, v, forum, exchanges)
  BY <1>2, <1>3 DEF ForumType, ForumPort, ForumPage, ExchangesKnown, Left
<1>5. /\ e.op \in {"schema", "exchanges"} => m.ok
      /\ m.exchanges = exchanges \/ Some(tp2, Decisions)
  BY <1>3, <1>4, ToldTail DEF ForumTold, Refusals, StaleReads
<1>6. Some(toPage, Decisions) => Some(tp2, Decisions)
  BY <1>3, <1>4, TailPlaces, EventIsNoReply DEF Decisions
<1>7. Sent(q)
  BY <1>3, GoesTypes DEF ForumType
<1> HIDE DEF w2, tp2, g, tc2, v
<1>8. tc2 = q \/ \E d \in ForumCalls(v) : tc2 = Append(q, d)
  BY <1>7 DEF Sent, tc2, v
<1>9. ASSUME NEW X, \A c \in X : ~c.over, e \notin X, Present(toClient, waiting, toPage, v, X)
      PROVE  Present(tc2, w2, tp2, v, X)
  <2>1. Present(q, w2, tp2, v, X)
    BY <1>3, <1>9 DEF Left
  <2> QED
    BY <1>4, <1>8, <2>1, SentPresent
<1>10. ASSUME NEW d, tc2 = Append(q, d), d \in Reads(v, g.exchangeGen)
       PROVE  Known(tc2, w2, tp2, v, g, exchanges)
  <2>1. d \in ForumCalls(v)
    BY <1>10 DEF Reads
  <2>2. Given(q, w2, tp2, tc2, w2, tp2, v, d, {1, 3, 5})
    BY <1>4, <1>10, <2>1, CallGiven
  <2> QED
    BY <1>10, <2>2, PresentGiven DEF Known, ReadAwaited
<1>11. ASSUME NEW for, NEW gen, NEW peer, g.exchangeGen = forum.exchangeGen + 1,
              \E d : tc2 = Append(q, d) /\ ReloadCall(d, for, gen, peer, forum.exchangeGen + 1)
       PROVE  Known(tc2, w2, tp2, v, g, exchanges)
  <2>1. PICK d : tc2 = Append(q, d) /\ ReloadCall(d, for, gen, peer, forum.exchangeGen + 1)
    BY <1>11
  <2>2. d \in Reads(v, g.exchangeGen)
    BY <1>11, <2>1 DEF ReloadCall, PageCall, Reads, v
  <2> QED
    BY <1>10, <2>1, <2>2
\* Nothing is read that the page asked for last.
<1>12. ASSUME g.exchangeGen = forum.exchangeGen, g.exchanges = forum.exchanges, e \notin Reads(v, forum.exchangeGen), e \notin MountReads(v)
       PROVE  Known(tc2, w2, tp2, v, g, exchanges)
  <2>1. /\ \A c \in Reads(v, forum.exchangeGen) : ~c.over
        /\ \A c \in MountReads(v) : ~c.over
    BY DEF Reads, MountReads
  <2>2. ReadAwaited(toClient, waiting, toPage, v, forum.exchangeGen) => ReadAwaited(tc2, w2, tp2, v, forum.exchangeGen)
    BY <1>9, <1>12, <2>1 DEF ReadAwaited
  <2> QED
    BY <1>4, <1>6, <1>12, <2>2 DEF Known
<1>13. CASE e.op \in SaveOps /\ SaveHeard(e, m, q)
  <2>1. g = forum /\ e \notin Reads(v, forum.exchangeGen) /\ e \notin MountReads(v)
    BY <1>13 DEF SaveHeard, Reads, MountReads, SaveOps, g
  <2> QED
    BY <1>12, <2>1
<1>14. CASE e.visit # v /\ forum' = forum
  BY <1>12, <1>14 DEF Reads, MountReads, g
<1>15. CASE e.op = "schema" /\ e.for = "page" /\ MountHeard(e, m, q)
  <2>1. m.ok
    BY <1>5, <1>15
  <2>2. /\ g.exchangeGen = forum.exchangeGen + 1
        /\ \E d : tc2 = Append(q, d) /\ ReloadCall(d, "page", e.gen, e.peer, forum.exchangeGen + 1)
    BY <1>15, <2>1 DEF MountHeard, g, tc2
  <2> QED
    BY <1>11, <2>2
<1>16. CASE (e.op = "discover" \/ (e.op = "schema" /\ e.for = "search")) /\ SearchHeard(e, m, q)
  <2>1. g.exchangeGen = forum.exchangeGen /\ g.exchanges = forum.exchanges
    BY <1>16 DEF SearchHeard, SameExchanges, g
  <2>2. e \notin Reads(v, forum.exchangeGen) /\ e \notin MountReads(v)
    BY <1>16 DEF Reads, MountReads
  <2> QED
    BY <1>12, <2>1, <2>2
<1>17. CASE e.op = "exchanges" /\ e.visit = v /\ ExchangesHeard(e, m, q)
  <2>1. m.ok
    BY <1>5, <1>17
  <2>2. /\ g.exchangeGen = forum.exchangeGen
        /\ g.exchanges = (IF e.exchangeGen = forum.exchangeGen THEN m.exchanges ELSE forum.exchanges)
    BY <1>17, <2>1 DEF ExchangesHeard, Taken, g
  <2>3. CASE e.exchangeGen = forum.exchangeGen
    BY <1>5, <2>2, <2>3 DEF Known
  <2>4. CASE e.exchangeGen # forum.exchangeGen
    <3>1. e \notin Reads(v, forum.exchangeGen) /\ e \notin MountReads(v)
      BY <1>17, <2>4 DEF Reads, MountReads
    <3> QED
      BY <1>12, <2>2, <2>4, <3>1
  <2> QED
    BY <2>3, <2>4
<1>18. CASE e.op = "key" /\ KeyHeard(e, m, q)
  <2>1. e \notin Reads(v, forum.exchangeGen) /\ e \notin MountReads(v) /\ g.exchanges = forum.exchanges
    BY <1>18 DEF Reads, MountReads, KeyHeard, g
  <2>2. CASE m.ok /\ e.gen = forum.requestGen
    <3>1. /\ g.exchangeGen = forum.exchangeGen + 1
          /\ \E d : tc2 = Append(q, d) /\ ReloadCall(d, "key", e.gen, e.peer, forum.exchangeGen + 1)
      BY <1>18, <2>2 DEF KeyHeard, g, tc2
    <3> QED
      BY <1>11, <3>1
  <2>3. CASE ~(m.ok /\ e.gen = forum.requestGen)
    <3>1. g.exchangeGen = forum.exchangeGen
      BY <1>18, <2>3 DEF KeyHeard, g
    <3> QED
      BY <1>12, <2>1, <3>1
  <2> QED
    BY <2>2, <2>3
<1>19. CASE e.op = "wave" /\ WaveHeard(e, m, q)
  <2>1. /\ e \notin Reads(v, forum.exchangeGen) /\ e \notin MountReads(v)
        /\ g.exchanges = forum.exchanges /\ g.exchangeGen = forum.exchangeGen
    BY <1>19 DEF Reads, MountReads, WaveHeard, SameExchanges, g
  <2> QED
    BY <1>12, <2>1
<1>20. CASE e.op \in {"load", "block", "unblock"} /\ LoadHeard(m, q)
  <2>1. g = forum /\ e \notin Reads(v, forum.exchangeGen) /\ e \notin MountReads(v)
    BY <1>20 DEF LoadHeard, Reads, MountReads, g
  <2> QED
    BY <1>12, <2>1
<1> QED
  BY <1>2, <1>3, <1>13, <1>14, <1>15, <1>16, <1>17, <1>18, <1>19, <1>20 DEF Goes, v

-----------------------------------------------------------------------------
(* Forum: the searches under way, and what the page shows of them.         *)

KeyCalls(v, gen) == {c \in ForumCalls(v) : c.visit = v /\ ~c.over /\ c.op = "key" /\ c.gen = gen}

\* A call of a search, as far as the page that hears of it is concerned: the
\* first of a search starts from nothing, the next from where it stands.
Fits(c, f) ==
  /\ c.op = "discover" => f.schema /\ c.set = f.filters
  /\ IF c.for = "search" THEN f.under = {} /\ (c.op = "discover" => c.at = 0)
     ELSE c.op = "discover" /\ c.at = f.cursor /\ f.cursor # 0
Misfits(v, f) == {c \in SearchCalls(v, f.requestGen) : ~Fits(c, f)}

\* Calls of searches and keys of a search still to come, and keys of members
\* who are not shown.
Ahead(v, gen) == {c \in ForumCalls(v) : c.gen > gen /\ c \in SearchCalls(v, c.gen) \cup KeyCalls(v, c.gen)}
Strays(v, f) == {c \in KeyCalls(v, f.requestGen) : c.peer \notin f.entries}

\* One call of the present search at most, and one that fits; no later one.
Asked(tc, w, tp, v, f) ==
  /\ Sole(tc, w, tp, v, SearchCalls(v, f.requestGen))
  /\ ~Present(tc, w, tp, v, Misfits(v, f))
  /\ ~Present(tc, w, tp, v, Ahead(v, f.requestGen))
  /\ ~Present(tc, w, tp, v, Strays(v, f))

LEMMA AskedBlind ==
  ASSUME NEW v, NEW f
  PROVE  /\ Blind(v, SearchCalls(v, f.requestGen)) /\ Blind(v, Misfits(v, f))
         /\ Blind(v, Ahead(v, f.requestGen)) /\ Blind(v, Strays(v, f))
<1>1. Blind(v, SearchCalls(v, f.requestGen))
  BY DEF Blind, SearchCalls, Alike
<1>2. Blind(v, Misfits(v, f))
  BY DEF Blind, SearchCalls, Alike, Misfits, Fits
<1>3. Blind(v, Ahead(v, f.requestGen))
  BY DEF Blind, SearchCalls, KeyCalls, Ahead, Alike
<1>4. Blind(v, Strays(v, f))
  BY DEF Blind, KeyCalls, Strays, Alike
<1> QED
  BY <1>1, <1>2, <1>3, <1>4

LEMMA AskedPasses ==
  ASSUME NEW v, NEW tc, NEW w, NEW tp, NEW tc2, NEW w2, NEW tp2, NEW f,
         Passes(tc, w, tp, tc2, w2, tp2, v), Asked(tc, w, tp, v, f)
  PROVE  Asked(tc2, w2, tp2, v, f)
BY AskedBlind DEF Passes, Asked

LEMMA AskedSame ==
  ASSUME NEW v, NEW tc, NEW w, NEW tp, NEW tc2, NEW w2, NEW tp2, NEW f,
         Same(tc, w, tp, tc2, w2, tp2, v), Asked(tc, w, tp, v, f)
  PROVE  Asked(tc2, w2, tp2, v, f)
BY DEF Same, Asked

\* A call that leaves was a call that fits, and the only one of the search.
LEMMA AskedLeft ==
  ASSUME NEW v, NEW tc, NEW w, NEW tp, NEW tc2, NEW w2, NEW tp2, NEW f, NEW e, NEW places,
         Left(tc, w, tp, tc2, w2, tp2, v, e, places), Asked(tc, w, tp, v, f)
  PROVE  /\ Asked(tc2, w2, tp2, v, f)
         /\ e \in SearchCalls(v, f.requestGen) => Fits(e, f) /\ ~Present(tc2, w2, tp2, v, SearchCalls(v, f.requestGen))
         /\ e \in KeyCalls(v, f.requestGen) => e.peer \in f.entries
<1>1. /\ \A c \in SearchCalls(v, f.requestGen) : ~c.over
      /\ \A c \in Misfits(v, f) : ~c.over
      /\ \A c \in Ahead(v, f.requestGen) : ~c.over
      /\ \A c \in Strays(v, f) : ~c.over
  BY DEF SearchCalls, KeyCalls, Misfits, Ahead, Strays
<1>2. \A X : (\A c \in X : ~c.over) =>
        /\ Sole(tc, w, tp, v, X) => Sole(tc2, w2, tp2, v, X) /\ (e \in X => ~Present(tc2, w2, tp2, v, X))
        /\ e \in X => Present(tc, w, tp, v, X)
        /\ e \notin X => (Present(tc2, w2, tp2, v, X) <=> Present(tc, w, tp, v, X))
  BY DEF Left
<1>3. e \notin Misfits(v, f) /\ e \notin Ahead(v, f.requestGen) /\ e \notin Strays(v, f)
  BY <1>1, <1>2 DEF Asked
<1>4. Asked(tc2, w2, tp2, v, f)
  BY <1>1, <1>2, <1>3 DEF Asked
<1>5. e \in SearchCalls(v, f.requestGen) => ~Present(tc2, w2, tp2, v, SearchCalls(v, f.requestGen))
  BY <1>1, <1>2 DEF Asked
<1> QED
  BY <1>3, <1>4, <1>5 DEF Misfits, Strays

\* A call that is none of a search, or the key of a member who is shown.
LEMMA AskedGiven ==
  ASSUME NEW v, NEW tc, NEW w, NEW tp, NEW tc2, NEW w2, NEW tp2, NEW f, NEW d, NEW places,
         Given(tc, w, tp, tc2, w2, tp2, v, d, places), Asked(tc, w, tp, v, f),
         \/ d.op \notin {"discover", "key"} /\ (d.op = "schema" => d.for = "page")
         \/ d.op = "key" /\ d.gen = f.requestGen /\ d.peer \in f.entries /\ f.requestGen \in Nat
  PROVE  Asked(tc2, w2, tp2, v, f)
<1>1. d \notin SearchCalls(v, f.requestGen)
  BY DEF SearchCalls
<1>2. d \notin Misfits(v, f) /\ d \notin Strays(v, f)
  BY <1>1 DEF Misfits, Strays, KeyCalls
<1>3. d \notin Ahead(v, f.requestGen)
  BY DEF Ahead, SearchCalls, KeyCalls
<1>4. /\ \A X : Sole(tc, w, tp, v, X) /\ d \notin X => Sole(tc2, w2, tp2, v, X)
      /\ \A X : Present(tc2, w2, tp2, v, X) => Present(tc, w, tp, v, X) \/ d \in X
  BY DEF Given
<1> QED
  BY <1>1, <1>2, <1>3, <1>4 DEF Asked

\* The one call of a search, where there is none.
LEMMA AskedOne ==
  ASSUME NEW v, NEW tc, NEW w, NEW tp, NEW tc2, NEW w2, NEW tp2, NEW f, NEW d, NEW places, f.requestGen \in Nat,
         Given(tc, w, tp, tc2, w2, tp2, v, d, places), Asked(tc, w, tp, v, f),
         ~Present(tc, w, tp, v, SearchCalls(v, f.requestGen)),
         d \in SearchCalls(v, f.requestGen), Fits(d, f)
  PROVE  Asked(tc2, w2, tp2, v, f)
<1>1. d \notin Misfits(v, f)
  BY DEF Misfits
<1>2. d \notin Strays(v, f) /\ d \notin Ahead(v, f.requestGen)
  BY DEF Strays, KeyCalls, SearchCalls, Ahead
<1>3. /\ \A X : Sole(tc, w, tp, v, X) /\ ~Present(tc, w, tp, v, X) => Sole(tc2, w2, tp2, v, X)
      /\ \A X : Present(tc2, w2, tp2, v, X) => Present(tc, w, tp, v, X) \/ d \in X
  BY DEF Given
<1> QED
  BY <1>1, <1>2, <1>3 DEF Asked

\* A page that shows more, as long as no call is under way that expects less.
LEMMA AskedShown ==
  ASSUME NEW v, NEW tc, NEW w, NEW tp, NEW f, NEW g, Asked(tc, w, tp, v, f),
         g.requestGen = f.requestGen, f.entries \subseteq g.entries,
         \/ ~Present(tc, w, tp, v, SearchCalls(v, f.requestGen))
         \/ g.under = f.under /\ g.cursor = f.cursor /\ g.filters = f.filters /\ (f.schema => g.schema)
  PROVE  Asked(tc, w, tp, v, g)
<1>1. Strays(v, g) \subseteq Strays(v, f)
  BY DEF Strays
<1>2. Misfits(v, g) \subseteq SearchCalls(v, f.requestGen)
  BY DEF Misfits
<1>3. ~Present(tc, w, tp, v, Misfits(v, g))
  <2>1. CASE ~Present(tc, w, tp, v, SearchCalls(v, f.requestGen))
    BY <1>2, <2>1, PresentIn
  <2>2. CASE g.under = f.under /\ g.cursor = f.cursor /\ g.filters = f.filters /\ (f.schema => g.schema)
    <3>1. Misfits(v, g) \subseteq Misfits(v, f)
      BY <2>2 DEF Misfits, Fits
    <3> QED
      BY <3>1, PresentIn DEF Asked
  <2> QED
    BY <2>1, <2>2
<1>4. ~Present(tc, w, tp, v, Strays(v, g))
  BY <1>1, PresentIn DEF Asked
<1> QED
  BY <1>3, <1>4 DEF Asked

\* Nothing is under way of a search that begins.
LEMMA AskedAnew ==
  ASSUME NEW v, NEW tc, NEW w, NEW tp, NEW f, NEW g, Asked(tc, w, tp, v, f), f.requestGen \in Nat,
         g.requestGen = f.requestGen + 1
  PROVE  Asked(tc, w, tp, v, g) /\ ~Present(tc, w, tp, v, SearchCalls(v, g.requestGen))
<1>0. \A c \in ForumCalls(v) : c.gen \in Nat
  BY DEF ForumCalls, ForumCall
<1>1. /\ SearchCalls(v, g.requestGen) \subseteq Ahead(v, f.requestGen)
      /\ KeyCalls(v, g.requestGen) \subseteq Ahead(v, f.requestGen)
  BY <1>0 DEF SearchCalls, KeyCalls, Ahead
<1>2. Ahead(v, g.requestGen) \subseteq Ahead(v, f.requestGen)
  BY <1>0 DEF Ahead
<1>3. Misfits(v, g) \subseteq Ahead(v, f.requestGen) /\ Strays(v, g) \subseteq Ahead(v, f.requestGen)
  BY <1>1 DEF Misfits, Strays
<1>4. /\ ~Present(tc, w, tp, v, SearchCalls(v, g.requestGen)) /\ Sole(tc, w, tp, v, SearchCalls(v, g.requestGen))
      /\ ~Present(tc, w, tp, v, Ahead(v, g.requestGen))
  BY <1>1, <1>2, PresentIn DEF Asked
<1>5. ~Present(tc, w, tp, v, Misfits(v, g)) /\ ~Present(tc, w, tp, v, Strays(v, g))
  BY <1>3, PresentIn DEF Asked
<1> QED
  BY <1>4, <1>5 DEF Asked

\* What the page shows: of the first search nothing yet, and it says so; then
\* who matches up to the cursor, unless somebody was blocked since.
Listed(tp, f, b) ==
  /\ f.under = {} => f.entries = {} /\ f.cursor = 0 /\ f.peer = 0 /\ (f.loading \/ f.error)
  /\ f.under # {} => f.schema
  /\ f.keyResults \subseteq f.entries
  /\ ~Some(tp, Contacts) =>
       /\ f.entries \cap b = {}
       /\ \A u : f.under = {u} => f.entries = UpTo(MatchedUnder(u, b, f.filters), f.cursor)

ForumFound ==
  page = "forum" => Asked(toClient, waiting, toPage, visit, forum) /\ Listed(toPage, forum, blocked)

LEMMA ListedSame ==
  ASSUME NEW tp, NEW b, NEW f, NEW g, NEW tp2, Listed(tp, f, b),
         g.under = f.under, g.entries = f.entries, g.cursor = f.cursor, g.filters = f.filters,
         f.schema => g.schema, g.keyResults \subseteq g.entries,
         g.under = {} => g.peer = 0 /\ (g.loading \/ g.error),
         Some(tp, Contacts) => Some(tp2, Contacts)
  PROVE  Listed(tp2, g, b)
BY DEF Listed

\* A search that begins shows nothing.
LEMMA ListedNone ==
  ASSUME NEW tp, NEW b, NEW g, g.under = {}, g.entries = {}, g.cursor = 0, g.peer = 0, g.loading, g.keyResults = {}
  PROVE  Listed(tp, g, b)
BY DEF Listed

\* A step of the client.
LEMMA FoundTells ==
  ASSUME ForumFound, ClientTells, UNCHANGED <<page, visit, forum>>,
         Passes(toClient, waiting, toPage, toClient', waiting', toPage', visit)
  PROVE  ForumFound'
<1>1. SUFFICES ASSUME page = "forum"
               PROVE  Asked(toClient', waiting', toPage', visit, forum) /\ Listed(toPage', forum, blocked')
  BY DEF ForumFound
<1>2. Asked(toClient, waiting, toPage, visit, forum) /\ Listed(toPage, forum, blocked)
  BY <1>1 DEF ForumFound
<1>3. Asked(toClient', waiting', toPage', visit, forum)
  BY <1>2, AskedPasses
<1>4. Listed(toPage', forum, blocked')
  BY <1>2 DEF Listed, ClientTells
<1> QED
  BY <1>3, <1>4

LEMMA FoundMounts ==
  ASSUME ForumType, Mounts
  PROVE  ForumFound'
<1> DEFINE n == visit'
           g == forum'
           tc2 == toClient'
<1>1. SUFFICES ASSUME page' = "forum"
               PROVE  Asked(tc2, waiting, toPage, n, g) /\ Listed(toPage, g, blocked)
  BY DEF ForumFound, Mounts, F!client
<1>2. n = visit + 1 /\ visit \in Nat /\ Queues(toClient, waiting, toPage, visit)
  BY QueuesOf DEF Mounts, ForumType, ForumPage
<1>3. PICK d \in ForumCalls(n) : tc2 = Append(toClient, d) /\ d.visit = n /\ ~d.over /\ d.op = "schema" /\ d.for = "page"
  BY <1>1 DEF Mounts
<1>4. g.under = {} /\ g.entries = {} /\ g.cursor = 0 /\ g.peer = 0 /\ g.loading /\ g.keyResults = {}
  BY DEF Mounts, Blank
<1> HIDE DEF n, g, tc2
<1>5. /\ Queues(toClient, waiting, toPage, n)
      /\ \A X : (\A c \in X : c.visit = n) => Sole(toClient, waiting, toPage, n, X) /\ ~Present(toClient, waiting, toPage, n, X)
  BY <1>2, NextVisit
<1>6. /\ \A c \in SearchCalls(n, g.requestGen) : c.visit = n
      /\ \A c \in Misfits(n, g) : c.visit = n
      /\ \A c \in Ahead(n, g.requestGen) : c.visit = n
      /\ \A c \in Strays(n, g) : c.visit = n
  BY DEF SearchCalls, KeyCalls, Misfits, Ahead, Strays
<1>7. Asked(toClient, waiting, toPage, n, g)
  BY <1>5, <1>6 DEF Asked
<1>8. Given(toClient, waiting, toPage, tc2, waiting, toPage, n, d, {1, 3, 5})
  BY <1>3, <1>5, CallGiven
<1>9. Asked(tc2, waiting, toPage, n, g)
  BY <1>3, <1>7, <1>8, AskedGiven
<1> QED
  BY <1>4, <1>9, ListedNone

\* The page begins a search: nothing of it is shown, and one call is sent.
LEMMA FoundAnew ==
  ASSUME NEW v, NEW tc, NEW w, NEW tp, NEW tc2, NEW f, NEW g, NEW b, NEW d \in ForumCalls(v),
         Queues(tc, w, tp, v), Asked(tc, w, tp, v, f), f.requestGen \in Nat, g.requestGen = f.requestGen + 1,
         tc2 = Append(tc, d), d \in SearchCalls(v, g.requestGen), Fits(d, g),
         g.under = {}, g.entries = {}, g.cursor = 0, g.peer = 0, g.loading, g.keyResults = {}
  PROVE  Asked(tc2, w, tp, v, g) /\ Listed(tp, g, b)
<1>1. Asked(tc, w, tp, v, g) /\ ~Present(tc, w, tp, v, SearchCalls(v, g.requestGen)) /\ g.requestGen \in Nat
  BY AskedAnew
<1>2. Given(tc, w, tp, tc2, w, tp, v, d, {1, 3, 5})
  BY CallGiven
<1> QED
  BY <1>1, <1>2, AskedOne, ListedNone

LEMMA SearchCallFits ==
  ASSUME NEW d, NEW g, SearchCall(d, g, TRUE), g.cursor = 0, g.under = {}
  PROVE  d \in ForumCalls(visit) /\ d \in SearchCalls(visit, g.requestGen) /\ Fits(d, g)
<1> DEFINE yes == TRUE
           zero == 0
<1>1. SearchCall(d, g, yes) /\ yes /\ g.cursor = zero
  OBVIOUS
<1> HIDE DEF yes, zero
<1>2. /\ d \in ForumCalls(visit) /\ d.visit = visit /\ ~d.over /\ d.gen = g.requestGen /\ d.for = "search"
      /\ (g.schema /\ d.op = "discover" /\ d.at = zero /\ d.set = g.filters) \/ d.op = "schema"
  BY <1>1 DEF SearchCall, PageCall
<1>3. d \in SearchCalls(visit, g.requestGen)
  BY <1>2 DEF SearchCalls
<1>4. Fits(d, g)
  BY <1>2 DEF Fits, zero
<1> QED
  BY <1>2, <1>3, <1>4

\* The page asks for something else: what it shows stays.
SameFound(g, f) ==
  /\ g.requestGen = f.requestGen /\ g.filters = f.filters
  /\ g.entries = f.entries /\ g.cursor = f.cursor /\ g.under = f.under

LEMMA FoundKept ==
  ASSUME NEW v, NEW tc, NEW w, NEW tp, NEW tc2, NEW tp2, NEW f, NEW g, NEW b,
         Queues(tc, w, tp2, v), Asked(tc, w, tp2, v, f), Listed(tp, f, b), f.requestGen \in Nat,
         Some(tp, Contacts) => Some(tp2, Contacts),
         SameFound(g, f), f.schema => g.schema, g.keyResults \subseteq g.entries,
         f.under = {} => g.peer = 0,
         \/ tc2 = tc
         \/ \E d \in ForumCalls(v) :
              /\ tc2 = Append(tc, d)
              /\ \/ d.op \notin {"discover", "key"} /\ (d.op = "schema" => d.for = "page")
                 \/ d.op = "key" /\ d.gen = f.requestGen /\ d.peer \in f.entries,
         f.under = {} => g.loading \/ g.error
  PROVE  Asked(tc2, w, tp2, v, g) /\ Listed(tp2, g, b)
<1>1. Asked(tc2, w, tp2, v, f)
  <2>1. CASE tc2 = tc
    BY <2>1
  <2>2. CASE tc2 # tc
    <3>1. PICK d \in ForumCalls(v) :
            /\ tc2 = Append(tc, d)
            /\ \/ d.op \notin {"discover", "key"} /\ (d.op = "schema" => d.for = "page")
               \/ d.op = "key" /\ d.gen = f.requestGen /\ d.peer \in f.entries
      BY <2>2
    <3>2. Given(tc, w, tp2, tc2, w, tp2, v, d, {1, 3, 5})
      BY <3>1, CallGiven
    <3> QED
      BY <3>1, <3>2, AskedGiven
  <2> QED
    BY <2>1, <2>2
<1>2. /\ g.requestGen = f.requestGen /\ f.entries \subseteq g.entries
      /\ g.under = f.under /\ g.cursor = f.cursor /\ g.filters = f.filters /\ (f.schema => g.schema)
  BY DEF SameFound
<1>3. Asked(tc2, w, tp2, v, g)
  BY <1>1, <1>2, AskedShown
<1>4. g.entries = f.entries
  BY DEF SameFound
<1>5. Listed(tp2, g, b)
  BY <1>2, <1>4, ListedSame
<1> QED
  BY <1>3, <1>5

LEMMA FoundActs ==
  ASSUME ForumType, Acts, ForumFound
  PROVE  ForumFound'
<1>1. SUFFICES ASSUME page = "forum"
               PROVE  Asked(toClient', waiting, toPage, visit, forum') /\ Listed(toPage, forum', blocked)
  <2>1. Kept
    BY DEF Acts, Finds, LoadsMore, RequestsKey, SendsFirstWave, Composes, Edits, SaveBegins, BlocksElsewhere
  <2> QED
    BY <2>1 DEF ForumFound, Kept, F!client
<1> DEFINE v == visit
           f == forum
           g == forum'
           tc2 == toClient'
<1>2. /\ Queues(toClient, waiting, toPage, v) /\ f.requestGen \in Nat
      /\ Asked(toClient, waiting, toPage, v, f) /\ Listed(toPage, f, blocked)
  BY <1>1, QueuesOf DEF ForumFound, ForumType, ForumPage, ForumStates
<1>3. f.under = {} => f.cursor = 0 /\ f.entries = {} /\ f.peer = 0 /\ (f.loading \/ f.error)
  BY <1>2 DEF Listed
<1> HIDE DEF v, f, g, tc2
<1>4. CASE Finds
  <2>1. /\ g.requestGen = f.requestGen + 1
        /\ g.under = {} /\ g.entries = {} /\ g.cursor = 0 /\ g.peer = 0 /\ g.loading /\ g.keyResults = {}
    BY <1>4 DEF Finds, Searching, f, g
  <2>2. PICK d : tc2 = Append(toClient, d) /\ SearchCall(d, g, TRUE)
    BY <1>4 DEF Finds, tc2, g
  <2>3. d \in ForumCalls(v) /\ d \in SearchCalls(v, g.requestGen) /\ Fits(d, g)
    BY <2>1, <2>2, SearchCallFits DEF v
  <2> QED
    BY <1>2, <2>1, <2>2, <2>3, FoundAnew DEF v, g, tc2
<1>5. CASE LoadsMore
  <2>1. /\ g.requestGen = f.requestGen + 1 /\ f.cursor # 0
        /\ g.under = f.under /\ g.entries = f.entries /\ g.cursor = f.cursor /\ g.filters = f.filters
        /\ g.schema = f.schema /\ g.keyResults = f.keyResults
    BY <1>5 DEF LoadsMore, Searching, f, g
  <2>2. PICK d : tc2 = Append(toClient, d) /\ SearchCall(d, g, FALSE)
    BY <1>5 DEF LoadsMore, tc2, g
  <2>3. f.under # {} /\ g.schema
    BY <1>2, <1>3, <2>1 DEF Listed
  <2>4. /\ d \in ForumCalls(v) /\ d \in SearchCalls(v, g.requestGen)
        /\ d.op = "discover" /\ d.for = "more" /\ d.at = g.cursor /\ d.set = g.filters
    BY <2>2, <2>3 DEF SearchCall, PageCall, SearchCalls, v
  <2>5. Fits(d, g)
    BY <2>1, <2>3, <2>4 DEF Fits
  <2>6. Asked(toClient, waiting, toPage, v, g) /\ ~Present(toClient, waiting, toPage, v, SearchCalls(v, g.requestGen))
    BY <1>2, <2>1, AskedAnew
  <2>7. Given(toClient, waiting, toPage, tc2, waiting, toPage, v, d, {1, 3, 5}) /\ g.requestGen \in Nat
    BY <1>2, <2>1, <2>2, <2>4, CallGiven
  <2>8. Asked(tc2, waiting, toPage, v, g)
    BY <2>4, <2>5, <2>6, <2>7, AskedOne
  <2>9. g.keyResults \subseteq g.entries
    BY <1>2, <2>1 DEF Listed
  <2>10. Listed(toPage, g, blocked)
    BY <1>2, <2>1, <2>3, <2>9, ListedSame
  <2> QED
    BY <2>8, <2>10 DEF v, g, tc2
<1>6. CASE \E m \in F!Members : RequestsKey(m)
  <2>1. PICK m \in F!Members : RequestsKey(m)
    BY <1>6
  <2>2. PICK d : tc2 = Append(toClient, d) /\ PeerCall(d, "key", m)
    BY <2>1 DEF RequestsKey, tc2
  <2>3. m \in f.entries /\ SameSearch(g, f) /\ g.schema = f.schema /\ g.keyResults = f.keyResults /\ g.peer = f.peer
    BY <2>1 DEF RequestsKey, f, g
  <2>4. d \in ForumCalls(v) /\ d.op = "key" /\ d.gen = f.requestGen /\ d.peer \in f.entries
    BY <2>2, <2>3 DEF PeerCall, PageCall, v, f
  <2>5. f.under # {} /\ SameFound(g, f) /\ g.keyResults \subseteq g.entries
    BY <1>2, <1>3, <2>3 DEF SameSearch, SameFound, Listed
  <2> QED
    BY <1>2, <2>2, <2>3, <2>4, <2>5, FoundKept DEF v, g, tc2
<1>7. CASE \E m \in F!Members : SendsFirstWave(m)
  <2>1. PICK m \in F!Members : SendsFirstWave(m)
    BY <1>7
  <2>2. PICK d : tc2 = Append(toClient, d) /\ PeerCall(d, "wave", m)
    BY <2>1 DEF SendsFirstWave, tc2
  <2>3. SameSearch(g, f) /\ g.schema = f.schema /\ g.keyResults = f.keyResults /\ g.peer = f.peer /\ f.peer # 0
    BY <2>1 DEF SendsFirstWave, f, g
  <2>4. d \in ForumCalls(v) /\ d.op = "wave"
    BY <2>2 DEF PeerCall, PageCall, v
  <2>5. f.under # {} /\ SameFound(g, f) /\ g.keyResults \subseteq g.entries
    BY <1>2, <1>3, <2>3 DEF SameSearch, SameFound, Listed
  <2> QED
    BY <1>2, <2>2, <2>3, <2>4, <2>5, FoundKept DEF v, g, tc2
<1>8. CASE Composes
  <2>1. /\ tc2 = toClient /\ SameSearch(g, f) /\ g.schema = f.schema /\ g.keyResults = f.keyResults
        /\ g.error = f.error /\ (g.peer # 0 => f.peer # 0 \/ f.entries # {})
    BY <1>8 DEF Composes, SameKeys, f, g, tc2
  <2>2. /\ f.under = {} => g.peer = 0 /\ (g.loading \/ g.error)
        /\ SameFound(g, f) /\ g.keyResults \subseteq g.entries
    BY <1>2, <1>3, <2>1 DEF SameSearch, SameFound, Listed
  <2> QED
    BY <1>2, <2>1, <2>2, FoundKept DEF v, g, tc2
<1> QED
  BY <1>1, <1>4, <1>5, <1>6, <1>7, <1>8 DEF Acts, Edits, SaveBegins, BlocksElsewhere

LEMMA FoundEvent ==
  ASSUME ForumType, EventHears, ForumFound
  PROVE  ForumFound'
<1>1. SUFFICES ASSUME page = "forum"
               PROVE  Asked(toClient', waiting, toPage', visit, forum') /\ Listed(toPage', forum', blocked)
  BY DEF ForumFound, EventHears, F!client
<1> DEFINE v == visit
           tp2 == toPage'
           f == forum
           g == forum'
           tc2 == toClient'
<1>2. /\ Same(toClient, waiting, toPage, toClient, waiting, tp2, v) /\ Queues(toClient, waiting, tp2, v)
      /\ toPage # <<>> /\ tp2 = Tail(toPage) /\ toPage \in Seq(ForumMessages(v)) /\ f \in ForumStates
  BY DEF EventHears, ForumType, ForumPort, ForumPage, Same
<1>3. Asked(toClient, waiting, tp2, v, f) /\ Listed(toPage, f, blocked) /\ f.requestGen \in Nat
  BY <1>1, <1>2, AskedSame DEF ForumFound, ForumStates
<1> HIDE DEF v, tp2, f, g, tc2
<1>4. CASE Searching(g, f, TRUE) /\ \E d : tc2 = Append(toClient, d) /\ SearchCall(d, g, TRUE)
  <2>1. /\ g.requestGen = f.requestGen + 1
        /\ g.under = {} /\ g.entries = {} /\ g.cursor = 0 /\ g.peer = 0 /\ g.loading /\ g.keyResults = {}
    BY <1>4 DEF Searching
  <2>2. PICK d : tc2 = Append(toClient, d) /\ SearchCall(d, g, TRUE)
    BY <1>4
  <2>3. d \in ForumCalls(v) /\ d \in SearchCalls(v, g.requestGen) /\ Fits(d, g)
    BY <2>1, <2>2, SearchCallFits DEF v
  <2> QED
    BY <1>2, <1>3, <2>1, <2>2, <2>3, FoundAnew DEF v, g, tc2, tp2
<1>5. CASE Head(toPage).type = "key-decision" /\ Reloading(g, f) /\ \E d : tc2 = Append(toClient, d) /\ ReloadCall(d, "event", 0, 0, f.exchangeGen + 1)
  <2>1. PICK d : tc2 = Append(toClient, d) /\ ReloadCall(d, "event", 0, 0, f.exchangeGen + 1)
    BY <1>5
  <2>2. d \in ForumCalls(v) /\ d.op = "exchanges"
    BY <2>1 DEF ReloadCall, PageCall, v
  <2>3. SameSearch(g, f) /\ g.schema = f.schema /\ g.keyResults = f.keyResults /\ g.peer = f.peer /\ g.error = f.error
    BY <1>2, <1>5, ReloadingSame DEF SameKeys, f
  <2>4. Some(toPage, Contacts) => Some(tp2, Contacts)
    BY <1>2, <1>5, TailPlaces DEF Contacts
  <2>5. /\ f.under = {} => g.peer = 0 /\ (g.loading \/ g.error)
        /\ SameFound(g, f) /\ g.keyResults \subseteq g.entries
    BY <1>3, <2>3 DEF Listed, SameSearch, SameFound
  <2> QED
    BY <1>2, <1>3, <2>1, <2>2, <2>3, <2>4, <2>5, FoundKept DEF v, g, tc2, tp2
<1> QED
  BY <1>1, <1>4, <1>5 DEF EventHears, f, g, tc2

\* A search has found a page of members, from a place on.
Finding(f, g, u, x, at) ==
  /\ at \in Nat /\ g.cursor = x.cursor /\ g.under = f.under \cup {u}
  /\ \/ at = 0 /\ f.under = {} /\ g.entries = x.entries
     \/ at = f.cursor /\ at # 0 /\ g.entries = f.entries \cup x.entries

LEMMA ListedFound ==
  ASSUME NEW tp, NEW tp2, NEW f, NEW g, NEW b, NEW u, NEW at, NEW x, Listed(tp, f, b),
         Some(tp, Contacts) => Some(tp2, Contacts),
         g.filters = f.filters, g.schema, g.keyResults = f.keyResults,
         ~Some(tp2, Contacts) => x = FoundUnder(u, b, f.filters, at),
         Finding(f, g, u, x, at)
  PROVE  Listed(tp2, g, b)
<1>0. /\ at \in Nat /\ g.cursor = x.cursor /\ g.under = f.under \cup {u}
      /\ \/ at = 0 /\ f.under = {} /\ g.entries = x.entries
         \/ at = f.cursor /\ at # 0 /\ g.entries = f.entries \cup x.entries
  BY DEF Finding
<1>1. g.under # {} /\ g.keyResults \subseteq g.entries
  BY <1>0 DEF Listed
<1>2. ASSUME ~Some(tp2, Contacts)
      PROVE  /\ g.entries \cap b = {}
             /\ \A r : g.under = {r} => g.entries = UpTo(MatchedUnder(r, b, g.filters), g.cursor)
  <2> DEFINE all == MatchedUnder(u, b, f.filters)
  <2>1. /\ at = 0 => x.entries = UpTo(all, x.cursor)
        /\ at # 0 => UpTo(all, at) \cup x.entries = UpTo(all, x.cursor)
        /\ x.entries \cap b = {}
    BY <1>0, <1>2, PagesGrow
  <2>2. /\ f.entries \cap b = {}
        /\ f.under = {u} => f.entries = UpTo(all, f.cursor)
    BY <1>2 DEF Listed
  <2>3. f.under = {} => f.cursor = 0
    BY DEF Listed
  <2> HIDE DEF all
  <2>4. g.entries \cap b = {}
    BY <1>0, <2>1, <2>2
  <2>5. ASSUME NEW r, g.under = {r}
        PROVE  g.entries = UpTo(all, g.cursor) /\ r = u
    <3>1. r = u /\ (f.under = {} \/ f.under = {u})
      BY <1>0, <2>5
    <3> QED
      BY <1>0, <2>1, <2>2, <2>3, <3>1
  <2> QED
    BY <2>4, <2>5 DEF all
<1> QED
  BY <1>1, <1>2 DEF Listed

\* The page of the present search hears of one of its calls.
SearchMoves(e, m, f, g, q, tc2, v) ==
  \/ /\ m.ok /\ e.op = "schema" /\ SameSearch(g, f) /\ g.schema /\ g.error = f.error
     /\ \E d \in ForumCalls(v) :
          /\ tc2 = Append(q, d) /\ d.visit = v /\ ~d.over /\ d.op = "discover" /\ d.for = "search"
          /\ d.gen = f.requestGen /\ d.at = 0 /\ d.set = f.filters
  \/ /\ tc2 = q /\ g.schema = f.schema /\ (~m.ok => g.error)
     /\ IF m.ok
        THEN /\ e.op # "schema" /\ g.cursor = m.found.cursor /\ g.under = f.under \cup {m.under}
             /\ g.entries = (IF e.for = "search" THEN m.found.entries ELSE f.entries \cup m.found.entries)
        ELSE g.cursor = f.cursor /\ g.under = f.under /\ g.entries = f.entries

LEMMA FoundSearch ==
  ASSUME NEW v, NEW f \in ForumStates, NEW g \in ForumStates, NEW tp, NEW q, NEW w2, NEW tp2, NEW tc2, NEW e \in ForumCalls(v), NEW m, NEW b,
         Asked(q, w2, tp2, v, f), Queues(q, w2, tp2, v), Listed(tp, f, b), Some(tp, Contacts) => Some(tp2, Contacts),
         e.visit = v, ~e.over, e.op = "discover" \/ (e.op = "schema" /\ e.for = "search"), e.gen = f.requestGen,
         Fits(e, f), ~Present(q, w2, tp2, v, SearchCalls(v, f.requestGen)),
         m.ok => m \in ForumReplies(v) /\ m.call = e /\ (m \in StaleFinds(v, b) => Some(tp2, Contacts)),
         g.requestGen = f.requestGen, g.filters = f.filters, g.keyResults = f.keyResults, g.peer = f.peer,
         SearchMoves(e, m, f, g, q, tc2, v)
  PROVE  Asked(tc2, w2, tp2, v, g) /\ Listed(tp2, g, b)
<1>1. f.under = {} => f.cursor = 0 /\ f.entries = {} /\ f.peer = 0 /\ (f.loading \/ f.error)
  BY DEF Listed
<1>2. f.keyResults \subseteq f.entries
  BY DEF Listed
<1>3. f.requestGen \in Nat
  BY DEF ForumStates
<1>4. CASE /\ m.ok /\ e.op = "schema" /\ SameSearch(g, f) /\ g.schema /\ g.error = f.error
           /\ \E d \in ForumCalls(v) :
                /\ tc2 = Append(q, d) /\ d.visit = v /\ ~d.over /\ d.op = "discover" /\ d.for = "search"
                /\ d.gen = f.requestGen /\ d.at = 0 /\ d.set = f.filters
  <2>1. PICK d \in ForumCalls(v) :
          /\ tc2 = Append(q, d) /\ d.visit = v /\ ~d.over /\ d.op = "discover" /\ d.for = "search"
          /\ d.gen = f.requestGen /\ d.at = 0 /\ d.set = f.filters
    BY <1>4
  <2>2. /\ g.under = f.under /\ g.entries = f.entries /\ g.cursor = f.cursor /\ g.filters = f.filters
        /\ g.loading = f.loading
    BY <1>4 DEF SameSearch
  <2>3. f.under = {}
    BY <1>4 DEF Fits
  <2>4. Asked(q, w2, tp2, v, g)
    BY <2>2, AskedShown
  <2>5. d \in SearchCalls(v, g.requestGen)
    BY <2>1 DEF SearchCalls
  <2>6. Fits(d, g)
    BY <1>4, <2>1, <2>2, <2>3 DEF Fits
  <2>7. Given(q, w2, tp2, tc2, w2, tp2, v, d, {1, 3, 5})
    BY <2>1, CallGiven
  <2>8. Asked(tc2, w2, tp2, v, g)
    BY <1>3, <2>4, <2>5, <2>6, <2>7, AskedOne
  <2>9. g.under = {} => g.peer = 0 /\ (g.loading \/ g.error)
    BY <1>1, <1>4, <2>2, <2>3
  <2>10. Listed(tp2, g, b)
    BY <1>2, <1>4, <2>2, <2>9, ListedSame
  <2> QED
    BY <2>8, <2>10
<1>5. CASE tc2 = q /\ g.schema = f.schema /\ ~m.ok /\ g.error /\ g.cursor = f.cursor /\ g.under = f.under /\ g.entries = f.entries
  <2>1. Asked(tc2, w2, tp2, v, g)
    BY <1>5, AskedShown
  <2>2. Listed(tp2, g, b)
    BY <1>1, <1>2, <1>5, ListedSame
  <2> QED
    BY <2>1, <2>2
<1>6. CASE /\ tc2 = q /\ g.schema = f.schema /\ m.ok
           /\ e.op # "schema" /\ g.cursor = m.found.cursor /\ g.under = f.under \cup {m.under}
           /\ g.entries = (IF e.for = "search" THEN m.found.entries ELSE f.entries \cup m.found.entries)
  <2>1. /\ e.op = "discover" /\ f.schema /\ e.set = f.filters
        /\ IF e.for = "search" THEN f.under = {} /\ e.at = 0 ELSE e.at = f.cursor /\ f.cursor # 0
    BY <1>6 DEF Fits
  <2>2. ~Some(tp2, Contacts) => m.found = FoundUnder(m.under, b, f.filters, e.at)
    BY <1>6, <2>1 DEF StaleFinds
  <2>3. f.entries \subseteq g.entries
    BY <1>1, <1>6, <2>1
  <2>4. Asked(tc2, w2, tp2, v, g)
    BY <1>6, <2>3, AskedShown
  <2>5. e.at \in Nat /\ g.schema
    BY <1>6, <2>1 DEF ForumCalls, ForumCall
  <2>6. /\ g.cursor = m.found.cursor /\ g.under = f.under \cup {m.under}
        /\ \/ e.at = 0 /\ f.under = {} /\ g.entries = m.found.entries
           \/ e.at = f.cursor /\ e.at # 0 /\ g.entries = f.entries \cup m.found.entries
    BY <1>6, <2>1
  <2>7. Finding(f, g, m.under, m.found, e.at)
    BY <2>5, <2>6 DEF Finding
  <2>8. Listed(tp2, g, b)
    BY <2>2, <2>5, <2>7, ListedFound
  <2> QED
    BY <2>4, <2>8
<1> QED
  BY <1>4, <1>5, <1>6 DEF SearchMoves

\* A reply is heard.
LEMMA FoundHears ==
  ASSUME ForumType, ForumTold, ForumFound, NEW e, NEW m, NEW q, NEW places, Hears(e, m, q, places)
  PROVE  ForumFound'
<1> DEFINE v == visit
           w2 == waiting'
           tp2 == toPage'
           f == forum
           g == forum'
           tc2 == toClient'
           b == blocked
<1>1. SUFFICES ASSUME page = "forum"
               PROVE  Asked(tc2, w2, tp2, v, g) /\ Listed(tp2, g, b)
  BY DEF ForumFound, Hears, F!client
<1>2. /\ Left(toClient, waiting, toPage, q, w2, tp2, v, e, places) /\ e \in ForumCalls(v) /\ ~e.over /\ Goes(e, m, q)
      /\ m.ok => m \in ForumReplies(v) /\ m.call = e
  BY DEF Hears, Heard
<1>3. \/ tp2 = toPage /\ ~m.ok
      \/ toPage # <<>> /\ m = Head(toPage) /\ m \in ForumReplies(v) /\ tp2 = Tail(toPage)
  BY DEF Hears
<1>4. /\ toPage \in Seq(ForumMessages(v)) /\ f \in ForumStates /\ g \in ForumStates /\ Queues(q, w2, tp2, v)
      /\ Asked(toClient, waiting, toPage, v, f) /\ Listed(toPage, f, b) /\ f.requestGen \in Nat
  <2>1. toPage \in Seq(ForumMessages(v)) /\ f \in ForumStates /\ f.requestGen \in Nat
    BY DEF ForumType, ForumPort, ForumPage, ForumStates
  <2>2. g \in ForumStates
    BY <1>2, GoesTypes DEF ForumType
  <2>3. Queues(q, w2, tp2, v)
    BY <1>2 DEF Left
  <2>4. Asked(toClient, waiting, toPage, v, f) /\ Listed(toPage, f, b)
    BY <1>1 DEF ForumFound
  <2> QED
    BY <2>1, <2>2, <2>3, <2>4
<1>5. Some(toPage, Contacts) => Some(tp2, Contacts)
  <2>1. CASE tp2 = toPage
    BY <2>1
  <2>2. CASE toPage # <<>> /\ m = Head(toPage) /\ m \in ForumReplies(v) /\ tp2 = Tail(toPage)
    <3>1. m \notin Contacts
      BY <2>2, EventIsNoReply DEF Contacts
    <3> QED
      BY <1>4, <2>2, <3>1, TailPlaces
  <2> QED
    BY <1>3, <2>1, <2>2
<1>6. m.ok => m \in ForumReplies(v) /\ m.call = e /\ (m \in StaleFinds(v, b) => Some(tp2, Contacts))
  <2>1. m.ok => toPage # <<>> /\ m = Head(toPage) /\ tp2 = Tail(toPage)
    BY <1>3
  <2>2. Told(toPage, v, b, exchanges)
    BY DEF ForumTold
  <2> QED
    BY <1>2, <1>4, <2>1, <2>2, ToldTail
<1>7. /\ Asked(q, w2, tp2, v, f)
      /\ e \in SearchCalls(v, f.requestGen) => Fits(e, f) /\ ~Present(q, w2, tp2, v, SearchCalls(v, f.requestGen))
      /\ e \in KeyCalls(v, f.requestGen) => e.peer \in f.entries
  BY <1>2, <1>4, AskedLeft
<1>8. /\ f.under = {} => f.cursor = 0 /\ f.entries = {} /\ f.peer = 0 /\ (f.loading \/ f.error)
      /\ f.keyResults \subseteq f.entries
  BY <1>4 DEF Listed
<1> HIDE DEF v, w2, tp2, f, g, tc2, b
<1>9. ASSUME SameFound(g, f), f.schema => g.schema, g.keyResults \subseteq g.entries, g.peer = f.peer,
             f.loading => g.loading \/ g.error, f.error => g.error,
             \/ tc2 = q
             \/ \E d \in ForumCalls(v) : tc2 = Append(q, d) /\ d.op \notin {"discover", "key", "schema"}
      PROVE  Asked(tc2, w2, tp2, v, g) /\ Listed(tp2, g, b)
  <2>1. f.under = {} => g.peer = 0 /\ (g.loading \/ g.error)
    BY <1>8, <1>9
  <2> QED
    BY <1>4, <1>5, <1>7, <1>9, <2>1, FoundKept
<1>10. ASSUME g = f, \/ tc2 = q
                     \/ \E d \in ForumCalls(v) : tc2 = Append(q, d) /\ d.op \notin {"discover", "key", "schema"}
       PROVE  Asked(tc2, w2, tp2, v, g) /\ Listed(tp2, g, b)
  <2>1. SameFound(g, f)
    BY <1>10 DEF SameFound
  <2> QED
    BY <1>8, <1>9, <1>10, <2>1
<1>11. ASSUME NEW for, NEW gen, NEW peer, NEW xgen, \E d : tc2 = Append(q, d) /\ ReloadCall(d, for, gen, peer, xgen)
       PROVE  \E d \in ForumCalls(v) : tc2 = Append(q, d) /\ d.op \notin {"discover", "key", "schema"}
  <2>1. PICK d : tc2 = Append(q, d) /\ ReloadCall(d, for, gen, peer, xgen)
    BY <1>11
  <2>2. d \in ForumCalls(v) /\ d.op = "exchanges"
    BY <2>1 DEF ReloadCall, PageCall, v
  <2> QED
    BY <2>1, <2>2
<1>12. CASE e.op \in SaveOps /\ SaveHeard(e, m, q)
  <2>1. g = f /\ (tc2 = q \/ \E d : tc2 = Append(q, d) /\ NextSave(e, d))
    BY <1>12 DEF SaveHeard, f, g, tc2
  <2>2. \A d : NextSave(e, d) => d \in ForumCalls(v) /\ d.op \notin {"discover", "key", "schema"}
    BY DEF NextSave, v
  <2> QED
    BY <1>10, <2>1, <2>2
<1>13. CASE toClient' = q /\ forum' = forum
  BY <1>10, <1>13 DEF f, g, tc2
<1>14. CASE e.op = "schema" /\ e.for = "page" /\ MountHeard(e, m, q)
  <2>1. /\ SameFound(g, f) /\ (f.schema => g.schema) /\ g.keyResults = f.keyResults /\ g.peer = f.peer
        /\ f.loading => g.loading \/ g.error
        /\ f.error => g.error
        /\ tc2 = q \/ \E d : tc2 = Append(q, d) /\ ReloadCall(d, "page", e.gen, e.peer, f.exchangeGen + 1)
    BY <1>14 DEF MountHeard, SameFound, SameKeys, f, g, tc2
  <2>2. g.keyResults \subseteq g.entries
    BY <1>8, <2>1 DEF SameFound
  <2> QED
    BY <1>9, <1>11, <2>1, <2>2
<1>15. CASE e.visit = v /\ (e.op = "discover" \/ (e.op = "schema" /\ e.for = "search")) /\ SearchHeard(e, m, q)
  <2>1. CASE e.gen # f.requestGen
    BY <1>13, <1>15, <2>1 DEF SearchHeard, f
  <2>2. CASE e.gen = f.requestGen
    <3>1. e \in SearchCalls(v, f.requestGen)
      BY <1>2, <1>15, <2>2 DEF SearchCalls, ForumCalls, PartOf
    <3>2. g.requestGen = f.requestGen /\ g.filters = f.filters /\ g.keyResults = f.keyResults /\ g.peer = f.peer
      BY <1>15, <2>2 DEF SearchHeard, SameSearch, SameKeys, f, g
    <3>3. SearchMoves(e, m, f, g, q, tc2, v)
      BY <1>15, <2>2 DEF SearchHeard, SearchMoves, PageCall, f, g, tc2, v
    <3> QED
      BY <1>2, <1>4, <1>5, <1>6, <1>7, <1>15, <2>2, <3>1, <3>2, <3>3, FoundSearch
  <2> QED
    BY <2>1, <2>2
<1>16. CASE e.op = "exchanges" /\ ExchangesHeard(e, m, q)
  <2>1. CASE e.for = "page"
    <3>1. /\ g.requestGen = f.requestGen + 1
          /\ g.under = {} /\ g.entries = {} /\ g.cursor = 0 /\ g.peer = 0 /\ g.loading /\ g.keyResults = {}
      BY <1>16, <2>1 DEF ExchangesHeard, f, g
    <3>2. PICK d : tc2 = Append(q, d) /\ SearchCall(d, g, TRUE)
      BY <1>16, <2>1 DEF ExchangesHeard, tc2, g
    <3>3. d \in ForumCalls(v) /\ d \in SearchCalls(v, g.requestGen) /\ Fits(d, g)
      BY <3>1, <3>2, SearchCallFits DEF v
    <3> QED
      BY <1>4, <1>7, <3>1, <3>2, <3>3, FoundAnew
  <2>2. CASE e.for # "page"
    <3>1. tc2 = q /\ SameSearch(g, f) /\ g.schema = f.schema /\ g.keyResults = f.keyResults /\ g.peer = f.peer /\ g.error = f.error
      BY <1>16, <2>2 DEF ExchangesHeard, SameKeys, f, g, tc2
    <3>2. SameFound(g, f) /\ g.loading = f.loading /\ g.keyResults \subseteq g.entries
      BY <1>8, <3>1 DEF SameSearch, SameFound
    <3> QED
      BY <1>9, <3>1, <3>2
  <2> QED
    BY <2>1, <2>2
<1>17. CASE e.visit = v /\ e.op = "key" /\ KeyHeard(e, m, q)
  <2>1. SameSearch(g, f) /\ g.schema = f.schema /\ g.peer = f.peer
    BY <1>17 DEF KeyHeard, f, g
  <2>2. SameFound(g, f) /\ g.loading = f.loading /\ g.entries = f.entries
    BY <2>1 DEF SameSearch, SameFound
  <2>3. CASE m.ok /\ e.gen = f.requestGen
    <3>1. /\ g.keyResults = f.keyResults \cup {e.peer} /\ g.error = f.error
          /\ \E d : tc2 = Append(q, d) /\ ReloadCall(d, "key", e.gen, e.peer, f.exchangeGen + 1)
      BY <1>17, <2>3 DEF KeyHeard, f, g, tc2
    <3>2. e \in KeyCalls(v, f.requestGen)
      BY <1>2, <1>17, <2>3 DEF KeyCalls
    <3> QED
      BY <1>7, <1>8, <1>9, <1>11, <2>1, <2>2, <3>1, <3>2
  <2>4. CASE ~(m.ok /\ e.gen = f.requestGen)
    <3>1. g.keyResults = f.keyResults /\ tc2 = q /\ (f.error => g.error)
      BY <1>17, <2>4 DEF KeyHeard, f, g, tc2
    <3> QED
      BY <1>8, <1>9, <2>1, <2>2, <3>1
  <2> QED
    BY <2>3, <2>4
<1>18. CASE e.op = "wave" /\ WaveHeard(e, m, q)
  <2>1. /\ SameSearch(g, f) /\ g.schema = f.schema /\ g.peer = f.peer /\ g.error = f.error /\ g.keyResults = f.keyResults
        /\ tc2 = q
    BY <1>18 DEF WaveHeard, f, g, tc2
  <2>2. SameFound(g, f) /\ g.loading = f.loading /\ g.keyResults \subseteq g.entries
    BY <1>8, <2>1 DEF SameSearch, SameFound
  <2> QED
    BY <1>9, <2>1, <2>2
<1>19. CASE e.op \in {"load", "block", "unblock"} /\ LoadHeard(m, q)
  BY <1>13, <1>19 DEF LoadHeard
<1> QED
  BY <1>2, <1>12, <1>13, <1>14, <1>15, <1>16, <1>17, <1>18, <1>19 DEF Goes, v

-----------------------------------------------------------------------------
(* Forum: what it shows, and the theorem.                                  *)

ForumKnown == ForumInv /\ ForumTold /\ ExchangesKnown /\ ForumFound

LEMMA ForumKnownInit ==
  ASSUME F!Init
  PROVE  ForumKnown
<1>1. ForumInv /\ toPage = <<>> /\ page = "away"
  BY ForumInvInit, ForumTypeInit
<1>2. timeouts = 0
  BY DEF F!Init
<1>3. ForumTold
  BY <1>1 DEF ForumTold, Told, Followed, Some
<1> QED
  BY <1>1, <1>2, <1>3 DEF ForumKnown, ExchangesKnown, ForumFound

LEMMA ForumKnownNext ==
  ASSUME ForumKnown, F!Next
  PROVE  ForumKnown'
<1>1. ForumInv' /\ ForumType /\ ForumTold /\ ExchangesKnown /\ ForumFound
  BY ForumInvNext DEF ForumKnown, ForumInv
<1>2. CASE Mounts
  BY <1>1, <1>2, MountsTold, KnownMounts, FoundMounts DEF ForumKnown
<1>3. CASE Acts
  <2>1. UNCHANGED <<visit, blocked, exchanges, toPage>>
    BY <1>3 DEF Acts, Finds, LoadsMore, RequestsKey, SendsFirstWave, Composes, Edits, SaveBegins, BlocksElsewhere, Kept, F!client
  <2>2. ForumTold'
    BY <1>1, <2>1, HeardTold
  <2> QED
    BY <1>1, <1>3, <2>2, KnownActs, FoundActs DEF ForumKnown
<1>4. ASSUME ClientTells, UNCHANGED <<page, visit, forum, timeouts>>,
             Passes(toClient, waiting, toPage, toClient', waiting', toPage', visit)
      PROVE  ForumKnown'
  BY <1>1, <1>4, KnownTells, FoundTells DEF ForumKnown, ClientTells
<1>5. CASE F!RunCall
  BY <1>1, <1>4, <1>5, RunCallTells, RunCallRuns, RunCallPasses
<1>6. CASE \E i \in DOMAIN waiting : F!WaitEnds(i)
  BY <1>1, <1>4, <1>6, WaitEndsTells, WaitEndsEnds, WaitEndsPasses
<1>7. CASE \E e, m, q, places : Hears(e, m, q, places)
  <2>1. PICK e, m, q, places : Hears(e, m, q, places)
    BY <1>7
  <2>2. UNCHANGED <<visit, blocked, exchanges>> /\ (toPage' = toPage \/ (toPage # <<>> /\ toPage' = Tail(toPage)))
    BY <2>1 DEF Hears, F!client
  <2>3. ForumTold'
    BY <1>1, <2>2, HeardTold
  <2> QED
    BY <1>1, <2>1, <2>3, KnownHears, FoundHears DEF ForumKnown
<1>8. CASE EventHears
  <2>1. UNCHANGED <<visit, blocked, exchanges>> /\ toPage # <<>> /\ toPage' = Tail(toPage)
    BY <1>8 DEF EventHears, F!client
  <2>2. ForumTold'
    BY <1>1, <2>1, HeardTold
  <2> QED
    BY <1>1, <1>8, <2>2, KnownEvent, FoundEvent DEF ForumKnown
<1> QED
  BY <1>1, <1>2, <1>3, <1>5, <1>6, <1>7, <1>8, ForumSteps

LEMMA ForumKnownKept ==
  ASSUME ForumKnown, UNCHANGED F!vars
  PROVE  ForumKnown'
<1>1. UNCHANGED <<rules, profile, revision, blocked, exchanges, senderSlots, toClient, toPage, waiting, page, visit, forum, editor, timeouts>>
  BY DEF F!vars, F!client, F!port
<1>2. ForumInv'
  BY ForumInvKept DEF ForumKnown
<1>3. ForumTold'
  BY <1>1 DEF ForumKnown, ForumTold
<1>4. ExchangesKnown'
  BY <1>1 DEF ForumKnown, ExchangesKnown
<1>5. ForumFound'
  BY <1>1 DEF ForumKnown, ForumFound
<1> QED
  BY <1>2, <1>3, <1>4, <1>5 DEF ForumKnown

LEMMA ForumKnownShown ==
  ASSUME ForumKnown
  PROVE  F!ForumShown
<1> DEFINE u == rules \cap profile
           all == MatchedUnder(u, blocked, forum.filters)
<1>1. SUFFICES ASSUME page = "forum"
               PROVE  /\ forum.keyResults \subseteq forum.entries
                      /\ F!Quiet /\ ~forum.error /\ forum.under \subseteq {u} => forum.entries = UpTo(all, forum.cursor)
                      /\ F!Quiet => forum.entries \cap blocked = {}
                      /\ F!Quiet /\ timeouts = 0 => forum.exchanges = exchanges
  <2>1. F!Matched(forum.filters) = all
    BY FoundNow
  <2> HIDE DEF u, all
  <2>2. UpTo(all, forum.cursor) = IF forum.cursor = 0 THEN all ELSE {m \in all : F!Rank(m, all) < forum.cursor}
    BY DEF UpTo
  <2> QED
    BY <2>1, <2>2 DEF F!ForumShown, u
<1>2. /\ BusyWith(toClient, waiting, toPage, visit, forum) /\ Listed(toPage, forum, blocked)
      /\ timeouts = 0 => Known(toClient, waiting, toPage, visit, forum, exchanges)
  BY <1>1 DEF ForumKnown, ForumInv, BusyForum, ForumFound, ExchangesKnown
<1>3. forum.keyResults \subseteq forum.entries
  BY <1>2 DEF Listed
<1> HIDE DEF u, all
<1>4. ASSUME F!Quiet
      PROVE  /\ ~forum.error /\ forum.under \subseteq {u} => forum.entries = UpTo(all, forum.cursor)
             /\ forum.entries \cap blocked = {}
             /\ timeouts = 0 => forum.exchanges = exchanges
  <2>1. toClient = <<>> /\ toPage = <<>> /\ waiting = <<>>
    BY <1>4 DEF F!Quiet
  <2>2. \A X : ~Some(toClient, X) /\ ~Some(toPage, X) /\ ~Some(waiting, X)
    BY <2>1 DEF Some
  <2>3. \A X : ~Present(toClient, waiting, toPage, visit, X)
    BY <2>2 DEF Present
  <2>4. ~forum.loading
    BY <1>2, <2>3 DEF BusyWith, Loading
  <2>5. /\ forum.entries \cap blocked = {}
        /\ forum.under = {u} => forum.entries = UpTo(all, forum.cursor)
        /\ forum.under = {} => forum.error
    BY <1>2, <2>2, <2>4 DEF Listed, all
  <2>6. timeouts = 0 => forum.exchanges = exchanges
    BY <1>2, <2>2, <2>3 DEF Known, ReadAwaited
  <2> QED
    BY <2>5, <2>6
<1> QED
  BY <1>3, <1>4

\* Once all is heard the forum shows nobody who was blocked, every exchange
\* unless a call timed out, and, unless its search failed or other rules or
\* another profile were stored since, exactly those who match, up to its cursor.
THEOREM ForumShownHolds == Spec => []ForumShown
<1> DEFINE Inv == area = "forum" => ForumKnown
<1>1. Init => Inv
  BY ForumKnownInit DEF Init
<1>2. Inv /\ [Next]_vars => Inv'
  <2> SUFFICES ASSUME Inv, [Next]_vars, area' = "forum"
               PROVE  ForumKnown'
    OBVIOUS
  <2>1. ForumKnown /\ (F!Next \/ UNCHANGED F!vars)
    BY ForumMoves
  <2> QED
    BY <2>1, ForumKnownNext, ForumKnownKept
<1>3. Inv => ForumShown
  BY ForumKnownShown DEF ForumShown
<1> QED
  BY <1>1, <1>2, <1>3, PTL DEF Spec
================================================================================
