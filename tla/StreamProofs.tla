---------------------------- MODULE StreamProofs -----------------------------
(***************************************************************************)
(* Proofs about a journal of changes and those that read it: the inboxes   *)
(* of a federated channel, the application subscriptions, the Watch stream *)
(* and the pages of a conversation.  What a consumer was promised is       *)
(* neither skipped nor reordered, nothing is committed twice and no job is *)
(* left behind, for any numbers of consumers, changes, faults, retries and *)
(* crashes.                                                                *)
(***************************************************************************)
EXTENDS FederatedChannel, Subscription, Watch, Conversation,
        FiniteSetTheorems, SequenceTheorems, WellFoundedInduction, TLAPS

-----------------------------------------------------------------------------
(* Numbers in ascending order.                                             *)

Rising(s) == \A i, j \in 1 .. Len(s) : i < j => s[i] < s[j]

\* Every set of numbers up to b can be put in order, by the least b for which
\* one could not.
LEMMA OrderExists ==
  \A b \in Nat : \A S \in SUBSET (1 .. b) :
    \E s \in [1 .. Cardinality(S) -> S] : \A i, j \in 1 .. Cardinality(S) : i < j => s[i] < s[j]
<1> DEFINE Ordered(S) == \E s \in [1 .. Cardinality(S) -> S] :
                            \A i, j \in 1 .. Cardinality(S) : i < j => s[i] < s[j]
           Bad == {b \in Nat : ~ \A S \in SUBSET (1 .. b) : Ordered(S)}
<1> HIDE DEF Ordered
<1> SUFFICES ASSUME Bad # {} PROVE FALSE
  BY DEF Ordered
<1>1. PICK b \in Bad : \A c \in Bad : ~(<<c, b>> \in OpToRel(<, Nat))
  BY WFMin, NatLessThanWellFounded
<1>2. b \in Nat /\ \A c \in Nat : c < b => \A S \in SUBSET (1 .. c) : Ordered(S)
  BY <1>1 DEF OpToRel
<1>3. PICK S \in SUBSET (1 .. b) : ~Ordered(S)
  BY <1>1
<1>4. IsFiniteSet(S) /\ Cardinality(S) \in Nat
  <2>1. IsFiniteSet(1 .. b)
    BY <1>2, FS_Interval
  <2>2. IsFiniteSet(S)
    BY <2>1, FS_Subset
  <2> QED BY <2>2, FS_CardinalityType
<1>5. CASE b = 0
  <2>1. S = {}
    BY <1>3, <1>5
  <2>2. [i \in 1 .. Cardinality(S) |-> i] \in [1 .. Cardinality(S) -> S]
    BY <2>1, FS_EmptySet
  <2> QED BY <1>3, <2>1, <2>2, FS_EmptySet DEF Ordered
<1>6. CASE b # 0
  <2>1. b - 1 \in Nat /\ b - 1 < b
    BY <1>2, <1>6
  <2>2. b \in S
    <3> SUFFICES ASSUME b \notin S PROVE FALSE
      OBVIOUS
    <3>1. S \in SUBSET (1 .. b - 1)
      BY <1>2
    <3> QED BY <1>2, <1>3, <2>1, <3>1
  <2> DEFINE T == S \ {b}
  <2>3. T \in SUBSET (1 .. b - 1)
    BY <1>2
  <2>4. Cardinality(S) = Cardinality(T) + 1 /\ Cardinality(T) \in Nat /\ T \subseteq S
    <3>1. IsFiniteSet(T) /\ Cardinality(T) = Cardinality(S) - 1
      BY <1>4, <2>2, FS_RemoveElement
    <3>2. Cardinality(T) \in Nat
      BY <3>1, FS_CardinalityType
    <3> QED BY <1>4, <3>1, <3>2
  <2>5. \A x \in T : x \in Nat /\ x < b
    BY <1>2
  <2>6. Ordered(T)
    BY <1>2, <2>1, <2>3
  <2>7. PICK s \in [1 .. Cardinality(T) -> T] : \A i, j \in 1 .. Cardinality(T) : i < j => s[i] < s[j]
    BY <2>6 DEF Ordered
  <2> DEFINE n == Cardinality(T)
             u == [i \in 1 .. n + 1 |-> IF i = n + 1 THEN b ELSE s[i]]
  <2> HIDE DEF T, n
  <2>8. n \in Nat /\ Cardinality(S) = n + 1 /\ s \in [1 .. n -> T]
    BY <2>4, <2>7 DEF n
  <2>9. u \in [1 .. n + 1 -> S]
    <3>1. \A i \in 1 .. n + 1 : (IF i = n + 1 THEN b ELSE s[i]) \in S
      <4>1. \A i \in 1 .. n + 1 : i # n + 1 => i \in 1 .. n
        BY <2>8
      <4> QED BY <2>2, <2>4, <2>8, <4>1
    <3> QED BY <3>1
  <2>10. \A i, j \in 1 .. n + 1 : i < j => u[i] < u[j]
    BY <2>5, <2>7, <2>8 DEF n
  <2> QED BY <1>3, <2>8, <2>9, <2>10 DEF Ordered
<1> QED BY <1>5, <1>6

\* Ascending lists a set of numbers once each, in order.
LEMMA AscendingIs ==
  ASSUME NEW b \in Nat, NEW S \in SUBSET (1 .. b)
  PROVE  /\ Ascending(S) \in Seq(S) /\ Len(Ascending(S)) = Cardinality(S)
         /\ IsFiniteSet(S) /\ Rising(Ascending(S))
         /\ \A x \in S : \E i \in 1 .. Len(Ascending(S)) : Ascending(S)[i] = x
<1> DEFINE s == Ascending(S)
           n == Cardinality(S)
<1>1. IsFiniteSet(S) /\ n \in Nat
  <2>1. IsFiniteSet(1 .. b)
    BY FS_Interval
  <2>2. IsFiniteSet(S)
    BY <2>1, FS_Subset
  <2> QED BY <2>2, FS_CardinalityType
<1>2. s \in [1 .. n -> S] /\ \A i, j \in 1 .. n : i < j => s[i] < s[j]
  BY OrderExists DEF Ascending, Cardinality
<1>3. IsFiniteSet(1 .. n) /\ Cardinality(1 .. n) = n
  BY <1>1, FS_Interval
<1> HIDE DEF s, n
<1>4. s \in Seq(S) /\ Len(s) = n
  BY <1>1, <1>2
<1>5. s \in Injection(1 .. n, S)
  <2>1. \A i, j \in 1 .. n : i < j \/ j < i \/ i = j
    BY <1>1
  <2>2. \A i \in 1 .. n : s[i] \in Int
    <3>1. \A i \in 1 .. n : s[i] \in S
      BY <1>2
    <3>2. \A x \in S : x \in Int
      OBVIOUS
    <3> QED BY <3>1, <3>2
  <2>3. \A i, j \in 1 .. n : s[i] = s[j] => i = j
    BY <1>2, <2>1, <2>2
  <2> QED BY <1>2, <2>3 DEF Injection, IsInjective
<1>6. s \in Surjection(1 .. n, S)
  BY <1>1, <1>3, <1>5, FS_Injection DEF n
<1>7. \A x \in S : \E i \in 1 .. n : s[i] = x
  BY <1>6 DEF Surjection
<1> QED BY <1>1, <1>2, <1>4, <1>7 DEF s, n, Rising

\* Moving the head of one sequence to the end of another keeps them together.
LEMMA HandOver ==
  ASSUME NEW S, NEW a \in Seq(S), NEW q \in Seq(S), q # <<>>
  PROVE  /\ Append(a, Head(q)) \o Tail(q) = a \o q
         /\ Len(a) + 1 \in 1 .. Len(a \o q) /\ (a \o q)[Len(a) + 1] = Head(q)
<1>1. /\ Len(a) \in Nat /\ Len(q) \in Nat \ {0} /\ Head(q) = q[1] /\ Head(q) \in S
      /\ Tail(q) \in Seq(S) /\ Len(Tail(q)) = Len(q) - 1
      /\ \A i \in 1 .. Len(q) - 1 : Tail(q)[i] = q[i + 1]
  BY HeadTailProperties, EmptySeq, LenProperties
<1>2. /\ Append(a, Head(q)) \in Seq(S) /\ Len(Append(a, Head(q))) = Len(a) + 1
      /\ \A i \in 1 .. Len(a) : Append(a, Head(q))[i] = a[i]
      /\ Append(a, Head(q))[Len(a) + 1] = Head(q)
  BY <1>1, AppendProperties
<1>3. /\ a \o q \in Seq(S) /\ Len(a \o q) = Len(a) + Len(q)
      /\ \A i \in 1 .. Len(a) + Len(q) : (a \o q)[i] = IF i <= Len(a) THEN a[i] ELSE q[i - Len(a)]
  BY ConcatProperties
<1> DEFINE b == Append(a, Head(q))
           r == Tail(q)
<1> HIDE DEF b, r
<1>4. /\ b \o r \in Seq(S) /\ Len(b \o r) = Len(b) + Len(r)
      /\ \A i \in 1 .. Len(b) + Len(r) : (b \o r)[i] = IF i <= Len(b) THEN b[i] ELSE r[i - Len(b)]
  BY <1>1, <1>2, ConcatProperties DEF b, r
<1>5. ASSUME NEW i \in 1 .. Len(a) + Len(q) PROVE (b \o r)[i] = (a \o q)[i]
  <2>1. CASE i <= Len(a)
    BY <1>1, <1>2, <1>3, <1>4, <2>1 DEF b, r
  <2>2. CASE i = Len(a) + 1
    BY <1>1, <1>2, <1>3, <1>4, <2>2 DEF b, r
  <2>3. CASE i > Len(a) + 1
    <3>1. i - Len(b) \in 1 .. Len(q) - 1 /\ i - Len(b) + 1 = i - Len(a) /\ ~(i <= Len(b))
      BY <1>1, <1>2, <2>3 DEF b
    <3>2. (b \o r)[i] = r[i - Len(b)] /\ i \in 1 .. Len(b) + Len(r)
      BY <1>1, <1>2, <1>4, <3>1 DEF b, r
    <3>3. r[i - Len(b)] = q[i - Len(a)]
      BY <1>1, <3>1 DEF r
    <3>4. (a \o q)[i] = q[i - Len(a)]
      BY <1>1, <1>3, <2>3
    <3> QED BY <3>2, <3>3, <3>4
  <2>4. i <= Len(a) \/ i = Len(a) + 1 \/ i > Len(a) + 1
    <3>1. Len(a) \in Int /\ i \in Int
      BY <1>1
    <3> QED BY <3>1
  <2> QED BY <2>1, <2>2, <2>3, <2>4
<1>6. b \o r = a \o q
  <2>1. Len(b \o r) = Len(a \o q) /\ Len(a \o q) = Len(a) + Len(q)
    BY <1>1, <1>2, <1>3, <1>4 DEF b, r
  <2> QED BY <1>3, <1>4, <1>5, <2>1, SeqEqual
<1>7. /\ Len(a) + 1 \in 1 .. Len(a \o q) /\ (a \o q)[Len(a) + 1] = Head(q)
  BY <1>1, <1>3
<1> QED BY <1>6, <1>7 DEF b, r

-----------------------------------------------------------------------------
(* The inductive invariant.                                                *)

Entry == [channel : BOOLEAN, to : SUBSET Routes, at : Times]
File == [present : BOOLEAN, cursor : Cursors, born : Times, from : Cursors]
Task == [ask : Asks, todo : Seq(Positions), more : BOOLEAN, own : BOOLEAN, cursor : Cursors]
Worker == [st : {"none", "connecting", "connected"}, index : Nat, current : Asks \cup {NoAsk},
           resume : Asks \cup {NoAsk}, reply : Replies]

ChannelType ==
  /\ journal \in Seq(Entry) /\ Len(journal) <= MaxEvents
  /\ member \subseteq Routes /\ admitted \in BOOLEAN /\ runtime \subseteq Routes
  /\ call \in [Routes -> Calls] /\ clock \in Times
  /\ route \in [Routes -> File]
  /\ worker \in Worker
  /\ tasks \subseteq Task
  /\ retry \in {"ready", "waiting", "suppressed"} /\ faults \in 0 .. MaxFaults
  /\ injected \in [Routes -> Seq(Positions)]

\* What session r has to be given, and what it was given.
Owed(r, p) == journal[p].channel /\ r \in journal[p].to
Given(r, p) == \E i \in 1 .. Len(injected[r]) : injected[r][i] = p

\* A session has a route file, or its register was answered and the file will be
\* written with what the answer says, no earlier than now.
Kept(r) == route[r].present \/ call[r].op = "register"
From(r) == IF route[r].present THEN route[r].from ELSE call[r].from
Since(r) == IF route[r].present THEN route[r].born ELSE clock
Due(r, p) == Owed(r, p) /\ journal[p].at >= Since(r)

\* A route and what its session was given are no further than the journal, and
\* a message was not given before another one that was due since the
\* registration, whether the file is written by now or not.
RouteOK(r) ==
  /\ route[r].cursor <= Len(journal) /\ route[r].from <= Len(journal) /\ route[r].born <= clock
  /\ call[r].cursor <= call[r].from /\ call[r].from <= Len(journal)
  /\ \A i \in 1 .. Len(injected[r]) : injected[r][i] <= Len(journal)
  /\ route[r].present => \A p \in From(r) + 1 .. route[r].cursor : Due(r, p) => Given(r, p)
  /\ Kept(r) =>
       /\ \A i \in 1 .. Len(injected[r]) :
            \A p \in From(r) + 1 .. injected[r][i] : Due(r, p) => Given(r, p)
       /\ \A i, j \in 1 .. Len(injected[r]) :
            i < j /\ injected[r][j] > From(r) /\ Due(r, injected[r][j])
              => injected[r][i] < injected[r][j]
  /\ \A i \in 1 .. Len(injected[r]) : Owed(r, injected[r][i])

\* A request is of the route as it is, or of an older one whose cursor is not
\* past the registration of the present one.
AskOK(a) ==
  a # NoAsk =>
    /\ a.cursor <= Len(journal) /\ a.born <= clock
    /\ Kept(a.route) =>
         /\ a.born <= Since(a.route)
         /\ \/ a.cursor <= From(a.route)
            \/ route[a.route].present /\ a.cursor <= route[a.route].cursor

\* The messages of a page are in order, and all there are between two cursors,
\* but for those that Done does not ask for any more.
Sorted(todo, from, to) ==
  /\ from <= to /\ to <= Len(journal)
  /\ Rising(todo)
  /\ \A i \in 1 .. Len(todo) : from < todo[i] /\ todo[i] <= to /\ journal[todo[i]].channel

ReplyOK ==
  worker.reply.st = "page" =>
    LET a == worker.current
        todo == worker.reply.todo
    IN  /\ a # NoAsk
        /\ Sorted(todo, a.cursor, PageEnd(worker.reply, a.cursor))
        /\ \A p \in a.cursor + 1 .. PageEnd(worker.reply, a.cursor) :
             journal[p].channel => \E i \in 1 .. Len(todo) : todo[i] = p

\* What is left of a page that is being delivered is what it still owes.
TaskOK(t) ==
  /\ AskOK(t.ask)
  /\ Sorted(t.todo, t.ask.cursor, t.cursor)
  /\ \A p \in t.ask.cursor + 1 .. t.cursor :
       journal[p].at >= t.ask.born /\ Owed(t.ask.route, p) =>
         Given(t.ask.route, p) \/ \E i \in 1 .. Len(t.todo) : t.todo[i] = p

RoutesOK == \A r \in Routes : RouteOK(r)
WorkerOK == AskOK(worker.current) /\ AskOK(worker.resume) /\ ReplyOK
TasksOK == \A t \in tasks : TaskOK(t)

ChannelInv == ChannelType /\ RoutesOK /\ WorkerOK /\ TasksOK

-----------------------------------------------------------------------------
(* Pages.                                                                  *)

LEMMA ChannelBounds ==
  ASSUME ChannelType
  PROVE  /\ NumRoutes \in Nat \ {0} /\ MaxEvents \in Nat /\ MaxFaults \in Nat /\ MaxPage \in Nat
         /\ Len(journal) \in Nat /\ Len(journal) <= MaxEvents
         /\ \A p \in 1 .. Len(journal) : p \in Positions /\ journal[p] \in Entry
         /\ NoAsk \notin Asks /\ MaxTime \in Nat
BY ChannelAssumption DEF ChannelType, Positions, Asks, NoAsk, Routes

LEMMA MessagesAre ==
  ASSUME ChannelType, NEW c \in Cursors
  PROVE  /\ MessagesAfter(c) \in Seq(Positions) /\ Rising(MessagesAfter(c))
         /\ \A i \in 1 .. Len(MessagesAfter(c)) :
              /\ MessagesAfter(c)[i] \in 1 .. Len(journal) /\ c < MessagesAfter(c)[i]
              /\ journal[MessagesAfter(c)[i]].channel
         /\ \A p \in c + 1 .. Len(journal) :
              journal[p].channel => \E i \in 1 .. Len(MessagesAfter(c)) : MessagesAfter(c)[i] = p
<1> DEFINE S == {p \in 1 .. Len(journal) : p > c /\ journal[p].channel}
<1>1. Len(journal) \in Nat /\ c \in Nat /\ \A p \in 1 .. Len(journal) : p \in Positions
  BY ChannelBounds DEF Cursors
<1>2. S \in SUBSET (1 .. Len(journal)) /\ MessagesAfter(c) = Ascending(S)
  BY DEF MessagesAfter
<1>3. /\ Ascending(S) \in Seq(S) /\ Rising(Ascending(S))
      /\ \A x \in S : \E i \in 1 .. Len(Ascending(S)) : Ascending(S)[i] = x
  BY <1>1, <1>2, AscendingIs
<1>4. \A i \in 1 .. Len(Ascending(S)) : Ascending(S)[i] \in S
  BY <1>3, ElementOfSeq
<1>5. \A p \in c + 1 .. Len(journal) : journal[p].channel => p \in S
  BY <1>1
<1>6. Ascending(S) \in Seq(Positions)
  BY <1>1, <1>3
<1> QED BY <1>2, <1>3, <1>4, <1>5, <1>6

\* The first k messages after a cursor are all there are up to the page's end.
LEMMA PageIs ==
  ASSUME ChannelType, NEW c \in Cursors, c <= Len(journal), NEW k \in 0 .. Len(MessagesAfter(c))
  PROVE  /\ Page(c, k) \in Replies /\ Page(c, k).st = "page"
         /\ PageEnd(Page(c, k), c) \in Cursors
         /\ Sorted(Page(c, k).todo, c, PageEnd(Page(c, k), c))
         /\ \A p \in c + 1 .. PageEnd(Page(c, k), c) : journal[p].channel =>
              \E i \in 1 .. Len(Page(c, k).todo) : Page(c, k).todo[i] = p
<1> DEFINE all == MessagesAfter(c)
           todo == SubSeq(all, 1, k)
           end == PageEnd(Page(c, k), c)
<1>1. /\ all \in Seq(Positions) /\ Rising(all)
      /\ \A i \in 1 .. Len(all) : all[i] \in 1 .. Len(journal) /\ c < all[i] /\ journal[all[i]].channel
      /\ \A p \in c + 1 .. Len(journal) : journal[p].channel => \E i \in 1 .. Len(all) : all[i] = p
  BY MessagesAre
<1>2. Page(c, k) = [st |-> "page", todo |-> todo, more |-> Len(all) > k]
  BY DEF Page
<1>3. c \in Nat /\ Len(journal) \in Nat /\ Len(journal) <= MaxEvents /\ MaxEvents \in Nat
  BY ChannelBounds DEF Cursors
<1> HIDE DEF all
<1>4. k \in Nat /\ k <= Len(all) /\ Len(all) \in Nat /\ 1 .. k \subseteq 1 .. Len(all)
  BY <1>1, LenProperties DEF all
<1>5. \A i \in 1 .. k : all[i] \in Positions
  BY <1>1, <1>4, ElementOfSeq
<1>6. todo \in Seq(Positions) /\ Len(todo) = k /\ \A i \in 1 .. k : todo[i] = all[i]
  BY <1>4, <1>5, SubSeqProperties
<1> HIDE DEF todo
<1>7. end = IF k = 0 THEN c ELSE all[k]
  <2>1. end = IF todo = <<>> THEN c ELSE Last(todo)
    BY <1>2 DEF PageEnd, Last
  <2>2. CASE k = 0
    <3>1. todo = <<>>
      BY <1>6, <2>2
    <3> QED BY <2>1, <2>2, <3>1
  <2>3. CASE k # 0
    <3>1. todo # <<>> /\ Last(todo) = todo[k]
      BY <1>6, <2>3 DEF Last
    <3>2. k \in 1 .. k
      BY <1>4, <2>3
    <3> QED BY <1>6, <2>1, <2>3, <3>1, <3>2
  <2> QED BY <2>2, <2>3
<1>8. Page(c, k) \in Replies /\ Page(c, k).st = "page" /\ Page(c, k).todo = todo
  BY <1>2, <1>6 DEF Replies
<1> HIDE DEF end
<1>9. \A i, j \in 1 .. Len(all) : i < j => all[i] < all[j]
  BY <1>1 DEF Rising
<1>10. end \in Nat /\ c <= end /\ end <= Len(journal)
  BY <1>1, <1>3, <1>4, <1>7
<1>11. end \in Cursors
  BY <1>3, <1>10 DEF Cursors
<1>12. Sorted(todo, c, end)
  <2>1. Rising(todo)
    BY <1>4, <1>6, <1>9 DEF Rising
  <2>2. ASSUME NEW i \in 1 .. k PROVE todo[i] <= end /\ c < todo[i] /\ journal[todo[i]].channel
    <3>1. todo[i] = all[i] /\ i \in 1 .. Len(all) /\ k \in 1 .. Len(all) /\ end = all[k]
      BY <1>4, <1>6, <1>7
    <3>2. all[i] \in Nat /\ all[k] \in Nat /\ (i < k => all[i] < all[k]) /\ (i < k \/ i = k)
      BY <1>1, <1>4, <1>9, <3>1
    <3> QED BY <1>1, <3>1, <3>2
  <2> QED BY <1>6, <1>10, <2>1, <2>2 DEF Sorted
<1>13. ASSUME NEW p \in c + 1 .. end, journal[p].channel PROVE \E i \in 1 .. k : todo[i] = p
  <2>1. p \in c + 1 .. Len(journal) /\ p \in Nat
    BY <1>3, <1>10
  <2>2. PICK i \in 1 .. Len(all) : all[i] = p
    BY <1>1, <1>13, <2>1
  <2>3. k # 0 /\ end = all[k] /\ k \in 1 .. Len(all)
    BY <1>3, <1>4, <1>7, <1>10, <1>13
  <2>4. k < i => all[k] < all[i]
    BY <1>9, <2>3
  <2>5. i <= k
    BY <1>4, <1>10, <2>1, <2>2, <2>3, <2>4
  <2>6. i \in 1 .. k
    BY <1>4, <2>5
  <2> QED BY <1>6, <2>2, <2>6
<1> QED BY <1>6, <1>8, <1>11, <1>12, <1>13 DEF end

\* Positions and cursors are numbers.
LEMMA Numbers ==
  ASSUME ChannelType
  PROVE  /\ \A p \in Positions : p \in Nat
         /\ \A c \in Cursors : c \in Nat
         /\ \A n \in Times : n \in Nat
BY ChannelBounds DEF Positions, Cursors, Times

LEMMA RouteNumbers ==
  ASSUME ChannelType, NEW r \in Routes
  PROVE  /\ route[r] \in File /\ call[r] \in Calls /\ From(r) \in Nat /\ Since(r) \in Nat
         /\ route[r].cursor \in Nat /\ route[r].from \in Nat /\ route[r].born \in Nat
         /\ call[r].cursor \in Nat /\ call[r].from \in Nat /\ clock \in Nat
         /\ \A p \in 1 .. Len(journal) : journal[p].at \in Nat
         /\ injected[r] \in Seq(Positions)
         /\ \A i \in 1 .. Len(injected[r]) : injected[r][i] \in Positions /\ injected[r][i] \in Nat
<1>1. route[r] \in File /\ call[r] \in Calls /\ clock \in Times
  BY DEF ChannelType
<1>2. /\ route[r].cursor \in Nat /\ route[r].from \in Nat /\ route[r].born \in Nat
      /\ call[r].cursor \in Nat /\ call[r].from \in Nat /\ clock \in Nat
  BY <1>1, Numbers DEF File, Calls
<1>3. \A p \in 1 .. Len(journal) : journal[p].at \in Nat
  BY ChannelBounds, Numbers DEF Entry
<1>4. injected[r] \in Seq(Positions)
  BY DEF ChannelType
<1> QED BY <1>1, <1>2, <1>3, <1>4, ElementOfSeq, Numbers DEF From, Since

-----------------------------------------------------------------------------
(* Steps that leave the journal, the routes and what was given alone.      *)

LEMMA AskStays ==
  ASSUME UNCHANGED <<journal, route, local>>, NEW a, AskOK(a)
  PROVE  AskOK(a)'
BY DEF AskOK, Kept, From, Since, local

\* The requests of another worker, and its reply when it has none.
LEMMA SilentWorker ==
  ASSUME WorkerOK, UNCHANGED <<journal, route, local>>,
         worker'.current \in {NoAsk, worker.current, worker.resume},
         worker'.resume \in {NoAsk, worker.resume},
         worker'.reply.st # "page"
  PROVE  WorkerOK'
<1>1. AskOK(NoAsk)
  BY DEF AskOK, Kept, From, Since, local
<1>2. AskOK(worker.current)' /\ AskOK(worker.resume)'
  BY <1>1 DEF WorkerOK, AskOK, Kept, From, Since, local
<1> QED BY <1>2 DEF WorkerOK, ReplyOK

\* Handlers end, or lose their connection.
LEMMA QuietStep ==
  ASSUME ChannelInv, ChannelType', WorkerOK', UNCHANGED <<journal, route, local, injected>>,
         \A t \in tasks' : \E u \in tasks : t.ask = u.ask /\ t.todo = u.todo /\ t.cursor = u.cursor
  PROVE  ChannelInv'
<1>1. ASSUME NEW r \in Routes PROVE RouteOK(r)'
  <2>1. /\ \A p : Owed(r, p)' = Owed(r, p) /\ Given(r, p)' = Given(r, p) /\ Due(r, p)' = Due(r, p)
        /\ Kept(r)' = Kept(r) /\ From(r)' = From(r)
    BY DEF Owed, Given, Due, Since, Kept, From, local
  <2>2. RouteOK(r) /\ UNCHANGED <<journal, route, call, clock, injected>>
    BY DEF ChannelInv, RoutesOK, local
  <2> QED BY <2>1, <2>2 DEF RouteOK
<1>2. ASSUME NEW t \in tasks' PROVE TaskOK(t)'
  <2>1. PICK u \in tasks : t.ask = u.ask /\ t.todo = u.todo /\ t.cursor = u.cursor
    OBVIOUS
  <2>2. TaskOK(u)
    BY DEF ChannelInv, TasksOK
  <2> QED BY <2>1, <2>2 DEF TaskOK, AskOK, Sorted, Owed, Given, Kept, From, Since, local
<1> QED BY <1>1, <1>2 DEF ChannelInv, RoutesOK, TasksOK

LEMMA NoWorkerType == NoWorker \in Worker
<1>1. <<>> \in Seq(Positions)
  OBVIOUS
<1>2. Reply("none") \in Replies
  BY <1>1 DEF Reply, Replies
<1> QED BY <1>2 DEF NoWorker, Worker

LEMMA ClosedIs ==
  ASSUME ChannelInv, UNCHANGED <<journal, route, local>>, NEW b \in BOOLEAN, Closed(b)
  PROVE  worker' \in Worker /\ retry' \in {"ready", "waiting", "suppressed"} /\ WorkerOK'
<1>1. worker' = NoWorker /\ worker' \in Worker
  BY NoWorkerType DEF Closed
<1>2. worker'.current = NoAsk /\ worker'.resume = NoAsk /\ worker'.reply.st # "page"
  BY <1>1 DEF NoWorker, Reply
<1>3. WorkerOK'
  BY <1>2, SilentWorker DEF ChannelInv
<1>4. retry' \in {"ready", "waiting", "suppressed"}
  BY DEF Closed, ChannelInv, ChannelType
<1> QED BY <1>1, <1>3, <1>4

\* Posts and admissions, seen from this machine.
LEMMA CommitKeeps ==
  ASSUME ChannelInv, NEW channel \in BOOLEAN, NEW to \in SUBSET Routes, CommitMessage(channel, to)
  PROVE  ChannelInv'
<1>0. PICK stamp \in Times :
        journal' = Append(journal, [channel |-> channel, to |-> to, at |-> stamp])
  BY DEF CommitMessage
<1> DEFINE x == [channel |-> channel, to |-> to, at |-> stamp]
           n == Len(journal)
<1>1. /\ n < MaxEvents /\ journal' = Append(journal, x)
      /\ UNCHANGED <<member, admitted, local, route, runtime, worker, tasks, retry, injected, faults>>
  BY <1>0 DEF CommitMessage
<1>2. x \in Entry /\ journal \in Seq(Entry) /\ n \in Nat /\ MaxEvents \in Nat
  BY ChannelBounds DEF ChannelInv, ChannelType, Entry
<1>3. journal' \in Seq(Entry) /\ Len(journal') = n + 1 /\ \A p \in 1 .. n : journal'[p] = journal[p]
  BY <1>1, <1>2, AppendProperties
<1>4. ChannelType'
  BY <1>1, <1>2, <1>3 DEF ChannelInv, ChannelType, local
<1> HIDE DEF x
<1>5. ASSUME NEW r \in Routes PROVE RouteOK(r)'
  <2>1. RouteOK(r) /\ ChannelType
    BY DEF ChannelInv, RoutesOK
  <2>2. /\ From(r) \in Nat /\ route[r].cursor \in Nat /\ route[r].from \in Nat
        /\ call[r].from \in Nat /\ \A i \in 1 .. Len(injected[r]) : injected[r][i] \in Nat
        /\ \A i \in 1 .. Len(injected[r]) : injected[r][i] \in Positions
    BY <2>1, RouteNumbers
  <2>3. /\ Kept(r)' = Kept(r) /\ From(r)' = From(r) /\ route'[r] = route[r] /\ call'[r] = call[r]
        /\ clock' = clock /\ injected'[r] = injected[r]
    BY <1>1 DEF Kept, From, local
  <2>4. \A p \in 1 .. n : Owed(r, p)' = Owed(r, p) /\ Given(r, p)' = Given(r, p) /\ Due(r, p)' = Due(r, p)
    BY <1>1, <1>3 DEF Owed, Given, Due, Since, local
  <2>5. /\ route[r].cursor <= n /\ route[r].from <= n /\ call[r].from <= n
        /\ \A i \in 1 .. Len(injected[r]) : injected[r][i] <= n
    BY <2>1 DEF RouteOK
  <2>6. /\ \A p \in From(r) + 1 .. route[r].cursor : p \in 1 .. n
        /\ \A i \in 1 .. Len(injected[r]) : \A p \in From(r) + 1 .. injected[r][i] : p \in 1 .. n
    <3>1. ASSUME NEW f \in Nat, NEW c \in Nat, c <= n, NEW p \in f + 1 .. c PROVE p \in 1 .. n
      BY <1>2, <3>1
    <3> HIDE DEF n
    <3> QED BY <2>2, <2>5, <3>1
  <2>7. \A i \in 1 .. Len(injected[r]) : injected[r][i] \in 1 .. n
    BY <1>2, <2>2, <2>5 DEF Positions
  <2> HIDE DEF n
  <2>8. /\ route[r].cursor <= n + 1 /\ route[r].from <= n + 1 /\ call[r].from <= n + 1
        /\ \A i \in 1 .. Len(injected[r]) : injected[r][i] <= n + 1
    <3>1. n \in Nat /\ \A c \in Nat : c <= n => c <= n + 1
      BY <1>2
    <3> QED BY <2>2, <2>5, <3>1
  <2>9. Len(journal)' = n + 1
    BY <1>3
  <2> QED BY <2>1, <2>3, <2>4, <2>6, <2>7, <2>8, <2>9 DEF RouteOK
<1>6. ASSUME NEW a \in Asks \cup {NoAsk}, AskOK(a) PROVE AskOK(a)'
  <2>1. a # NoAsk => a.cursor \in Nat
    BY DEF Asks, Cursors
  <2> QED BY <1>1, <1>2, <1>3, <1>6, <2>1 DEF AskOK, Kept, From, Since, local
<1>7. ASSUME NEW todo \in Seq(Positions), NEW from \in Cursors, NEW upto \in Cursors,
             Sorted(todo, from, upto)
      PROVE  Sorted(todo, from, upto)' /\ \A p \in from + 1 .. upto : p \in 1 .. n
  <2>1. from \in Nat /\ upto \in Nat /\ upto <= n
    BY <1>7 DEF Sorted, Cursors
  <2>2. \A i \in 1 .. Len(todo) : todo[i] \in 1 .. n
    <3>1. \A i \in 1 .. Len(todo) : todo[i] \in Nat
      BY ElementOfSeq, Numbers DEF ChannelInv
    <3> QED BY <1>2, <1>7, <2>1, <3>1 DEF Sorted
  <2>3. \A p \in from + 1 .. upto : p \in 1 .. n
    BY <1>2, <2>1
  <2>4. \A i \in 1 .. Len(todo) : journal'[todo[i]] = journal[todo[i]]
    BY <1>3, <2>2
  <2>5. from <= upto /\ upto <= Len(journal') /\ Rising(todo)
    BY <1>2, <1>3, <1>7, <2>1 DEF Sorted
  <2>6. Rising(todo)' = Rising(todo)
    BY DEF Rising
  <2> QED BY <1>7, <2>3, <2>4, <2>5, <2>6 DEF Sorted
<1>8. WorkerOK'
  <2>1. worker \in Worker /\ WorkerOK
    BY DEF ChannelInv, ChannelType
  <2>2. AskOK(worker.current)' /\ AskOK(worker.resume)'
    BY <1>1, <1>6, <2>1 DEF WorkerOK, Worker
  <2>3. ASSUME worker.reply.st = "page" PROVE ReplyOK'
    <3> DEFINE a == worker.current
               todo == worker.reply.todo
               end == PageEnd(worker.reply, a.cursor)
    <3>1. a \in Asks /\ todo \in Seq(Positions) /\ Sorted(todo, a.cursor, end)
          /\ \A p \in a.cursor + 1 .. end : journal[p].channel => \E i \in 1 .. Len(todo) : todo[i] = p
      BY <2>1, <2>3 DEF WorkerOK, ReplyOK, Worker, Replies
    <3>2. a.cursor \in Cursors /\ end \in Cursors
      <4>1. a.cursor \in Cursors
        BY <3>1 DEF Asks
      <4>2. todo # <<>> => Last(todo) \in Positions
        BY <3>1 DEF Last
      <4> QED BY <4>1, <4>2 DEF PageEnd, Last, Positions, Cursors
    <3>3. Sorted(todo, a.cursor, end)' /\ \A p \in a.cursor + 1 .. end : p \in 1 .. n
      <4> HIDE DEF a, todo, end
      <4>1. /\ Sorted(todo, a.cursor, end) /\ todo \in Seq(Positions)
            /\ a.cursor \in Cursors /\ end \in Cursors
        BY <3>1, <3>2
      <4>2. PICK q \in Seq(Positions), f \in Cursors, e \in Cursors :
              q = todo /\ f = a.cursor /\ e = end
        BY <4>1
      <4>3. Sorted(q, f, e)' /\ \A p \in f + 1 .. e : p \in 1 .. n
        BY <1>7, <4>1, <4>2
      <4>4. todo' = todo /\ a' = a /\ end' = end
        BY <1>1 DEF todo, a, end, PageEnd
      <4> QED BY <4>2, <4>3, <4>4 DEF Sorted
    <3>4. a' = a /\ todo' = todo /\ end' = end /\ a # NoAsk
      BY <1>1, <3>1, ChannelBounds DEF PageEnd, ChannelInv
    <3>5. \A p \in a.cursor + 1 .. end : journal'[p] = journal[p]
      BY <1>3, <3>3
    <3>6. \A p \in a.cursor + 1 .. end : journal'[p].channel => \E i \in 1 .. Len(todo) : todo[i] = p
      BY <3>1, <3>5
    <3> QED BY <1>1, <3>3, <3>4, <3>6 DEF ReplyOK
  <2> QED BY <1>1, <2>2, <2>3 DEF WorkerOK, ReplyOK
<1>9. ASSUME NEW t \in tasks' PROVE TaskOK(t)'
  <2>1. t \in Task /\ TaskOK(t)
    BY <1>1 DEF ChannelInv, ChannelType, TasksOK
  <2>2. /\ t.ask \in Asks /\ t.todo \in Seq(Positions)
        /\ t.cursor \in Cursors /\ t.ask.cursor \in Cursors
    BY <2>1 DEF Task, Asks
  <2>3. Sorted(t.todo, t.ask.cursor, t.cursor)' /\ \A p \in t.ask.cursor + 1 .. t.cursor : p \in 1 .. n
    BY <1>7, <2>1, <2>2 DEF TaskOK
  <2>4. AskOK(t.ask)'
    BY <1>6, <2>1, <2>2 DEF TaskOK
  <2>5. \A p \in 1 .. n : Owed(t.ask.route, p)' = Owed(t.ask.route, p) /\ journal'[p] = journal[p]
                          /\ Given(t.ask.route, p)' = Given(t.ask.route, p)
    BY <1>1, <1>3 DEF Owed, Given
  <2> QED BY <2>1, <2>3, <2>4, <2>5 DEF TaskOK
<1> QED BY <1>4, <1>5, <1>8, <1>9 DEF ChannelInv, RoutesOK, TasksOK

-----------------------------------------------------------------------------
(* The route files.                                                        *)

\* A command or a file of a session changes: if the session keeps a route then,
\* either it is the one it had, or one that starts at the end of the journal.
LEMMA RouteStep ==
  ASSUME ChannelInv, ChannelType', NEW r \in Routes,
         UNCHANGED <<journal, worker, tasks, injected>>, clock <= clock',
         \A q \in Routes : q # r => route'[q] = route[q] /\ call'[q] = call[q],
         /\ route'[r].cursor <= Len(journal) /\ route'[r].from <= Len(journal)
         /\ call'[r].cursor <= call'[r].from /\ call'[r].from <= Len(journal)
         /\ route'[r].born <= clock',
         \/ ~Kept(r)'
         \/ /\ Kept(r) /\ From(r)' = From(r) /\ Since(r) <= Since(r)'
            /\ route[r].present => route'[r].present /\ route'[r].cursor = route[r].cursor
            /\ route'[r].present /\ ~route[r].present => route'[r].cursor <= From(r)
         \/ From(r)' = Len(journal) /\ Since(r)' = clock /\ ~route'[r].present
  PROVE  ChannelInv'
<1> DEFINE n == Len(journal)
<1>1. n \in Nat /\ worker \in Worker /\ tasks \subseteq Task /\ ChannelType
  BY ChannelBounds DEF ChannelInv, ChannelType
<1>2. ASSUME NEW q \in Routes
      PROVE  /\ \A p : Owed(q, p)' = Owed(q, p) /\ Given(q, p)' = Given(q, p)
             /\ From(q) \in Nat /\ From(q)' \in Nat /\ Since(q) \in Nat /\ Since(q)' \in Nat
             /\ \A p \in 1 .. n : journal[p].at \in Nat
             /\ route'[q].cursor \in Nat /\ clock \in Nat /\ clock' \in Nat
             /\ \A i \in 1 .. Len(injected[q]) :
                  injected[q][i] \in Nat /\ injected[q][i] <= n /\ injected[q][i] \in 1 .. n
  <2>1. /\ From(q) \in Nat /\ Since(q) \in Nat /\ clock \in Nat
        /\ \A p \in 1 .. n : journal[p].at \in Nat
        /\ \A i \in 1 .. Len(injected[q]) : injected[q][i] \in Nat /\ injected[q][i] \in Positions
    BY <1>1, RouteNumbers
  <2>2. route'[q] \in File /\ call'[q] \in Calls /\ clock' \in Times
    BY DEF ChannelType
  <2>3. From(q)' \in Nat /\ Since(q)' \in Nat /\ route'[q].cursor \in Nat /\ clock' \in Nat
    BY <1>1, <2>2, Numbers DEF From, Since, File, Calls
  <2>4. \A i \in 1 .. Len(injected[q]) : injected[q][i] <= n
    BY DEF ChannelInv, RoutesOK, RouteOK
  <2>5. \A p : Owed(q, p)' = Owed(q, p) /\ Given(q, p)' = Given(q, p)
    BY DEF Owed, Given
  <2>6. \A i \in 1 .. Len(injected[q]) : injected[q][i] \in 1 .. n
    BY <1>1, <2>1, <2>4 DEF Positions
  <2> QED BY <2>1, <2>3, <2>4, <2>5, <2>6
\* A session that kept its route has it still.
<1>3. ASSUME NEW q \in Routes, q # r
      PROVE  /\ Kept(q)' = Kept(q) /\ From(q)' = From(q) /\ Since(q) <= Since(q)'
             /\ route'[q] = route[q] /\ call'[q] = call[q]
  <2>1. route'[q] = route[q] /\ call'[q] = call[q]
    BY <1>3
  <2>2. Since(q)' = Since(q) \/ (Since(q) = clock /\ Since(q)' = clock')
    BY <2>1 DEF Since
  <2>3. Since(q) <= Since(q)'
    BY <1>2, <2>2
  <2> QED BY <2>1, <2>3 DEF Kept, From
<1>4. ASSUME NEW q \in Routes, Since(q) <= Since(q)', NEW p \in 1 .. n, Due(q, p)' PROVE Due(q, p)
  <2>1. journal[p].at \in Nat /\ Since(q) \in Nat /\ Since(q)' \in Nat /\ journal[p].at >= Since(q)'
    BY <1>2, <1>4 DEF Due
  <2> QED BY <1>2, <1>4, <2>1 DEF Due
<1>5. ASSUME NEW q \in Routes, RouteOK(q), Kept(q), From(q)' = From(q), Since(q) <= Since(q)'
      PROVE  /\ \A i \in 1 .. Len(injected[q]) :
                  \A p \in From(q)' + 1 .. injected[q][i] : Due(q, p)' => Given(q, p)'
             /\ \A i, j \in 1 .. Len(injected[q]) :
                  i < j /\ injected[q][j] > From(q)' /\ Due(q, injected[q][j])'
                    => injected[q][i] < injected[q][j]
  <2>1. ASSUME NEW i \in 1 .. Len(injected[q]), NEW p \in From(q) + 1 .. injected[q][i] PROVE p \in 1 .. n
    <3>1. injected[q][i] \in Nat /\ injected[q][i] <= n /\ From(q) \in Nat
      BY <1>2
    <3> QED BY <1>1, <2>1, <3>1
  <2>2. ASSUME NEW i \in 1 .. Len(injected[q]), NEW p \in From(q)' + 1 .. injected[q][i], Due(q, p)'
        PROVE  Given(q, p)'
    <3>1. p \in From(q) + 1 .. injected[q][i] /\ p \in 1 .. n
      BY <1>5, <2>1, <2>2
    <3>2. Due(q, p)
      BY <1>4, <1>5, <2>2, <3>1
    <3>3. Given(q, p)
      BY <1>5, <3>1, <3>2 DEF RouteOK
    <3> QED BY <1>2, <3>3
  <2>3. ASSUME NEW i \in 1 .. Len(injected[q]), NEW j \in 1 .. Len(injected[q]),
               i < j, injected[q][j] > From(q)', Due(q, injected[q][j])'
        PROVE  injected[q][i] < injected[q][j]
    <3>1. injected[q][j] \in 1 .. n
      BY <1>2
    <3>2. Due(q, injected[q][j])
      <4>1. PICK p \in 1 .. n : p = injected[q][j]
        BY <3>1
      <4>2. Due(q, p)'
        BY <2>3, <4>1 DEF Due, Owed, Since
      <4>3. Due(q, p)
        BY <1>4, <1>5, <4>2
      <4> QED BY <4>1, <4>3
    <3>3. injected[q][j] > From(q)
      BY <1>5, <2>3
    <3> QED BY <1>5, <2>3, <3>2, <3>3 DEF RouteOK
  <2> QED BY <2>2, <2>3
<1>6. ASSUME NEW q \in Routes PROVE RouteOK(q)'
  <2>1. RouteOK(q) /\ \A i \in 1 .. Len(injected[q]) : Owed(q, injected[q][i])'
    BY <1>2 DEF ChannelInv, RoutesOK, RouteOK
  <2>2. /\ route'[q].cursor <= n /\ route'[q].from <= n /\ route'[q].born <= clock'
        /\ call'[q].cursor <= call'[q].from /\ call'[q].from <= n
    <3>1. CASE q = r
      BY <3>1
    <3>2. CASE q # r
      <4>1. /\ route[q].cursor <= n /\ route[q].from <= n /\ route[q].born <= clock
            /\ call[q].cursor <= call[q].from /\ call[q].from <= n
        BY <2>1 DEF RouteOK
      <4>2. route[q].born \in Nat /\ clock \in Nat /\ clock' \in Nat
        BY <1>1, <1>2, RouteNumbers
      <4> QED BY <1>3, <3>2, <4>1, <4>2
    <3> QED BY <3>1, <3>2
  <2>3. CASE ~Kept(q)'
    BY <1>2, <2>1, <2>2, <2>3 DEF RouteOK, Kept
  <2>4. CASE /\ Kept(q) /\ From(q)' = From(q) /\ Since(q) <= Since(q)'
             /\ route[q].present => route'[q].present /\ route'[q].cursor = route[q].cursor
             /\ route'[q].present /\ ~route[q].present => route'[q].cursor <= From(q)
    <3>1. ASSUME route'[q].present, NEW p \in From(q)' + 1 .. route'[q].cursor, Due(q, p)'
          PROVE  Given(q, p)'
      <4>1. From(q) \in Nat /\ route'[q].cursor \in Nat /\ p \in 1 .. n /\ p > From(q)
        <5>1. From(q) \in Nat /\ route'[q].cursor \in Nat /\ route'[q].cursor <= n
              /\ From(q)' = From(q)
          BY <1>2, <2>2, <2>4
        <5> QED BY <1>1, <3>1, <5>1
      <4>2. route[q].present /\ route'[q].cursor = route[q].cursor
        BY <2>4, <3>1, <4>1
      <4>3. Due(q, p)
        BY <1>4, <2>4, <3>1, <4>1
      <4>4. p \in From(q) + 1 .. route[q].cursor
        BY <2>4, <3>1, <4>2
      <4>5. Given(q, p)
        BY <2>1, <4>2, <4>3, <4>4 DEF RouteOK
      <4> QED BY <1>2, <4>5
    <3> QED BY <1>2, <1>5, <2>1, <2>2, <2>4, <3>1 DEF RouteOK
  <2>5. CASE From(q)' = n /\ ~route'[q].present
    <3>1. ASSUME NEW i \in 1 .. Len(injected[q])
          PROVE  ~(injected[q][i] > n) /\ \A p \in n + 1 .. injected[q][i] : FALSE
      <4>1. injected[q][i] \in Nat /\ injected[q][i] <= n
        BY <1>2
      <4> QED BY <1>1, <4>1
    <3>2. \A i \in 1 .. Len(injected[q]) : injected[q][i] <= n
      BY <1>2
    <3>3. Kept(q)' => /\ \A i \in 1 .. Len(injected[q]) :
                           \A p \in From(q)' + 1 .. injected[q][i] : Due(q, p)' => Given(q, p)'
                      /\ \A i, j \in 1 .. Len(injected[q]) :
                           i < j /\ injected[q][j] > From(q)' /\ Due(q, injected[q][j])'
                             => injected[q][i] < injected[q][j]
      BY <2>5, <3>1
    <3> QED BY <2>1, <2>2, <2>5, <3>2, <3>3 DEF RouteOK
  <2>6. q # r => \/ ~Kept(q)'
                 \/ /\ Kept(q) /\ From(q)' = From(q) /\ Since(q) <= Since(q)'
                    /\ route[q].present => route'[q].present /\ route'[q].cursor = route[q].cursor
                    /\ route'[q].present /\ ~route[q].present => route'[q].cursor <= From(q)
    BY <1>3
  <2> QED BY <2>3, <2>4, <2>5, <2>6
<1>7. ASSUME NEW a \in Asks \cup {NoAsk}, AskOK(a) PROVE AskOK(a)'
  <2> SUFFICES ASSUME a # NoAsk PROVE AskOK(a)'
    BY DEF AskOK
  <2> DEFINE q == a.route
  <2>1. /\ q \in Routes /\ a.cursor \in Nat /\ a.born \in Nat /\ a.cursor <= n /\ a.born <= clock
    BY <1>1, <1>7, Numbers DEF AskOK, Asks
  <2>2. /\ a.born <= clock' /\ From(q) \in Nat /\ Since(q) \in Nat /\ Since(q)' \in Nat
    BY <1>2, <2>1
  <2>3. CASE ~Kept(q)'
    BY <2>1, <2>2, <2>3 DEF AskOK
  <2>4. CASE /\ Kept(q) /\ From(q)' = From(q) /\ Since(q) <= Since(q)'
             /\ route[q].present => route'[q].present /\ route'[q].cursor = route[q].cursor
    <3>1. /\ a.born <= Since(q)
          /\ a.cursor <= From(q) \/ (route[q].present /\ a.cursor <= route[q].cursor)
      BY <1>7, <2>4 DEF AskOK
    <3>2. a.born <= Since(q)'
      BY <2>1, <2>2, <2>4, <3>1
    <3> QED BY <2>1, <2>2, <2>4, <3>1, <3>2 DEF AskOK
  <2>5. CASE From(q)' = n /\ Since(q)' = clock
    BY <2>1, <2>2, <2>5 DEF AskOK
  <2>6. q # r => \/ ~Kept(q)'
                 \/ /\ Kept(q) /\ From(q)' = From(q) /\ Since(q) <= Since(q)'
                    /\ route[q].present => route'[q].present /\ route'[q].cursor = route[q].cursor
    BY <1>3, <2>1
  <2> HIDE DEF q
  <2>7. q = r \/ q # r
    OBVIOUS
  <2> QED BY <2>3, <2>4, <2>5, <2>6, <2>7
<1>8. WorkerOK'
  <2>1. AskOK(worker.current)' /\ AskOK(worker.resume)'
    BY <1>1, <1>7 DEF ChannelInv, WorkerOK, Worker
  <2>2. ReplyOK'
    BY DEF ChannelInv, WorkerOK, ReplyOK, Sorted, PageEnd
  <2> QED BY <2>1, <2>2 DEF WorkerOK
<1>9. ASSUME NEW t \in tasks' PROVE TaskOK(t)'
  <2>1. TaskOK(t) /\ t.ask \in Asks
    BY <1>1 DEF ChannelInv, TasksOK, Task
  <2>2. AskOK(t.ask)'
    BY <1>7, <2>1 DEF TaskOK
  <2> QED BY <2>1, <2>2 DEF TaskOK, Sorted, Owed, Given
<1> QED BY <1>6, <1>8, <1>9 DEF ChannelInv, RoutesOK, TasksOK

LEMMA NoFileType == NoFile \in File /\ Call("none") \in Calls /\ Call("leave") \in Calls
BY ChannelAssumption DEF NoFile, File, Call, Calls, Cursors, Times

\* The home answers a command of a session.
LEMMA AnsweredKeeps ==
  ASSUME ChannelInv, NEW r \in Routes, Leave(r) \/ \E cursor \in Cursors : Register(r, cursor)
  PROVE  ChannelInv'
<1>1. /\ ChannelType /\ RouteOK(r) /\ route[r] \in File /\ call[r] \in Calls
      /\ Len(journal) \in Nat /\ Len(journal) <= MaxEvents /\ MaxEvents \in Nat
      /\ call \in [Routes -> Calls] /\ member \subseteq Routes
      /\ From(r) \in Nat /\ Since(r) \in Nat /\ clock \in Nat
  BY ChannelBounds, RouteNumbers DEF ChannelInv, ChannelType, RoutesOK
<1>2. \E c \in Calls :
        /\ call' = [call EXCEPT ![r] = c] /\ call[r].op = "none"
        /\ \/ c = Call("leave")
           \/ c.op = "register" /\ c.from = Len(journal) /\ c.cursor <= c.from
  <2>1. CASE Leave(r)
    BY <2>1, NoFileType DEF Leave
  <2>2. CASE \E cursor \in Cursors : Register(r, cursor)
    <3>1. PICK cursor \in Cursors : Register(r, cursor)
      BY <2>2
    <3> DEFINE g == [op |-> "register", cursor |-> cursor, from |-> Len(journal)]
    <3>2. cursor <= Len(journal) /\ Len(journal) \in Cursors
      BY <1>1, <3>1 DEF Register, Cursors
    <3>3. g \in Calls
      BY <3>2 DEF Calls
    <3>4. call' = [call EXCEPT ![r] = g] /\ call[r].op = "none"
      BY <3>1 DEF Register
    <3>5. g.op = "register" /\ g.from = Len(journal) /\ g.cursor <= g.from
      BY <3>2
    <3> HIDE DEF g
    <3> QED BY <3>3, <3>4, <3>5
  <2> QED BY <2>1, <2>2
<1> PICK c \in Calls :
        /\ call' = [call EXCEPT ![r] = c] /\ call[r].op = "none"
        /\ \/ c = Call("leave")
           \/ c.op = "register" /\ c.from = Len(journal) /\ c.cursor <= c.from
  BY <1>2
<1>3. /\ UNCHANGED <<journal, admitted, clock, route, runtime, worker, tasks, retry, injected, faults>>
      /\ member' \subseteq Routes
  BY <1>1 DEF Leave, Register
<1>4. call' \in [Routes -> Calls] /\ call'[r] = c /\ \A q \in Routes : q # r => call'[q] = call[q]
  BY <1>1, <1>2
<1>5. ChannelType'
  BY <1>3, <1>4 DEF ChannelInv, ChannelType
<1>6. c.cursor <= c.from /\ c.from <= Len(journal)
  BY <1>1, <1>2 DEF Call
<1>7. CASE route[r].present
  <2>1. Kept(r) /\ From(r)' = From(r) /\ Since(r)' = Since(r)
    BY <1>3, <1>7 DEF Kept, From, Since
  <2> QED BY <1>1, <1>3, <1>4, <1>5, <1>6, <1>7, <2>1, RouteStep DEF RouteOK
<1>8. CASE ~route[r].present
  <2>1. CASE c = Call("leave")
    <3>1. ~Kept(r)'
      BY <1>3, <1>4, <1>8, <2>1 DEF Kept, Call
    <3> QED BY <1>1, <1>3, <1>4, <1>5, <1>6, <3>1, RouteStep DEF RouteOK
  <2>2. CASE c.from = Len(journal)
    <3>1. From(r)' = Len(journal) /\ Since(r)' = clock
      BY <1>3, <1>4, <1>8, <2>2 DEF From, Since
    <3> QED BY <1>1, <1>3, <1>4, <1>5, <1>6, <1>8, <3>1, RouteStep DEF RouteOK
  <2> QED BY <1>2, <2>1, <2>2
<1> QED BY <1>7, <1>8

\* A command ends: with the file written or removed, or without.
LEMMA CommandKeeps ==
  ASSUME ChannelInv, NEW r \in Routes, WriteRoute(r) \/ RemoveRoute(r) \/ CallFails(r)
  PROVE  ChannelInv'
<1>1. /\ ChannelType /\ RouteOK(r) /\ route[r] \in File /\ call[r] \in Calls
      /\ Len(journal) \in Nat /\ route \in [Routes -> File] /\ call \in [Routes -> Calls]
      /\ From(r) \in Nat /\ Since(r) \in Nat /\ clock \in Nat /\ MaxTime \in Nat
      /\ MaxFaults \in Nat /\ faults \in 0 .. MaxFaults /\ Call("none") \in Calls
  BY ChannelBounds, RouteNumbers, NoFileType DEF ChannelInv, ChannelType, RoutesOK
<1>2. /\ UNCHANGED <<home, runtime, worker, tasks, injected>> /\ faults' \in 0 .. MaxFaults
      /\ clock' \in Times /\ clock <= clock' /\ retry' \in {"ready", "waiting", "suppressed"}
      /\ call' = [call EXCEPT ![r] = Call("none")]
      /\ UNCHANGED <<journal, worker, tasks, injected>>
  <2>1. clock \in Times /\ retry \in {"ready", "waiting", "suppressed"}
    BY <1>1 DEF ChannelType
  <2>2. CASE WriteRoute(r)
    BY <1>1, <2>1, <2>2 DEF WriteRoute, Rewritten, Times, home
  <2>3. CASE RemoveRoute(r)
    BY <1>1, <2>1, <2>3 DEF RemoveRoute, home
  <2>4. CASE CallFails(r)
    BY <1>1, <2>1, <2>4 DEF CallFails, Fault, home
  <2> QED BY <2>2, <2>3, <2>4
<1>3. /\ call' \in [Routes -> Calls] /\ call'[r] = Call("none")
      /\ \A q \in Routes : q # r => call'[q] = call[q]
  BY <1>1, <1>2
<1>4. PICK f \in File : route' = [route EXCEPT ![r] = f]
                        /\ \/ f = route[r]
                           \/ f = NoFile
                           \/ /\ ~route[r].present /\ f.present /\ call[r].op = "register"
                              /\ f.cursor = call[r].cursor /\ f.from = call[r].from /\ f.born = clock'
  <2>1. CASE WriteRoute(r)
    <3> DEFINE g == [present |-> TRUE, cursor |-> call[r].cursor, born |-> clock', from |-> call[r].from]
    <3>1. route' = [route EXCEPT ![r] = IF route[r].present THEN route[r] ELSE g]
      BY <2>1 DEF WriteRoute, Upsert
    <3>2. g \in File
      BY <1>1, <1>2 DEF File, Calls
    <3>3. call[r].op = "register"
      BY <2>1 DEF WriteRoute
    <3> QED BY <1>1, <3>1, <3>2, <3>3
  <2>2. CASE RemoveRoute(r)
    BY <2>2, NoFileType DEF RemoveRoute
  <2>3. CASE CallFails(r)
    <3>1. route' = [route EXCEPT ![r] = route[r]]
      BY <1>1, <2>3 DEF CallFails
    <3> QED BY <1>1, <3>1
  <2> QED BY <2>1, <2>2, <2>3
<1>5. /\ route' \in [Routes -> File] /\ route'[r] = f
      /\ \A q \in Routes : q # r => route'[q] = route[q]
  BY <1>1, <1>4
<1>6. ChannelType'
  BY <1>2, <1>3, <1>5 DEF ChannelInv, ChannelType, home
<1>7. call'[r].cursor <= call'[r].from /\ call'[r].from <= Len(journal) /\ call'[r].op = "none"
  BY <1>1, <1>3 DEF Call
<1>8. /\ f.cursor <= Len(journal) /\ f.from <= Len(journal) /\ f.born <= clock'
  <2>1. /\ call[r].cursor \in Nat /\ call[r].from \in Nat /\ route[r].born \in Nat
        /\ clock' \in Nat
    BY <1>1, <1>2, RouteNumbers, Numbers
  <2> QED BY <1>1, <1>2, <1>4, <2>1 DEF RouteOK, NoFile
<1>9. CASE f.present /\ f = route[r]
  <2>1. Kept(r) /\ From(r)' = From(r) /\ Since(r)' = Since(r)
    BY <1>5, <1>9 DEF Kept, From, Since
  <2> QED BY <1>1, <1>2, <1>3, <1>5, <1>6, <1>7, <1>8, <1>9, <2>1, RouteStep
<1>10. CASE ~f.present
  <2>1. ~Kept(r)'
    BY <1>5, <1>7, <1>10 DEF Kept
  <2> QED BY <1>2, <1>3, <1>5, <1>6, <1>7, <1>8, <2>1, RouteStep
<1>11. CASE /\ ~route[r].present /\ f.present /\ call[r].op = "register"
            /\ f.cursor = call[r].cursor /\ f.from = call[r].from /\ f.born = clock'
  <2>1. Kept(r) /\ From(r)' = From(r) /\ Since(r)' = clock' /\ Since(r) = clock
        /\ From(r) = call[r].from
    BY <1>5, <1>11 DEF Kept, From, Since
  <2>2. route'[r].cursor <= From(r)
    BY <1>1, <1>5, <1>11, <2>1 DEF RouteOK
  <2> QED BY <1>1, <1>2, <1>3, <1>5, <1>6, <1>7, <1>8, <1>11, <2>1, <2>2, RouteStep
<1> QED BY <1>4, <1>9, <1>10, <1>11 DEF NoFile

-----------------------------------------------------------------------------
(* The worker.                                                             *)

LEMMA AnswerKeeps ==
  ASSUME ChannelInv, NEW k \in 0 .. MaxPage, Answer(k)
  PROVE  ChannelInv'
<1> DEFINE a == worker.current
           c == a.cursor
<1>1. /\ a \in Asks /\ worker \in Worker /\ ChannelType /\ WorkerOK /\ worker.reply.st = "none"
      /\ UNCHANGED <<home, local, route, runtime, tasks, retry, injected, faults>>
  BY DEF Answer, ChannelInv, ChannelType, Worker
<1>2. c \in Cursors /\ c <= Len(journal) /\ a # NoAsk
  BY <1>1, ChannelBounds DEF Asks, WorkerOK, AskOK, Kept, From, Since, local
<1>3. PICK x \in Replies :
        /\ worker' = [worker EXCEPT !.reply = x]
        /\ x = Reply("refused") \/ (x = Page(c, k) /\ k \in 0 .. Len(MessagesAfter(c)))
  <2>1. Reply("refused") \in Replies
    <3>1. <<>> \in Seq(Positions)
      OBVIOUS
    <3> QED BY <3>1 DEF Reply, Replies
  <2>2. k \in Nat /\ Len(MessagesAfter(c)) \in Nat
    <3>1. MessagesAfter(c) \in Seq(Positions)
      BY <1>1, <1>2, MessagesAre
    <3> QED BY <1>1, <3>1, ChannelBounds
  <2>3. k <= Len(MessagesAfter(c)) =>
          k \in 0 .. Len(MessagesAfter(c)) /\ Page(c, k) \in Replies
    BY <1>1, <1>2, <2>2, PageIs
  <2> QED BY <2>1, <2>3 DEF Answer
<1>4. worker' \in Worker /\ worker'.reply = x /\ worker'.current = a /\ worker'.resume = worker.resume
  <2>1. worker \in Worker /\ x \in Replies /\ worker' = [worker EXCEPT !.reply = x]
    BY <1>1, <1>3
  <2>2. worker' \in Worker
    BY <2>1 DEF Worker
  <2>3. worker'.reply = x /\ worker'.current = worker.current /\ worker'.resume = worker.resume
    BY <2>1 DEF Worker
  <2> QED BY <2>2, <2>3
<1>5. ChannelType'
  BY <1>1, <1>4 DEF ChannelType, home, local
<1>6. WorkerOK'
  <2>1. CASE x = Reply("refused")
    <3>1. worker'.reply.st # "page" /\ UNCHANGED <<journal, route, local>>
      BY <1>1, <1>4, <2>1 DEF Reply, home, local
    <3> QED BY <1>1, <1>4, <3>1, SilentWorker
  <2>2. CASE x = Page(c, k) /\ k \in 0 .. Len(MessagesAfter(c))
    <3>1. /\ Sorted(x.todo, c, PageEnd(x, c))
          /\ \A p \in c + 1 .. PageEnd(x, c) : journal[p].channel =>
               \E i \in 1 .. Len(x.todo) : x.todo[i] = p
      BY <1>1, <1>2, <2>2, PageIs
    <3>2. AskOK(worker.current)' /\ AskOK(worker.resume)'
      BY <1>1, <1>4 DEF WorkerOK, AskOK, home, Kept, From, Since, local
    <3>3. ReplyOK'
      <4>1. journal' = journal
        BY <1>1 DEF home, local
      <4> HIDE DEF a
      <4> QED BY <1>2, <1>4, <3>1, <4>1 DEF ReplyOK, Sorted, PageEnd
    <3> QED BY <3>2, <3>3 DEF WorkerOK
  <2> QED BY <1>3, <2>1, <2>2
<1> QED BY <1>1, <1>5, <1>6, QuietStep DEF home, local

LEMMA IdleKeeps ==
  ASSUME ChannelInv, Discover \/ Connected
  PROVE  ChannelInv'
<1>1. /\ UNCHANGED <<home, local, route, runtime, tasks, retry, injected, faults>> /\ worker \in Worker
      /\ ChannelType /\ WorkerOK
  BY DEF Discover, Connected, ChannelInv, ChannelType
<1>2. CASE Discover
  <2>1. worker' = [NoWorker EXCEPT !.st = "connecting"]
    BY <1>2 DEF Discover
  <2>2. worker' \in Worker
    BY <2>1, NoWorkerType DEF Worker
  <2>3. worker'.current = NoAsk /\ worker'.resume = NoAsk /\ worker'.reply.st # "page"
    BY <2>1 DEF NoWorker, Reply
  <2>4. ChannelType'
    BY <1>1, <2>2 DEF ChannelType, home, local
  <2>5. WorkerOK'
    BY <1>1, <2>3, SilentWorker DEF home, local
  <2> QED BY <1>1, <2>4, <2>5, QuietStep DEF home, local
<1>3. CASE Connected
  <2>1. worker' = [worker EXCEPT !.st = "connected"]
    BY <1>3 DEF Connected
  <2>2. worker' \in Worker /\ worker'.current = worker.current /\ worker'.resume = worker.resume
        /\ worker'.reply = worker.reply
    BY <1>1, <2>1 DEF Worker
  <2>3. ChannelType'
    BY <1>1, <2>2 DEF ChannelType, home, local
  <2>4. WorkerOK'
    BY <1>1, <2>2 DEF WorkerOK, ReplyOK, AskOK, Sorted, PageEnd, home, Kept, From, Since, local
  <2> QED BY <1>1, <2>3, <2>4, QuietStep DEF home, local
<1> QED BY <1>2, <1>3

LEMMA PresentAre ==
  ASSUME ChannelType, Present # {}, NEW index \in Nat
  PROVE  LET files == Ascending(Present)
         IN  (index % Len(files)) + 1 \in Nat /\ files[(index % Len(files)) + 1] \in Present
<1> DEFINE files == Ascending(Present)
           n == Len(files)
<1>1. Present \in SUBSET (1 .. NumRoutes) /\ NumRoutes \in Nat
  BY ChannelBounds DEF Present, Routes
<1>2. files \in Seq(Present) /\ n = Cardinality(Present) /\ IsFiniteSet(Present)
  BY <1>1, AscendingIs
<1>3. n \in Nat \ {0}
  BY <1>2, FS_EmptySet, FS_CardinalityType
<1> HIDE DEF n
<1>4. (index % n) + 1 \in 1 .. n
  BY <1>3
<1> QED BY <1>2, <1>4, ElementOfSeq DEF n

LEMMA AskOfIs ==
  ASSUME ChannelInv, NEW r \in Present
  PROVE  AskOf(r) \in Asks /\ AskOK(AskOf(r))
<1>1. r \in Routes /\ route[r] \in File /\ RouteOK(r) /\ route[r].present
  BY DEF Present, ChannelInv, ChannelType, RoutesOK
<1>2. AskOf(r) \in Asks /\ AskOf(r).route = r /\ AskOf(r).cursor = route[r].cursor
      /\ AskOf(r).born = route[r].born
  BY <1>1 DEF AskOf, File, Asks
<1>3. route[r].cursor \in Nat /\ route[r].born \in Nat
  BY <1>1, Numbers DEF File, ChannelInv
<1> QED BY <1>1, <1>2, <1>3 DEF AskOK, RouteOK, Since

LEMMA PollKeeps ==
  ASSUME ChannelInv, Poll
  PROVE  ChannelInv'
<1>1. /\ worker \in Worker /\ worker.current = NoAsk /\ ChannelType /\ WorkerOK
      /\ UNCHANGED <<home, local, route, runtime, tasks, injected, faults>> /\ UNCHANGED <<journal, route, local>>
  BY DEF Poll, ChannelInv, ChannelType, home, local
<1>2. worker.reply.st # "page"
  BY <1>1 DEF WorkerOK, ReplyOK
<1>3. worker' \in Worker /\ retry' \in {"ready", "waiting", "suppressed"} /\ WorkerOK'
  <2>1. CASE worker.resume # NoAsk
    <3>1. worker' = [worker EXCEPT !.current = worker.resume, !.resume = NoAsk] /\ retry' = retry
      BY <2>1 DEF Poll
    <3>2. worker' \in Worker /\ worker'.current = worker.resume /\ worker'.resume = NoAsk
          /\ worker'.reply = worker.reply
      BY <1>1, <3>1 DEF Worker
    <3>3. WorkerOK'
      BY <1>1, <1>2, <3>2, SilentWorker
    <3> QED BY <1>1, <3>1, <3>2, <3>3 DEF ChannelType
  <2>2. CASE worker.resume = NoAsk /\ Present = {}
    <3>1. Closed(TRUE)
      BY <2>2 DEF Poll
    <3> QED BY <1>1, <3>1, ClosedIs
  <2>3. CASE worker.resume = NoAsk /\ Present # {}
    <3>1. PICK r \in Present, j \in Nat :
            worker' = [worker EXCEPT !.current = AskOf(r), !.index = j] /\ retry' = retry
      <4>1. worker.index \in Nat
        BY <1>1 DEF Worker
      <4>2. /\ (worker.index % Len(Ascending(Present))) + 1 \in Nat
            /\ Ascending(Present)[(worker.index % Len(Ascending(Present))) + 1] \in Present
        BY <1>1, <2>3, <4>1, PresentAre
      <4> DEFINE m == (worker.index % Len(Ascending(Present))) + 1
                 q == Ascending(Present)[m]
      <4>3. worker' = [worker EXCEPT !.current = AskOf(q), !.index = m] /\ retry' = retry
        BY <2>3 DEF Poll
      <4>4. q \in Present /\ m \in Nat
        BY <4>2
      <4> HIDE DEF m, q
      <4> QED BY <4>3, <4>4, Zenon
    <3>2. AskOf(r) \in Asks /\ AskOK(AskOf(r))
      BY <3>1, AskOfIs
    <3>3. worker' \in Worker /\ worker'.current = AskOf(r) /\ worker'.resume = worker.resume
          /\ worker'.reply = worker.reply
      BY <1>1, <3>1, <3>2 DEF Worker
    <3>4. AskOK(worker.current)' /\ AskOK(worker.resume)'
      BY <1>1, <3>2, <3>3 DEF AskOK, WorkerOK, Kept, From, Since, local
    <3>5. ReplyOK'
      BY <1>2, <3>3 DEF ReplyOK
    <3> QED BY <1>1, <3>1, <3>3, <3>4, <3>5 DEF WorkerOK, ChannelType
  <2> QED BY <2>1, <2>2, <2>3
<1>4. ChannelType'
  BY <1>1, <1>3 DEF ChannelType, home, local
<1> QED BY <1>1, <1>3, <1>4, QuietStep DEF home, local

LEMMA AcceptKeeps ==
  ASSUME ChannelInv, Accept
  PROVE  ChannelInv'
<1>1. /\ worker \in Worker /\ ChannelType /\ WorkerOK /\ tasks \subseteq Task
      /\ UNCHANGED <<home, local, route, runtime, injected, faults>> /\ UNCHANGED <<journal, route, local>>
      /\ worker.reply \in Replies
  BY DEF Accept, ChannelInv, ChannelType, Worker, home, local
<1>2. CASE worker.reply.st = "refused"
  <2>1. Closed(TRUE) /\ tasks' = tasks
    BY <1>2 DEF Accept
  <2>2. worker' \in Worker /\ retry' \in {"ready", "waiting", "suppressed"} /\ WorkerOK'
    BY <1>1, <2>1, ClosedIs
  <2>3. ChannelType'
    BY <1>1, <2>1, <2>2 DEF ChannelType, home, local
  <2> QED BY <1>1, <2>1, <2>2, <2>3, QuietStep
<1>3. CASE worker.reply.st # "refused"
  <2> DEFINE a == worker.current
             end == PageEnd(worker.reply, a.cursor)
             t == [ask |-> a, todo |-> worker.reply.todo, more |-> worker.reply.more, own |-> TRUE,
                   cursor |-> end]
  <2>1. worker.reply.st = "page" /\ a \in Asks /\ ReplyOK /\ AskOK(a)
    BY <1>1, <1>3 DEF Accept, Replies, WorkerOK, ReplyOK, Worker
  <2>2. /\ worker' = [worker EXCEPT !.current = NoAsk, !.reply = Reply("none")]
        /\ tasks' = tasks \cup {t} /\ retry' = retry
    BY <1>3 DEF Accept
  <2>3. end \in Cursors
    <3>1. a.cursor \in Cursors /\ worker.reply.todo \in Seq(Positions)
      BY <1>1, <2>1 DEF Asks, Replies
    <3>2. worker.reply.todo # <<>> => Last(worker.reply.todo) \in Positions
      BY <3>1 DEF Last
    <3> QED BY <3>1, <3>2 DEF PageEnd, Last, Positions, Cursors
  <2>4. t \in Task
    BY <1>1, <2>1, <2>3 DEF Task, Replies
  <2>5. /\ Sorted(t.todo, a.cursor, t.cursor)
        /\ \A p \in a.cursor + 1 .. t.cursor :
             journal[p].channel => \E i \in 1 .. Len(t.todo) : t.todo[i] = p
    BY <2>1 DEF ReplyOK
  <2>6. TaskOK(t)
    BY <2>1, <2>5 DEF TaskOK, Owed
  <2>7. worker' \in Worker /\ worker'.current = NoAsk /\ worker'.resume = worker.resume
        /\ worker'.reply.st # "page"
    <3>1. NoWorker.reply = Reply("none") /\ NoWorker.reply \in Replies
      BY NoWorkerType DEF NoWorker, Worker
    <3> QED BY <1>1, <2>2, <3>1 DEF Worker, Reply
  <2>8. WorkerOK'
    BY <1>1, <2>7, SilentWorker
  <2>9. ChannelType'
    BY <1>1, <2>2, <2>4, <2>7 DEF ChannelType, home, local
  <2> HIDE DEF t
  <2>10. RoutesOK'
    <3> SUFFICES ASSUME NEW r \in Routes PROVE RouteOK(r)'
      BY DEF RoutesOK
    <3>1. RouteOK(r)
      BY DEF ChannelInv, RoutesOK
    <3>2. UNCHANGED <<journal, route, local, injected>>
      BY <1>1
    <3> QED BY <3>1, <3>2 DEF RouteOK, Owed, Given, Kept, From, Since, Due, local
  <2>11. ASSUME NEW u \in tasks' PROVE TaskOK(u)'
    <3>1. TaskOK(u)
      BY <2>2, <2>6 DEF ChannelInv, TasksOK
    <3> QED BY <1>1, <3>1 DEF TaskOK, AskOK, Sorted, Owed, Given, Kept, From, Since, local
  <2> QED BY <2>8, <2>9, <2>10, <2>11 DEF ChannelInv, TasksOK
<1> QED BY <1>2, <1>3

-----------------------------------------------------------------------------
(* Deliveries.                                                             *)

\* What is due up to the cursor a handler asked with was given before.
LEMMA AskedIsGiven ==
  ASSUME ChannelInv, NEW t \in tasks, NEW p \in Nat, Kept(t.ask.route),
         From(t.ask.route) < p, p <= t.ask.cursor, Due(t.ask.route, p)
  PROVE  Given(t.ask.route, p)
<1> DEFINE r == t.ask.route
<1>1. t.ask \in Asks /\ AskOK(t.ask) /\ t.ask # NoAsk /\ r \in Routes
  BY ChannelBounds DEF ChannelInv, ChannelType, TasksOK, TaskOK, Task, Asks
<1>2. RouteOK(r) /\ ChannelType
  BY <1>1 DEF ChannelInv, RoutesOK
<1>3. route[r].cursor \in Nat /\ From(r) \in Nat /\ t.ask.cursor \in Nat
  BY <1>1, <1>2, RouteNumbers, Numbers DEF Asks
<1>4. route[r].present /\ t.ask.cursor <= route[r].cursor
  BY <1>1, <1>3 DEF AskOK
<1>5. p \in From(r) + 1 .. route[r].cursor
  BY <1>3, <1>4
<1> QED BY <1>2, <1>4, <1>5 DEF RouteOK

\* What is due before the next message of a handler was given.
LEMMA BeforeIsGiven ==
  ASSUME ChannelInv, NEW t \in tasks, NEW p \in Nat, Kept(t.ask.route),
         From(t.ask.route) < p, p <= t.cursor, Due(t.ask.route, p),
         t.todo # <<>> => p < Head(t.todo)
  PROVE  Given(t.ask.route, p)
<1> DEFINE r == t.ask.route
<1>1. /\ t \in Task /\ TaskOK(t) /\ AskOK(t.ask) /\ t.ask \in Asks /\ t.ask # NoAsk
      /\ Sorted(t.todo, t.ask.cursor, t.cursor) /\ t.todo \in Seq(Positions) /\ r \in Routes
      /\ ChannelType
  BY ChannelBounds DEF ChannelInv, ChannelType, TasksOK, TaskOK, Task, Asks
<1>2. /\ t.cursor \in Nat /\ t.ask.cursor \in Nat /\ t.ask.born \in Nat
      /\ From(r) \in Nat /\ Since(r) \in Nat /\ Len(journal) \in Nat
  BY <1>1, Numbers, RouteNumbers, ChannelBounds DEF Task, Asks
<1>3. CASE p <= t.ask.cursor
  BY <1>3, AskedIsGiven
<1>4. CASE ~(p <= t.ask.cursor)
  <2>1. p \in t.ask.cursor + 1 .. t.cursor /\ p \in 1 .. Len(journal)
    BY <1>1, <1>2, <1>4 DEF Sorted
  <2>2. journal[p].at >= t.ask.born /\ Owed(r, p)
    <3>1. journal[p].at \in Nat
      BY <1>1, <2>1, RouteNumbers
    <3>2. t.ask.born <= Since(r) /\ journal[p].at >= Since(r) /\ Owed(r, p)
      BY <1>1 DEF AskOK, Due
    <3> QED BY <1>2, <3>1, <3>2
  <2>3. SUFFICES ASSUME NEW i \in 1 .. Len(t.todo), t.todo[i] = p PROVE FALSE
    BY <1>1, <2>1, <2>2 DEF TaskOK
  <2>4. t.todo # <<>> /\ Head(t.todo) = t.todo[1] /\ 1 \in 1 .. Len(t.todo) /\ Len(t.todo) \in Nat
    BY <1>1, <2>3
  <2>5. t.todo[1] \in Nat
    BY <1>1, <2>4, ElementOfSeq, Numbers DEF ChannelInv
  <2>6. i # 1 => t.todo[1] < t.todo[i]
    BY <1>1, <2>3, <2>4 DEF Sorted, Rising
  <2> QED BY <2>3, <2>4, <2>5, <2>6
<1> QED BY <1>3, <1>4

\* The rest of a page.
LEMMA RestOfPage ==
  ASSUME ChannelType, NEW from \in Cursors, NEW upto \in Cursors,
         NEW todo \in Seq(Positions), todo # <<>>, Sorted(todo, from, upto)
  PROVE  /\ Tail(todo) \in Seq(Positions) /\ Sorted(Tail(todo), from, upto)
         /\ Head(todo) \in Positions /\ from < Head(todo) /\ Head(todo) <= upto
         /\ Head(todo) <= Len(journal) /\ journal[Head(todo)].channel
         /\ \A p : (\E i \in 1 .. Len(todo) : todo[i] = p) =>
              p = Head(todo) \/ \E i \in 1 .. Len(Tail(todo)) : Tail(todo)[i] = p
<1>1. /\ Head(todo) = todo[1] /\ Len(todo) \in Nat \ {0} /\ Tail(todo) \in Seq(Positions)
      /\ Len(Tail(todo)) = Len(todo) - 1 /\ \A i \in 1 .. Len(todo) - 1 : Tail(todo)[i] = todo[i + 1]
  OBVIOUS
<1>2. \A i \in 1 .. Len(todo) - 1 : i + 1 \in 1 .. Len(todo)
  BY <1>1
<1>3. Rising(Tail(todo))
  BY <1>1, <1>2 DEF Sorted, Rising
<1>4. Sorted(Tail(todo), from, upto)
  BY <1>1, <1>2, <1>3 DEF Sorted
<1>5. 1 \in 1 .. Len(todo) /\ todo[1] \in Positions
  BY <1>1, ElementOfSeq
<1>6. from < todo[1] /\ todo[1] <= upto /\ upto <= Len(journal) /\ journal[todo[1]].channel
  BY <1>5 DEF Sorted
<1>7. todo[1] <= Len(journal)
  <2>1. todo[1] \in Nat /\ upto \in Nat /\ Len(journal) \in Nat
    BY <1>5, Numbers, ChannelBounds
  <2> QED BY <1>6, <2>1
<1>8. ASSUME NEW i \in 1 .. Len(todo), i # 1
      PROVE  i - 1 \in 1 .. Len(Tail(todo)) /\ Tail(todo)[i - 1] = todo[i]
  BY <1>1, <1>8
<1>9. ASSUME NEW p, NEW i \in 1 .. Len(todo), todo[i] = p
      PROVE  p = Head(todo) \/ \E k \in 1 .. Len(Tail(todo)) : Tail(todo)[k] = p
  <2>1. CASE i = 1
    BY <1>1, <1>9, <2>1
  <2>2. CASE i # 1
    BY <1>8, <1>9, <2>2
  <2> QED BY <2>1, <2>2
<1>10. Head(todo) = todo[1]
  BY <1>1
<1> QED BY <1>4, <1>5, <1>6, <1>7, <1>9, <1>10

\* A session is given its next message: the ones before it were given, and it
\* comes after them.
LEMMA InjectedKeeps ==
  ASSUME ChannelInv, NEW t \in tasks, t.todo # <<>>, UNCHANGED <<journal, route, local>>,
         Owed(t.ask.route, Head(t.todo)), ~Given(t.ask.route, Head(t.todo)),
         injected' = [injected EXCEPT ![t.ask.route] = Append(@, Head(t.todo))]
  PROVE  RoutesOK'
<1> DEFINE p == Head(t.todo)
           r == t.ask.route
           s == injected[r]
           n == Len(s)
<1>1. /\ t \in Task /\ r \in Routes /\ t.cursor \in Cursors /\ t.todo \in Seq(Positions)
      /\ t.ask.cursor \in Cursors /\ Sorted(t.todo, t.ask.cursor, t.cursor)
      /\ injected \in [Routes -> Seq(Positions)] /\ s \in Seq(Positions) /\ ChannelType
  BY DEF ChannelInv, ChannelType, Task, Asks, TasksOK, TaskOK
<1>2. p \in Positions /\ p \in Nat /\ p <= Len(journal) /\ p <= t.cursor
  BY <1>1, RestOfPage, Numbers
<1>3. RouteOK(r) /\ From(r) \in Nat /\ t.cursor \in Nat
  BY <1>1, Numbers, RouteNumbers DEF ChannelInv, RoutesOK
<1>4. ASSUME NEW q \in Nat, Kept(r), From(r) < q, q < p, Due(r, q) PROVE Given(r, q)
  <2>1. q <= t.cursor
    BY <1>2, <1>3, <1>4
  <2> QED BY <1>4, <2>1, BeforeIsGiven
<1> HIDE DEF p, r
<1>5. injected' = [injected EXCEPT ![r] = Append(s, p)]
  BY DEF p, r
<1>6. /\ injected'[r] = Append(s, p) /\ n \in Nat
      /\ \A q \in Routes \ {r} : injected'[q] = injected[q]
  BY <1>1, <1>5
<1>7. /\ Len(injected'[r]) = n + 1 /\ injected'[r][n + 1] = p
      /\ \A i \in 1 .. n : injected'[r][i] = s[i]
  BY <1>1, <1>2, <1>6, AppendProperties
<1> HIDE DEF s, n
<1>8. \A i \in 1 .. n : s[i] \in Nat
  BY <1>1, Numbers, ElementOfSeq DEF n
<1>9. \A i \in 1 .. n + 1 : i \in 1 .. n \/ i = n + 1
  BY <1>6
<1>10. \A q : Given(r, q)' <=> Given(r, q) \/ q = p
  <2>1. 1 .. n \subseteq 1 .. n + 1 /\ n + 1 \in 1 .. n + 1
    BY <1>6
  <2> QED BY <1>7, <1>9, <2>1 DEF Given, s, n
<1>11. \A i \in 1 .. n : s[i] <= Len(journal)
  BY <1>3 DEF RouteOK, s, n
<1>12. ASSUME Kept(r)
       PROVE  /\ \A i \in 1 .. n + 1 : \A q \in From(r) + 1 .. injected'[r][i] :
                   Due(r, q) => Given(r, q)'
              /\ \A i, j \in 1 .. n + 1 :
                   i < j /\ injected'[r][j] > From(r) /\ Due(r, injected'[r][j])
                     => injected'[r][i] < injected'[r][j]
  <2>2. ASSUME NEW i \in 1 .. n + 1, NEW q \in From(r) + 1 .. injected'[r][i], Due(r, q)
        PROVE  Given(r, q)'
    <3>1. CASE i \in 1 .. n
      BY <1>3, <1>7, <1>10, <1>12, <2>2, <3>1 DEF RouteOK, s, n
    <3>2. CASE i = n + 1
      <4>1. q \in Nat /\ From(r) < q /\ (q < p \/ q = p)
        BY <1>2, <1>3, <1>7, <2>2, <3>2
      <4> QED BY <1>4, <1>10, <1>12, <2>2, <4>1
    <3> QED BY <1>9, <3>1, <3>2
  <2>3. ASSUME NEW i \in 1 .. n + 1, NEW j \in 1 .. n + 1, i < j, injected'[r][j] > From(r),
               Due(r, injected'[r][j])
        PROVE  injected'[r][i] < injected'[r][j]
    <3>1. CASE j \in 1 .. n
      <4>1. i \in 1 .. n
        BY <1>6, <2>3, <3>1
      <4> QED BY <1>3, <1>7, <1>12, <2>3, <3>1, <4>1 DEF RouteOK, s, n
    <3>2. CASE j = n + 1
      <4>1. i \in 1 .. n /\ injected'[r][i] = s[i] /\ From(r) < p /\ Due(r, p) /\ injected'[r][j] = p
        <5>1. i \in 1 .. n
          BY <1>6, <2>3, <3>2
        <5>2. injected'[r][i] = s[i] /\ injected'[r][j] = p
          BY <1>7, <3>2, <5>1
        <5> QED BY <2>3, <5>1, <5>2
      <4>2. SUFFICES ASSUME ~(s[i] < p) PROVE FALSE
        BY <4>1
      <4>3. p \in From(r) + 1 .. s[i]
        BY <1>2, <1>3, <1>8, <4>1, <4>2
      <4>4. Given(r, p)
        BY <1>3, <1>12, <4>1, <4>3 DEF RouteOK, s, n
      <4> QED BY <4>4 DEF p, r
    <3> QED BY <1>9, <3>1, <3>2
  <2> QED BY <2>2, <2>3
<1>13. RouteOK(r)'
  <2>1. \A i \in 1 .. n + 1 : injected'[r][i] <= Len(journal)
    BY <1>2, <1>7, <1>9, <1>11
  <2>2. /\ \A q : Owed(r, q)' = Owed(r, q) /\ Due(r, q)' = Due(r, q)
        /\ Kept(r)' = Kept(r) /\ From(r)' = From(r)
    BY DEF Owed, Due, Since, Kept, From, local, r
  <2>3. \A i \in 1 .. n + 1 : Owed(r, injected'[r][i])
    <3>1. \A i \in 1 .. n : Owed(r, s[i])
      BY <1>3 DEF RouteOK, s, n
    <3>2. Owed(r, p)
      BY DEF p, r
    <3> QED BY <1>7, <1>9, <3>1, <3>2
  <2>4. /\ route'[r] = route[r] /\ call'[r] = call[r] /\ clock' = clock /\ journal' = journal
    BY DEF local
  <2>5. route[r].present => \A q \in From(r) + 1 .. route[r].cursor : Due(r, q) => Given(r, q)'
    BY <1>3, <1>10 DEF RouteOK
  <2> QED BY <1>3, <1>7, <1>12, <2>1, <2>2, <2>3, <2>4, <2>5 DEF RouteOK
<1>14. ASSUME NEW q \in Routes, q # r PROVE RouteOK(q)'
  <2>1. RouteOK(q) /\ injected'[q] = injected[q]
    BY <1>6, <1>14 DEF ChannelInv, RoutesOK
  <2>2. /\ \A x : Owed(q, x)' = Owed(q, x) /\ Given(q, x)' = Given(q, x) /\ Due(q, x)' = Due(q, x)
        /\ Kept(q)' = Kept(q) /\ From(q)' = From(q)
    BY <2>1 DEF Owed, Given, Due, Since, Kept, From, local
  <2>3. /\ route'[q] = route[q] /\ call'[q] = call[q] /\ clock' = clock
        /\ Len(journal)' = Len(journal)
    BY DEF local
  <2> QED BY <2>1, <2>2, <2>3 DEF RouteOK
<1> QED BY <1>13, <1>14 DEF RoutesOK

LEMMA DeliverKeeps ==
  ASSUME ChannelInv, NEW t \in tasks, Deliver(t)
  PROVE  ChannelInv'
<1> DEFINE p == Head(t.todo)
           r == t.ask.route
           wanted == journal[p].at >= t.ask.born /\ Owed(r, p)
           u == [t EXCEPT !.todo = Tail(@)]
<1>1. /\ ChannelType /\ t \in Task /\ TaskOK(t) /\ t.todo # <<>> /\ t.todo \in Seq(Positions)
      /\ t.ask \in Asks /\ r \in Routes /\ t.cursor \in Cursors /\ t.ask.cursor \in Cursors
      /\ UNCHANGED <<home, local, route, runtime, worker, retry, faults>> /\ UNCHANGED <<journal, route, local>>
  BY DEF Deliver, ChannelInv, ChannelType, TasksOK, Task, Asks, home, local
<1>2. /\ Tail(t.todo) \in Seq(Positions) /\ Sorted(Tail(t.todo), t.ask.cursor, t.cursor)
      /\ p \in Positions /\ journal[p].channel
      /\ \A x : (\E i \in 1 .. Len(t.todo) : t.todo[i] = x) =>
           x = p \/ \E i \in 1 .. Len(Tail(t.todo)) : Tail(t.todo)[i] = x
  <2>1. Sorted(t.todo, t.ask.cursor, t.cursor)
    BY <1>1 DEF TaskOK
  <2> QED BY <1>1, <2>1, RestOfPage
<1>3. u \in Task /\ u.ask = t.ask /\ u.cursor = t.cursor /\ u.todo = Tail(t.todo)
  BY <1>1, <1>2 DEF Task
<1>4. tasks' = tasks \ {t} \/ (tasks' = (tasks \ {t}) \cup {u} /\ (wanted => r \in runtime))
  BY <1>2 DEF Deliver, Owed
<1>5. injected' = IF wanted /\ r \in runtime THEN Injected(r, p) ELSE injected
  BY <1>2 DEF Deliver, Owed
<1>6. injected \in [Routes -> Seq(Positions)] /\ injected[r] \in Seq(Positions)
  BY <1>1 DEF ChannelType
<1> HIDE DEF p, r, u
<1>7. Injected(r, p) = IF Given(r, p) THEN injected
                       ELSE [injected EXCEPT ![r] = Append(injected[r], p)]
  <2>1. p \in {injected[r][i] : i \in 1 .. Len(injected[r])} <=> Given(r, p)
    BY DEF Given
  <2>2. injected = [injected EXCEPT ![r] = injected[r]]
    BY <1>6
  <2> QED BY <2>1, <2>2 DEF Injected
<1>8. \/ injected' = injected /\ (wanted /\ r \in runtime => Given(r, p))
      \/ /\ wanted /\ ~Given(r, p)
         /\ injected' = [injected EXCEPT ![r] = Append(injected[r], p)]
  BY <1>5, <1>7
<1>9. injected' \in [Routes -> Seq(Positions)]
  <2>1. Append(injected[r], p) \in Seq(Positions)
    BY <1>2, <1>6, AppendProperties
  <2> QED BY <1>6, <1>8, <2>1
<1>10. /\ \A q \in Routes : \A x : Given(q, x) => Given(q, x)'
       /\ wanted /\ r \in runtime => Given(r, p)'
  <2>1. CASE injected' = injected /\ (wanted /\ r \in runtime => Given(r, p))
    <3>1. Given(r, p) => \E i \in 1 .. Len(injected'[r]) : injected'[r][i] = p
      BY <2>1 DEF Given
    <3>2. r' = r /\ p' = p
      BY DEF r, p
    <3> QED BY <2>1, <3>1, <3>2 DEF Given
  <2>2. CASE injected' = [injected EXCEPT ![r] = Append(injected[r], p)]
    <3>1. /\ injected'[r] = Append(injected[r], p)
          /\ \A q \in Routes : q # r => injected'[q] = injected[q]
      BY <1>1, <1>6, <2>2 DEF r
    <3>2. /\ Len(injected'[r]) = Len(injected[r]) + 1 /\ injected'[r][Len(injected[r]) + 1] = p
          /\ \A i \in 1 .. Len(injected[r]) : injected'[r][i] = injected[r][i]
          /\ Len(injected[r]) \in Nat
      BY <1>2, <1>6, <3>1, AppendProperties
    <3>3. 1 .. Len(injected[r]) \subseteq 1 .. Len(injected[r]) + 1
          /\ Len(injected[r]) + 1 \in 1 .. Len(injected[r]) + 1
      BY <3>2
    <3>4. \A x : Given(r, x) \/ x = p => \E i \in 1 .. Len(injected'[r]) : injected'[r][i] = x
      BY <3>2, <3>3 DEF Given
    <3>5. r' = r /\ p' = p
      BY DEF r, p
    <3>6. ASSUME NEW q \in Routes, NEW x, Given(q, x) PROVE Given(q, x)'
      BY <3>1, <3>4, <3>6 DEF Given
    <3> QED BY <3>4, <3>5, <3>6 DEF Given
  <2> QED BY <1>8, <2>1, <2>2
<1>11. ChannelType'
  BY <1>1, <1>3, <1>4, <1>9 DEF ChannelType, home, local
<1>12. RoutesOK'
  <2>1. CASE injected' = injected
    <3>1. /\ \A q, x : Owed(q, x)' = Owed(q, x) /\ Given(q, x)' = Given(q, x) /\ Due(q, x)' = Due(q, x)
          /\ \A q : Kept(q)' = Kept(q) /\ From(q)' = From(q)
      BY <1>1, <2>1 DEF Owed, Given, Due, Since, Kept, From, local
    <3>2. UNCHANGED <<journal, route, call, clock>>
      BY <1>1 DEF local
    <3>3. ASSUME NEW q \in Routes, RouteOK(q) PROVE RouteOK(q)'
      BY <2>1, <3>1, <3>2, <3>3, SMTT(30) DEF RouteOK
    <3> QED BY <3>3 DEF ChannelInv, RoutesOK
  <2>2. CASE /\ wanted /\ ~Given(r, p)
             /\ injected' = [injected EXCEPT ![r] = Append(injected[r], p)]
    BY <1>1, <2>2, InjectedKeeps DEF r, p
  <2> QED BY <1>8, <2>1, <2>2
<1>13. WorkerOK'
  BY <1>1 DEF ChannelInv, WorkerOK, ReplyOK, AskOK, Sorted, PageEnd, Kept, From, Since, local
<1>14. \A x : Owed(r, x)' = Owed(r, x)
  BY <1>1 DEF Owed, r
<1>15. ASSUME NEW v \in tasks, NEW w \in Task, w.ask = v.ask, w.cursor = v.cursor,
              Sorted(w.todo, w.ask.cursor, w.cursor),
              \A x \in w.ask.cursor + 1 .. w.cursor :
                journal[x].at >= w.ask.born /\ Owed(w.ask.route, x) =>
                Given(w.ask.route, x)' \/ \E i \in 1 .. Len(w.todo) : w.todo[i] = x
       PROVE  TaskOK(w)'
  <2>1. AskOK(w.ask)
    BY <1>15 DEF ChannelInv, TasksOK, TaskOK
  <2>2. AskOK(w.ask)' /\ Sorted(w.todo, w.ask.cursor, w.cursor)'
    BY <1>1, <1>15, <2>1 DEF AskOK, Sorted, Kept, From, Since, local
  <2>3. \A x : Owed(w.ask.route, x)' = Owed(w.ask.route, x)
    BY <1>1 DEF Owed
  <2> QED BY <1>1, <1>15, <2>2, <2>3 DEF TaskOK
<1>16. ASSUME NEW v \in tasks' PROVE TaskOK(v)'
  <2>1. CASE v \in tasks
    <3>1. v \in Task /\ TaskOK(v) /\ v.ask.route \in Routes
      BY <1>1, <2>1 DEF ChannelInv, ChannelType, TasksOK, Task, Asks
    <3> QED BY <1>10, <1>15, <2>1, <3>1 DEF TaskOK
  <2>2. CASE v = u /\ (wanted => r \in runtime)
    <3>1. \A x \in t.ask.cursor + 1 .. t.cursor :
            journal[x].at >= t.ask.born /\ Owed(t.ask.route, x) =>
            Given(t.ask.route, x) \/ \E i \in 1 .. Len(t.todo) : t.todo[i] = x
      BY <1>1 DEF TaskOK
    <3>2. ASSUME NEW x \in t.ask.cursor + 1 .. t.cursor, journal[x].at >= t.ask.born, Owed(t.ask.route, x)
          PROVE  Given(t.ask.route, x)' \/ \E i \in 1 .. Len(Tail(t.todo)) : Tail(t.todo)[i] = x
      <4>1. Given(t.ask.route, x) \/ x = p \/ \E i \in 1 .. Len(Tail(t.todo)) : Tail(t.todo)[i] = x
        BY <1>2, <3>1, <3>2
      <4>2. t.ask.route \in Routes /\ t.ask.route = r
        BY <1>1 DEF r
      <4>3. x = p => Given(r, p)'
        BY <1>10, <2>2, <3>2, <4>2
      <4>4. x = p => Given(t.ask.route, x)'
        BY <4>3 DEF Given, r, p
      <4> QED BY <1>10, <4>1, <4>2, <4>4
    <3>3. Sorted(u.todo, u.ask.cursor, u.cursor)
      BY <1>2, <1>3
    <3>4. PICK w \in Task : w = u /\ w.ask = t.ask /\ w.cursor = t.cursor /\ w.todo = Tail(t.todo)
      BY <1>3
    <3>5. TaskOK(w)'
      <4>1. Sorted(w.todo, w.ask.cursor, w.cursor)
        BY <1>2, <3>4
      <4>2. \A x \in w.ask.cursor + 1 .. w.cursor :
              journal[x].at >= w.ask.born /\ Owed(w.ask.route, x) =>
              Given(w.ask.route, x)' \/ \E i \in 1 .. Len(w.todo) : w.todo[i] = x
        BY <3>2, <3>4 DEF Given
      <4> QED BY <1>15, <3>4, <4>1, <4>2
    <3> QED BY <2>2, <3>4, <3>5
  <2> QED BY <1>4, <2>1, <2>2
<1> QED BY <1>11, <1>12, <1>13, <1>16 DEF ChannelInv, TasksOK

\* A handler that ends closes its connection, or leaves the worker alone.
LEMMA ThrowsKeeps ==
  ASSUME ChannelInv, NEW t \in tasks, Throws(t),
         UNCHANGED <<home, local, route, runtime, injected>>, faults' \in 0 .. MaxFaults
  PROVE  ChannelInv'
<1>1. ChannelType /\ UNCHANGED <<journal, route, local>> /\ tasks' = tasks \ {t}
  BY DEF Throws, ChannelInv, home, local
<1>2. worker' \in Worker /\ retry' \in {"ready", "waiting", "suppressed"} /\ WorkerOK'
  <2>1. CASE Closed(TRUE)
    BY <1>1, <2>1, ClosedIs
  <2>2. CASE UNCHANGED <<worker, retry>>
    BY <1>1, <2>2
       DEF ChannelInv, ChannelType, WorkerOK, ReplyOK, AskOK, Sorted, PageEnd, Kept, From, Since, local
  <2> QED BY <2>1, <2>2 DEF Throws
<1>3. ChannelType'
  BY <1>1, <1>2 DEF ChannelType, home, local
<1> QED BY <1>1, <1>2, <1>3, QuietStep

\* The cursor of a route moves up to the end of a page that was delivered.
LEMMA AdvanceKeeps ==
  ASSUME ChannelInv, NEW t \in tasks, Advance(t)
  PROVE  ChannelInv'
<1> DEFINE r == t.ask.route
           c == IF t.cursor > route[r].cursor THEN t.cursor ELSE route[r].cursor
<1>1. /\ ChannelType /\ t \in Task /\ TaskOK(t) /\ t.todo = <<>> /\ t.ask \in Asks /\ r \in Routes
      /\ t.cursor \in Cursors /\ t.cursor <= Len(journal) /\ route[r] \in File /\ RouteOK(r)
      /\ UNCHANGED <<home, local, runtime, injected, faults>> /\ journal' = journal
  BY DEF Advance, ChannelInv, ChannelType, TasksOK, TaskOK, Sorted, Task, Asks, RoutesOK, home, local
<1>2. CASE ~route[r].present
  BY <1>1, <1>2, ThrowsKeeps DEF Advance, ChannelType
<1>3. CASE route[r].present
  <2>1. c \in Cursors /\ c \in Nat /\ c <= Len(journal) /\ route[r].cursor <= c
        /\ route[r].cursor \in Nat /\ route[r].born \in Nat /\ (c = t.cursor \/ c = route[r].cursor)
        /\ From(r) \in Nat
    <3>1. route[r].cursor \in Cursors
      BY <1>1 DEF File
    <3>2. /\ route[r].cursor \in Nat /\ route[r].born \in Nat /\ t.cursor \in Nat
          /\ From(r) \in Nat
      BY <1>1, RouteNumbers, Numbers
    <3>3. route[r].cursor <= Len(journal)
      BY <1>1 DEF RouteOK
    <3> QED BY <1>1, <3>1, <3>2, <3>3
  <2> DEFINE a == [AskOf(r) EXCEPT !.cursor = c]
  <2>2. /\ route' = [route EXCEPT ![r].cursor = c] /\ tasks' = tasks \ {t}
        /\ retry' \in {"ready", "waiting", "suppressed"}
        /\ worker' = worker \/ worker' = [worker EXCEPT !.resume = a]
    BY <1>1, <1>3 DEF Advance, Rewritten, ChannelType
  <2> HIDE DEF c
  <2>3. /\ route \in [Routes -> File] /\ route' \in [Routes -> File]
        /\ route'[r].cursor = c /\ route'[r].born = route[r].born /\ route'[r].present
        /\ route'[r].from = route[r].from
        /\ \A q \in Routes : q # r => route'[q] = route[q]
    <3>1. route \in [Routes -> File] /\ [route[r] EXCEPT !.cursor = c] \in File
      BY <1>1, <2>1 DEF ChannelType, File
    <3> QED BY <1>1, <1>3, <2>2, <3>1 DEF File
  <2>4. a \in Asks /\ a.route = r /\ a.cursor = c /\ a.born = route[r].born
    BY <1>1, <2>1 DEF AskOf, Asks, File
  <2>14. /\ \A q \in Routes : Kept(q)' = Kept(q) /\ From(q)' = From(q) /\ Since(q)' = Since(q)
         /\ call' = call /\ clock' = clock /\ journal' = journal
    <3>1. call' = call /\ clock' = clock /\ journal' = journal
      BY <1>1 DEF local
    <3> QED BY <1>3, <2>3, <3>1 DEF Kept, From, Since
  <2> HIDE DEF a, r
  <2>5. ASSUME NEW x \in Asks \cup {NoAsk}, AskOK(x) PROVE AskOK(x)'
    <3> SUFFICES ASSUME x # NoAsk PROVE AskOK(x)'
      BY DEF AskOK
    <3>1. x.route \in Routes /\ x.cursor \in Nat
      BY <1>1, Numbers DEF Asks
    <3>2. CASE x.route = r
      <4>1. /\ x.cursor <= Len(journal) /\ x.born <= clock /\ x.born <= Since(r)
            /\ x.cursor <= From(r) \/ x.cursor <= route[r].cursor
        BY <1>3, <2>5, <3>2 DEF AskOK, Kept
      <4>2. x.cursor <= From(r) \/ x.cursor <= c
        BY <2>1, <3>1, <4>1
      <4> QED BY <1>1, <2>3, <2>14, <3>2, <4>1, <4>2 DEF AskOK
    <3>3. CASE x.route # r
      BY <1>1, <2>3, <2>5, <2>14, <3>1, <3>3 DEF AskOK
    <3> QED BY <3>2, <3>3
  <2>6. route[r].born <= clock
    BY <1>1 DEF RouteOK
  <2>7. worker \in Worker /\ WorkerOK
    BY DEF ChannelInv, ChannelType
  <2>8. /\ worker' \in Worker /\ worker'.current = worker.current /\ worker'.reply = worker.reply
        /\ worker'.resume \in {worker.resume, a}
    BY <2>2, <2>4, <2>7 DEF Worker
  <2>9. WorkerOK'
    <3>1. AskOK(worker.current)' /\ AskOK(worker.resume)'
      <4>1. AskOK(worker.current) /\ AskOK(worker.resume)
            /\ worker.current \in Asks \cup {NoAsk} /\ worker.resume \in Asks \cup {NoAsk}
        BY <2>7 DEF WorkerOK, Worker
      <4>2. PICK x \in Asks \cup {NoAsk}, y \in Asks \cup {NoAsk}, z \in Asks :
              x = worker.current /\ y = worker.resume /\ z = a
        BY <2>4, <4>1
      <4>3. AskOK(x)' /\ AskOK(y)' /\ AskOK(z)'
        <5>1. AskOK(x)' /\ AskOK(y)'
          BY <2>5, <4>1, <4>2
        <5>2. AskOK(z)'
          <6>1. z.route = r /\ z.cursor = c /\ z.born = route[r].born
            BY <2>4, <4>2
          <6>2. /\ z.cursor <= Len(journal') /\ z.born <= clock' /\ route'[z.route].present
                /\ z.born <= Since(r)' /\ z.cursor <= route'[z.route].cursor
            BY <1>1, <1>3, <2>1, <2>3, <2>6, <2>14, <6>1 DEF Since
          <6> QED BY <6>1, <6>2 DEF AskOK
        <5> QED BY <5>1, <5>2
      <4> QED BY <2>8, <4>2, <4>3 DEF AskOK, Kept, From, Since
    <3>2. ReplyOK'
      BY <1>1, <2>7, <2>8 DEF WorkerOK, ReplyOK, Sorted, PageEnd
    <3> QED BY <3>1, <3>2 DEF WorkerOK
  <2>10. ChannelType'
    BY <1>1, <2>2, <2>3, <2>8 DEF ChannelType, home, local
  <2>11. ASSUME NEW x \in tasks' PROVE TaskOK(x)'
    <3>1. TaskOK(x) /\ x.ask \in Asks
      BY <1>1, <2>2 DEF ChannelInv, ChannelType, TasksOK, Task
    <3>2. AskOK(x.ask)'
      BY <2>5, <3>1 DEF TaskOK
    <3> QED BY <1>1, <3>1, <3>2 DEF TaskOK, Sorted, Owed, Given
  <2>12. ASSUME NEW p \in From(r) + 1 .. c, Due(r, p) PROVE Given(r, p)
    <3>1. CASE c = route[r].cursor
      BY <1>1, <1>3, <2>12, <3>1 DEF RouteOK
    <3>2. CASE c = t.cursor
      <4>1. p \in Nat /\ From(r) < p /\ p <= t.cursor /\ Kept(r)
        BY <1>3, <2>1, <2>12, <3>2 DEF Kept
      <4> QED BY <1>1, <2>12, <4>1, BeforeIsGiven DEF r
    <3> QED BY <2>1, <3>1, <3>2
  <2>13. ASSUME NEW q \in Routes PROVE RouteOK(q)'
    <3>1. \A x : Owed(q, x)' = Owed(q, x) /\ Given(q, x)' = Given(q, x) /\ Due(q, x)' = Due(q, x)
      BY <1>1, <2>14 DEF Owed, Given, Due
    <3>2. RouteOK(q) /\ route'[q].from = route[q].from /\ route'[q].born = route[q].born
      BY <2>3 DEF ChannelInv, RoutesOK
    <3>3. CASE q = r
      BY <1>1, <1>3, <2>1, <2>3, <2>12, <2>14, <3>1, <3>2, <3>3 DEF RouteOK
    <3>4. CASE q # r
      BY <1>1, <2>3, <2>14, <3>1, <3>2, <3>4 DEF RouteOK
    <3> QED BY <3>3, <3>4
  <2> QED BY <2>9, <2>10, <2>11, <2>13 DEF ChannelInv, RoutesOK, TasksOK
<1> QED BY <1>2, <1>3

-----------------------------------------------------------------------------
(* The whole specification.                                                *)

LEMMA ChannelStarts == ChannelInit => ChannelInv
<1> SUFFICES ASSUME ChannelInit PROVE ChannelInv
  OBVIOUS
<1>1. MaxEvents \in Nat /\ MaxFaults \in Nat /\ NoFile \in File /\ Call("none") \in Calls
      /\ 0 \in Times
  BY ChannelAssumption, NoFileType DEF Times
<1>2. <<>> \in Seq(Entry) /\ <<>> \in Seq(Positions) /\ Len(<<>>) = 0
  OBVIOUS
<1>3. ChannelType
  BY <1>1, <1>2, NoWorkerType DEF ChannelInit, ChannelType
<1>4. RoutesOK
  BY <1>2 DEF ChannelInit, NoFile, Call, RoutesOK, RouteOK, Kept
<1>5. WorkerOK /\ TasksOK
  BY DEF ChannelInit, NoWorker, Reply, WorkerOK, TasksOK, AskOK, ReplyOK
<1> QED BY <1>3, <1>4, <1>5 DEF ChannelInv

\* Faults and what only the manager's surroundings change.
LEMMA OtherKeeps ==
  ASSUME ChannelInv,
         UNCHANGED <<journal, member, local, route, injected>>,
         worker' = worker \/ worker' = NoWorker,
         admitted' \in BOOLEAN, runtime' \subseteq Routes,
         retry' \in {"ready", "waiting", "suppressed"}, faults' \in 0 .. MaxFaults,
         tasks' \in {tasks, {}, Disowned(tasks)}
  PROVE  ChannelInv'
<1>1. ChannelType /\ WorkerOK /\ worker' \in Worker
  BY NoWorkerType DEF ChannelInv, ChannelType
<1>2. WorkerOK'
  <2>1. CASE worker' = worker
    BY <1>1, <2>1 DEF WorkerOK, ReplyOK, AskOK, Sorted, PageEnd, Kept, From, Since, local
  <2>2. CASE worker' = NoWorker
    <3>1. worker'.current = NoAsk /\ worker'.resume = NoAsk /\ worker'.reply.st # "page"
      BY <2>2 DEF NoWorker, Reply
    <3> QED BY <1>1, <3>1, SilentWorker
  <2> QED BY <2>1, <2>2
<1>3. ASSUME NEW x \in tasks'
      PROVE  x \in Task /\ \E y \in tasks : x.ask = y.ask /\ x.todo = y.todo /\ x.cursor = y.cursor
  <2>1. CASE x \in tasks
    BY <1>1, <2>1 DEF ChannelType
  <2>2. CASE x \in Disowned(tasks)
    <3>1. PICK y \in tasks : x = [y EXCEPT !.own = FALSE]
      BY <2>2 DEF Disowned
    <3> QED BY <1>1, <3>1 DEF ChannelType, Task
  <2> QED BY <2>1, <2>2
<1>4. ChannelType'
  BY <1>1, <1>3 DEF ChannelType, local
<1> QED BY <1>2, <1>3, <1>4, QuietStep

LEMMA ChannelSteps == ChannelInv /\ [ChannelNext]_channelVars => ChannelInv'
<1> SUFFICES ASSUME ChannelInv, [ChannelNext]_channelVars PROVE ChannelInv'
  OBVIOUS
<1>0. /\ MaxFaults \in Nat /\ faults \in 0 .. MaxFaults /\ member \subseteq Routes
      /\ runtime \subseteq Routes /\ admitted \in BOOLEAN
      /\ retry \in {"ready", "waiting", "suppressed"}
  BY ChannelAssumption DEF ChannelInv, ChannelType
<1>1. Fault => faults' \in 0 .. MaxFaults
  BY <1>0 DEF Fault
<1>2. CASE UNCHANGED channelVars
  BY <1>0, <1>2, OtherKeeps DEF channelVars, home, local
<1>3. CASE Progress
  <2>1. CASE BackoffOver
    BY <1>0, <2>1, OtherKeeps DEF BackoffOver, home, local
  <2> QED BY <1>3, <2>1, IdleKeeps, PollKeeps, AcceptKeeps, AnswerKeeps, DeliverKeeps, AdvanceKeeps
       DEF Progress
<1>4. CASE Post \/ DirectSend
  BY <1>0, <1>4, CommitKeeps DEF Post, DirectSend
<1>5. CASE SetAdmission
  BY <1>0, <1>5, OtherKeeps DEF SetAdmission
<1>6. CASE Crash
  BY <1>0, <1>1, <1>6, OtherKeeps DEF Crash, home, local
<1>7. ASSUME NEW b \in BOOLEAN, ConnectionCloses(b) PROVE ChannelInv'
  BY <1>0, <1>1, <1>7, OtherKeeps DEF ConnectionCloses, Closed, home, local
<1>8. ASSUME NEW t \in tasks, DeliveryFails(t) PROVE ChannelInv'
  BY <1>1, <1>8, ThrowsKeeps DEF DeliveryFails
<1>9. ASSUME NEW r \in Routes, RemoteSend(r) PROVE ChannelInv'
  BY <1>0, <1>9, CommitKeeps DEF RemoteSend
<1>10. ASSUME NEW r \in Routes, RuntimeEnds(r) \/ RuntimeResumes(r) PROVE ChannelInv'
  <2>1. UNCHANGED <<journal, member, admitted, local, route, injected, worker, tasks, retry>>
        /\ runtime' \subseteq Routes /\ faults' \in 0 .. MaxFaults
    BY <1>0, <1>1, <1>10 DEF RuntimeEnds, RuntimeResumes, home, local
  <2> QED BY <1>0, <2>1, OtherKeeps
<1> QED BY <1>2, <1>3, <1>4, <1>5, <1>6, <1>7, <1>8, <1>9, <1>10, AnsweredKeeps, CommandKeeps
     DEF ChannelNext

LEMMA ChannelHolds == ChannelInv => NothingOwedIsSkipped /\ InOrder
<1> SUFFICES ASSUME ChannelInv PROVE NothingOwedIsSkipped /\ InOrder
  OBVIOUS
<1>1. \A r \in Present : r \in Routes /\ route[r].present /\ RouteOK(r)
  BY DEF ChannelInv, RoutesOK, Present
<1>2. \A r \in Present : From(r) = route[r].from /\ Since(r) = route[r].born /\ Kept(r)
  BY <1>1 DEF From, Since, Kept
<1>3. NothingOwedIsSkipped
  BY <1>1, <1>2 DEF RouteOK, Due, Owed, Given, NothingOwedIsSkipped
<1>4. InOrder
  BY <1>1, <1>2 DEF RouteOK, Due, InOrder
<1> QED BY <1>3, <1>4

\* The home's journal, the route files, the worker and the handlers keep their
\* type.
THEOREM ChannelTypeCorrect == ChannelSpec => []ChannelTypeOK
<1>1. ChannelInv => ChannelTypeOK
  <2> SUFFICES ASSUME ChannelType PROVE ChannelTypeOK
    BY DEF ChannelInv
  <2>1. /\ worker.st \in {"none", "connecting", "connected"} /\ worker.reply \in Replies
        /\ worker.current \in Asks \cup {NoAsk} /\ worker.resume \in Asks \cup {NoAsk}
    BY DEF ChannelType, Worker
  <2>2. \A t \in tasks : t.ask \in Asks /\ t.todo \in Seq(Positions) /\ t.cursor \in Cursors
    BY DEF ChannelType, Task
  <2> QED BY <2>1, <2>2 DEF ChannelType, ChannelTypeOK, Entry, File
<1> QED BY <1>1, ChannelStarts, ChannelSteps, PTL DEF ChannelSpec

\* Whatever breaks between the answer, the deliveries and the write of the file,
\* and however the two clocks disagree, the cursor of a route never passes a
\* message after the registration, stamped no earlier than the route's createdAt,
\* that its session was not given.
THEOREM ChannelNothingSkipped == ChannelSpec => []NothingOwedIsSkipped
<1> QED BY ChannelStarts, ChannelSteps, ChannelHolds, PTL DEF ChannelSpec

\* A session gets the messages of its route, those stamped no earlier than its
\* createdAt, in the order of the home's journal.
THEOREM ChannelInOrder == ChannelSpec => []InOrder
<1> QED BY ChannelStarts, ChannelSteps, ChannelHolds, PTL DEF ChannelSpec

-----------------------------------------------------------------------------
(***************************************************************************)
(* Application subscriptions, for any number of streams and changes and any*)
(* bounds on buffers and batches.                                          *)
(***************************************************************************)

\* The wanted changes among those a source has, for a stream that begins after
\* a cursor.
Wants(start, known) == {n \in DOMAIN known : n > start /\ known[n]}

\* Items carry every wanted change, no other, and none before a smaller one.
Complete(items, wanted) ==
  /\ \A n \in wanted : \E i \in DOMAIN items :
       \E k \in DOMAIN items[i].changes : items[i].changes[k] = n
  /\ \A i \in DOMAIN items : \A k \in DOMAIN items[i].changes :
       /\ items[i].changes[k] \in wanted
       /\ \A n \in wanted : n < items[i].changes[k] =>
            \E j \in 1 .. i : \E l \in DOMAIN items[j].changes :
              (j < i \/ l < k) /\ items[j].changes[l] = n

\* The items of an open stream, which began at a cursor of its source.
Goes(items, start, known) ==
  /\ start \in 0 .. Len(known)
  /\ \A i \in 1 .. Len(items) : items[i].kind = "delta" => items[i].cursor \in start .. Len(known)
  /\ Complete(items, Wants(start, known))

StreamOK(s) ==
  /\ s \in listening <=> status[s] = "open"
  /\ s \in waiter => status[s] = "open" /\ queue[s] = <<>>
  /\ status[s] = "none" => afterCursor[s] = NoCursor /\ received[s] = <<>>
  /\ status[s] = "open" => Goes(Carried(s), Start(s), source)
  /\ status[s] = "open" /\ afterCursor[s] = NoCursor =>
       Carried(s) # <<>> /\ delivered[s] \in Start(s) .. Len(source)

StreamsOK == \A s \in Stream : StreamOK(s)

SubscriptionInv == SubscriptionTypeOK /\ StreamsOK

-----------------------------------------------------------------------------
(* Batches.                                                                *)

\* A batch in cursor order, with all the new changes that are wanted and maybe
\* some that were carried before, keeps the items complete.
LEMMA CompleteGrows ==
  ASSUME NEW items \in Seq(Item), NEW wanted \in SUBSET Nat, NEW now \in SUBSET Nat,
         wanted \subseteq now,
         \A n \in now \ wanted, m \in wanted : m < n,
         NEW item \in Item, item.changes \in Seq(now), Rising(item.changes),
         \A n \in now \ wanted : \E k \in 1 .. Len(item.changes) : item.changes[k] = n,
         Complete(items, wanted)
  PROVE  Complete(Append(items, item), now)
<1> DEFINE b == item.changes
           more == Append(items, item)
           last == Len(items) + 1
<1>1. /\ Len(items) \in Nat /\ DOMAIN items = 1 .. Len(items) /\ DOMAIN more = 1 .. last
      /\ more[last] = item /\ \A i \in 1 .. Len(items) : more[i] = items[i]
  BY AppendProperties, LenProperties
<1>2. Len(b) \in Nat /\ DOMAIN b = 1 .. Len(b) /\ \A k \in 1 .. Len(b) : b[k] \in now
  BY LenProperties, ElementOfSeq
<1>3. 1 .. Len(items) \subseteq 1 .. last /\ last \in 1 .. last
  BY <1>1
<1>4. ASSUME NEW n \in wanted
      PROVE  \E i \in 1 .. Len(items) : \E k \in DOMAIN more[i].changes : more[i].changes[k] = n
  BY <1>1 DEF Complete
<1> HIDE DEF b, more, last
<1>5. ASSUME NEW n \in now
      PROVE  \E i \in 1 .. last : \E k \in DOMAIN more[i].changes : more[i].changes[k] = n
  <2>1. CASE n \in wanted
    BY <1>3, <1>4, <2>1
  <2>2. CASE n \notin wanted
    <3>1. PICK k \in 1 .. Len(b) : b[k] = n
      BY <2>2 DEF b
    <3>2. k \in DOMAIN more[last].changes /\ more[last].changes[k] = n
      BY <1>1, <1>2, <3>1 DEF b
    <3> QED BY <1>3, <3>2
  <2> QED BY <2>1, <2>2
<1>6. ASSUME NEW i \in 1 .. last, NEW k \in DOMAIN more[i].changes
      PROVE  /\ more[i].changes[k] \in now
             /\ \A n \in now : n < more[i].changes[k] =>
                  \E j \in 1 .. i : \E l \in DOMAIN more[j].changes :
                    (j < i \/ l < k) /\ more[j].changes[l] = n
  <2>1. CASE i # last
    <3>1. i \in 1 .. Len(items) /\ more[i] = items[i]
      BY <1>1, <2>1 DEF last
    <3>2. /\ items[i].changes[k] \in wanted
          /\ \A n \in wanted : n < items[i].changes[k] =>
               \E j \in 1 .. i : \E l \in DOMAIN items[j].changes :
                 (j < i \/ l < k) /\ items[j].changes[l] = n
      <4>1. i \in DOMAIN items /\ k \in DOMAIN items[i].changes
        BY <1>1, <1>6, <3>1
      <4> QED BY <4>1 DEF Complete
    <3>3. \A j \in 1 .. i : more[j] = items[j]
      BY <1>1, <3>1
    <3>4. ASSUME NEW n \in now, n < items[i].changes[k] PROVE n \in wanted
      <4>1. items[i].changes[k] \in Nat /\ n \in Nat
        BY <3>2
      <4>2. n \notin wanted => items[i].changes[k] < n
        BY <3>2
      <4> QED BY <3>4, <4>1, <4>2
    <3>5. ASSUME NEW n \in now, n < items[i].changes[k]
          PROVE  \E j \in 1 .. i : \E l \in DOMAIN more[j].changes :
                   (j < i \/ l < k) /\ more[j].changes[l] = n
      <4>1. PICK j \in 1 .. i : \E l \in DOMAIN items[j].changes :
              (j < i \/ l < k) /\ items[j].changes[l] = n
        BY <3>2, <3>4, <3>5
      <4> QED BY <3>3, <4>1
    <3> QED BY <3>1, <3>2, <3>5
  <2>2. CASE i = last
    <3>1. k \in 1 .. Len(b) /\ more[i].changes[k] = b[k] /\ b[k] \in now
      BY <1>1, <1>2, <1>6, <2>2 DEF b
    <3>2. ASSUME NEW n \in now, n < b[k]
          PROVE  \E j \in 1 .. i : \E l \in DOMAIN more[j].changes :
                   (j < i \/ l < k) /\ more[j].changes[l] = n
      <4>1. CASE n \in wanted
        <5>1. PICK j \in 1 .. Len(items) : \E l \in DOMAIN more[j].changes : more[j].changes[l] = n
          BY <1>4, <4>1
        <5>2. j \in 1 .. i /\ j < i
          BY <1>1, <2>2 DEF last
        <5> QED BY <5>1, <5>2
      <4>2. CASE n \notin wanted
        <5>1. PICK l \in 1 .. Len(b) : b[l] = n
          BY <4>2 DEF b
        <5>2. l < k
          <6>1. l = k \/ k < l \/ l < k
            BY <1>2, <3>1
          <6>2. k < l => b[k] < b[l]
            BY <3>1 DEF Rising, b
          <6>3. b[k] \in Nat /\ n \in Nat
            BY <3>1
          <6> QED BY <3>2, <5>1, <6>1, <6>2, <6>3
        <5>3. i \in 1 .. i /\ l \in DOMAIN more[i].changes /\ more[i].changes[l] = n
          BY <1>1, <1>2, <2>2, <5>1 DEF b, last
        <5> QED BY <5>2, <5>3
      <4> QED BY <4>1, <4>2
    <3> QED BY <3>1, <3>2
  <2> QED BY <2>1, <2>2
<1>7. DOMAIN more = 1 .. last
  BY <1>1
<1>8. Complete(more, now)
  <2>1. \A n \in now : \E i \in DOMAIN more : \E k \in DOMAIN more[i].changes : more[i].changes[k] = n
    BY <1>5, <1>7
  <2>2. \A i \in DOMAIN more : \A k \in DOMAIN more[i].changes :
          /\ more[i].changes[k] \in now
          /\ \A n \in now : n < more[i].changes[k] =>
               \E j \in 1 .. i : \E l \in DOMAIN more[j].changes :
                 (j < i \/ l < k) /\ more[j].changes[l] = n
    BY <1>6, <1>7
  <2> QED BY <2>1, <2>2 DEF Complete
<1> QED BY <1>8 DEF more

\* A longer source, of which nothing new is wanted.
LEMMA GoesOn ==
  ASSUME NEW items \in Seq(Item), NEW start, NEW known \in Seq(BOOLEAN), NEW more \in Seq(BOOLEAN),
         Goes(items, start, known), Len(known) <= Len(more), Wants(start, known) = Wants(start, more)
  PROVE  Goes(items, start, more)
<1>1. Len(known) \in Nat /\ Len(more) \in Nat /\ start \in 0 .. Len(more)
  BY LenProperties DEF Goes
<1>2. ASSUME NEW i \in 1 .. Len(items), items[i].kind = "delta"
      PROVE  items[i].cursor \in start .. Len(more)
  BY <1>1, <1>2 DEF Goes
<1> QED BY <1>1, <1>2 DEF Goes

\* The wanted part of what a source announces.
LEMMA WantedIs ==
  ASSUME SubscriptionTypeOK, NEW s \in Stream, StreamOK(s), status[s] = "open",
         NEW new \in Seq(BOOLEAN), Len(source) + Len(new) <= MaxJournal,
         NEW again \in Nat, again <= Len(source)
  PROVE  LET known == source \o new
             b == Wanted(s, Len(source) + 1 - again .. Len(source) + Len(new), known)
         IN  /\ known \in Seq(BOOLEAN) /\ Len(known) = Len(source) + Len(new)
             /\ b \in Seq(Wants(Start(s), known)) /\ Rising(b)
             /\ Wants(Start(s), source) \subseteq Wants(Start(s), known)
             /\ \A n \in Wants(Start(s), known) \ Wants(Start(s), source) :
                  n > Len(source) /\ \E k \in 1 .. Len(b) : b[k] = n
             /\ b # <<>> => Delta(b) \in Item /\ Delta(b).cursor \in Start(s) .. Len(known)
<1> DEFINE known == source \o new
           window == Len(source) + 1 - again .. Len(source) + Len(new)
           after == IF After(s) = NoCursor THEN 0 ELSE After(s)
           keep == {n \in window : known[n] /\ n > after}
           b == Wanted(s, window, known)
           start == Start(s)
<1>1. /\ source \in Seq(BOOLEAN) /\ Len(source) \in Nat /\ Len(new) \in Nat /\ MaxJournal \in Nat
      /\ DOMAIN source = 1 .. Len(source) /\ NoCursor \notin Nat
  BY SubscriptionAssumption, LenProperties DEF SubscriptionTypeOK
<1>2. /\ known \in Seq(BOOLEAN) /\ Len(known) = Len(source) + Len(new) /\ DOMAIN known = 1 .. Len(known)
      /\ \A n \in 1 .. Len(source) : known[n] = source[n]
  <2>1. known \in Seq(BOOLEAN) /\ Len(known) = Len(source) + Len(new)
        /\ \A n \in 1 .. Len(source) + Len(new) : n <= Len(source) => known[n] = source[n]
    BY <1>1, ConcatProperties
  <2>2. \A n \in 1 .. Len(source) : n \in 1 .. Len(source) + Len(new) /\ n <= Len(source)
    BY <1>1
  <2>3. DOMAIN known = 1 .. Len(known)
    BY <2>1, LenProperties
  <2> QED BY <2>1, <2>2, <2>3
<1>3. start \in 0 .. Len(source) /\ after \in start .. Len(source)
  <2>1. start \in 0 .. Len(source)
    BY DEF StreamOK, Goes
  <2>2. CASE afterCursor[s] # NoCursor
    <3>1. after = start
      BY <2>2 DEF After, Start
    <3> QED BY <1>1, <2>1, <3>1
  <2>3. CASE afterCursor[s] = NoCursor
    <3>1. delivered[s] \in start .. Len(source) /\ After(s) = delivered[s]
      BY <2>3 DEF StreamOK, After
    <3>2. delivered[s] # NoCursor
      BY <1>1, <2>1, <3>1
    <3> QED BY <1>1, <2>1, <3>1, <3>2
  <2> QED BY <2>2, <2>3
<1> HIDE DEF after, known, start
<1>4. window \subseteq 1 .. Len(known) /\ \A n \in 1 .. Len(known) : n > Len(source) => n \in window
  BY <1>1, <1>2
<1>5. keep \in SUBSET (1 .. Len(known)) /\ b = Ascending(keep)
  BY <1>4 DEF Wanted, after
<1> HIDE DEF keep, b, window
<1>6. keep \subseteq Wants(start, known)
  <2>1. \A n \in keep : n \in 1 .. Len(known) /\ known[n] /\ n > after
    BY <1>5 DEF keep
  <2> QED BY <1>1, <1>2, <1>3, <2>1 DEF Wants
<1>7. /\ b \in Seq(keep) /\ Rising(b) /\ \A n \in keep : \E k \in 1 .. Len(b) : b[k] = n
  <2>1. Len(known) \in Nat
    BY <1>1, <1>2
  <2> QED BY <1>5, <2>1, AscendingIs
<1>8. Wants(start, source) \subseteq Wants(start, known)
  <2>1. \A n \in Wants(start, source) : n \in 1 .. Len(source) /\ source[n] /\ n > start
    BY <1>1 DEF Wants
  <2>2. 1 .. Len(source) \subseteq 1 .. Len(known)
    BY <1>1, <1>2
  <2> QED BY <1>2, <2>1, <2>2 DEF Wants
<1>9. ASSUME NEW n \in Wants(start, known), n \notin Wants(start, source)
      PROVE  n > Len(source) /\ \E k \in 1 .. Len(b) : b[k] = n
  <2>1. n \in 1 .. Len(known) /\ known[n] /\ n > start
    BY <1>2 DEF Wants
  <2>2. n > Len(source)
    <3> SUFFICES ASSUME ~(n > Len(source)) PROVE FALSE
      OBVIOUS
    <3>1. n \in 1 .. Len(source)
      BY <1>1, <1>2, <2>1
    <3> QED BY <1>1, <1>2, <1>9, <2>1, <3>1 DEF Wants
  <2>3. n > after
    BY <1>1, <1>2, <1>3, <2>1, <2>2
  <2> QED BY <1>4, <1>7, <2>1, <2>2, <2>3 DEF keep
<1>10. b \in Seq(Wants(start, known))
  BY <1>6, <1>7, SeqMonotonic
<1>11. b # <<>> => Delta(b) \in Item /\ Delta(b).cursor \in start .. Len(known)
  <2> SUFFICES ASSUME b # <<>> PROVE Delta(b) \in Item /\ Delta(b).cursor \in start .. Len(known)
    OBVIOUS
  <2>1. Len(b) \in 1 .. Len(b)
    BY <1>7, EmptySeq
  <2>2. b[Len(b)] \in Wants(start, known)
    BY <1>10, <2>1, ElementOfSeq
  <2>3. Wants(start, known) \subseteq 1 .. MaxJournal
    <3>1. \A n \in Wants(start, known) : n \in 1 .. Len(known)
      BY <1>2 DEF Wants
    <3> QED BY <1>1, <1>2, <3>1
  <2>4. b \in Seq(1 .. MaxJournal)
    BY <1>10, <2>3, SeqMonotonic
  <2>5. b[Len(b)] \in 0 .. MaxJournal /\ b[Len(b)] \in start .. Len(known)
    <3>1. b[Len(b)] \in 1 .. Len(known) /\ b[Len(b)] > start
      BY <1>2, <2>2 DEF Wants
    <3> QED BY <1>1, <1>2, <1>3, <3>1
  <2> QED BY <2>4, <2>5 DEF Delta, LastCursor, Last, Item
<1> QED BY <1>2, <1>7, <1>8, <1>9, <1>10, <1>11 DEF known, start, b, window

\* What an open stream is told keeps it whole.
LEMMA GoesTold ==
  ASSUME SubscriptionTypeOK, NEW s \in Stream, StreamOK(s), status[s] = "open",
         NEW new \in Seq(BOOLEAN), Len(source) + Len(new) <= MaxJournal,
         NEW again \in Nat, again <= Len(source)
  PROVE  LET known == source \o new
             b == Wanted(s, Len(source) + 1 - again .. Len(source) + Len(new), known)
         IN  /\ b = <<>> => Goes(Carried(s), Start(s), known)
             /\ b # <<>> => Goes(Append(Carried(s), Delta(b)), Start(s), known)
<1> DEFINE known == source \o new
           b == Wanted(s, Len(source) + 1 - again .. Len(source) + Len(new), known)
           start == Start(s)
           old == Wants(start, source)
           now == Wants(start, known)
           items == Carried(s)
<1> HIDE DEF b, start, old, now, items, known
<1>1. /\ known \in Seq(BOOLEAN) /\ Len(known) = Len(source) + Len(new)
      /\ b \in Seq(now) /\ Rising(b) /\ old \subseteq now
      /\ \A n \in now \ old : n > Len(source) /\ \E k \in 1 .. Len(b) : b[k] = n
      /\ b # <<>> => Delta(b) \in Item /\ Delta(b).cursor \in start .. Len(known)
  BY WantedIs DEF b, start, old, now, known
<1>2. items \in Seq(Item) /\ Goes(items, start, source) /\ source \in Seq(BOOLEAN)
  BY ConcatProperties DEF items, start, Carried, StreamOK, SubscriptionTypeOK
<1>3. Len(source) \in Nat /\ Len(new) \in Nat /\ start \in 0 .. Len(source)
  BY <1>2, LenProperties DEF Goes
<1>4. CASE b = <<>>
  <2>1. now = old
    <3>1. Len(b) = 0
      BY <1>4
    <3>2. \A n \in now : n \in old
      BY <1>1, <3>1
    <3> QED BY <1>1, <3>2
  <2>2. Goes(items, start, known)
    <3>1. Len(source) <= Len(known)
      BY <1>1, <1>3
    <3> QED BY <1>1, <1>2, <2>1, <3>1, GoesOn DEF old, now
  <2> QED BY <1>4, <2>2 DEF b, start, items, known
<1>5. CASE b # <<>>
  <2>1. Delta(b) \in Item /\ Delta(b).changes = b /\ Delta(b).cursor \in start .. Len(known)
    BY <1>1, <1>5 DEF Delta
  <2>2. now \subseteq Nat /\ old \subseteq 1 .. Len(source)
    <3>1. DOMAIN known = 1 .. Len(known) /\ DOMAIN source = 1 .. Len(source)
      BY <1>1, <1>2, LenProperties
    <3> QED BY <3>1 DEF now, old, Wants
  <2>3. \A n \in now \ old, m \in old : m < n
    BY <1>1, <1>3, <2>2
  <2>4. Complete(items, old)
    BY <1>2 DEF Goes, old
  <2>5. Complete(Append(items, Delta(b)), now)
    <3>1. old \in SUBSET Nat
      BY <1>1, <2>2
    <3>2. /\ Delta(b) \in Item /\ Delta(b).changes \in Seq(now) /\ Rising(Delta(b).changes)
          /\ \A n \in now \ old : \E k \in 1 .. Len(Delta(b).changes) : Delta(b).changes[k] = n
      BY <1>1, <2>1
    <3>3. now \in SUBSET Nat /\ old \subseteq now /\ items \in Seq(Item)
      BY <1>1, <1>2, <2>2
    <3> QED BY <2>3, <2>4, <3>1, <3>2, <3>3, CompleteGrows
  <2>6. /\ Len(items) \in Nat /\ Len(Append(items, Delta(b))) = Len(items) + 1
        /\ Append(items, Delta(b))[Len(items) + 1] = Delta(b)
        /\ \A i \in 1 .. Len(items) : Append(items, Delta(b))[i] = items[i]
    BY <1>2, <2>1, AppendProperties, LenProperties
  <2>7. ASSUME NEW i \in 1 .. Len(items) + 1, Append(items, Delta(b))[i].kind = "delta"
        PROVE  Append(items, Delta(b))[i].cursor \in start .. Len(known)
    <3>1. CASE i = Len(items) + 1
      BY <2>1, <2>6, <3>1
    <3>2. CASE i # Len(items) + 1
      <4>1. i \in 1 .. Len(items)
        BY <2>6, <3>2
      <4>2. items[i].cursor \in start .. Len(source)
        BY <1>2, <2>6, <2>7, <4>1 DEF Goes
      <4> QED BY <1>1, <1>3, <2>6, <4>1, <4>2
    <3> QED BY <3>1, <3>2
  <2>8. start \in 0 .. Len(known)
    BY <1>1, <1>3
  <2> QED BY <1>5, <2>5, <2>6, <2>7, <2>8 DEF Goes, b, start, now, items, known
<1> QED BY <1>4, <1>5 DEF b, known

-----------------------------------------------------------------------------
(* The steps.                                                              *)

\* Where nothing is announced, a step looks at one stream; the others stay.
LEMMA OneStream ==
  ASSUME SubscriptionInv, NEW s \in Stream, UNCHANGED source, SubscriptionTypeOK', StreamOK(s)',
         \A r \in Stream \ {s} :
           /\ UNCHANGED <<status[r], afterCursor[r], delivered[r], queue[r], received[r]>>
           /\ (r \in listening)' = (r \in listening) /\ (r \in waiter)' = (r \in waiter)
  PROVE  SubscriptionInv'
<1>1. ASSUME NEW r \in Stream, r # s PROVE StreamOK(r)'
  <2>1. StreamOK(r)
    BY DEF SubscriptionInv, StreamsOK
  <2>2. /\ UNCHANGED <<status[r], afterCursor[r], delivered[r], queue[r], received[r]>>
        /\ (r \in listening)' = (r \in listening) /\ (r \in waiter)' = (r \in waiter)
    BY <1>1
  <2>3. Carried(r)' = Carried(r) /\ Start(r)' = Start(r)
    BY <2>2 DEF Carried, Start
  <2> QED BY <2>1, <2>2, <2>3 DEF StreamOK
<1> QED BY <1>1 DEF SubscriptionInv, StreamsOK

LEMMA SubscribeAfterKeeps ==
  ASSUME SubscriptionInv, NEW s \in Stream, NEW n \in 0 .. MaxJournal, SubscribeAfter(s, n)
  PROVE  SubscriptionInv'
<1> DEFINE wanted == Wants(n, source)
           known == Ascending(wanted)
<1>1. /\ SubscriptionTypeOK /\ source \in Seq(BOOLEAN) /\ Len(source) \in Nat /\ MaxJournal \in Nat
      /\ DOMAIN source = 1 .. Len(source) /\ Len(source) <= MaxJournal /\ n # NoCursor
      /\ n \in OptCursor
  BY SubscriptionAssumption, LenProperties DEF SubscriptionInv, SubscriptionTypeOK, OptCursor
<1>2. /\ status[s] = "none" /\ n <= Len(source)
      /\ status' = [status EXCEPT ![s] = "open"]
      /\ afterCursor' = [afterCursor EXCEPT ![s] = n]
      /\ queue' = [queue EXCEPT ![s] = IF known = <<>> THEN <<>> ELSE <<Delta(known)>>]
      /\ sessions' = sessions \cup {s} /\ listening' = listening \cup {s}
      /\ UNCHANGED <<source, delivered, acknowledged, waiter, received>>
  BY DEF SubscribeAfter, Wants
<1>3. wanted \in SUBSET (1 .. Len(source)) /\ \A m \in wanted : m > n
  BY <1>1 DEF Wants
<1>4. /\ known \in Seq(wanted) /\ Rising(known) /\ \A m \in wanted : \E k \in 1 .. Len(known) : known[k] = m
  BY <1>1, <1>3, AscendingIs
<1> HIDE DEF wanted, known
<1>5. received[s] = <<>> /\ s \notin waiter
  BY <1>2 DEF SubscriptionInv, StreamsOK, StreamOK
<1>6. /\ queue'[s] \in Seq(Item) /\ Complete(queue'[s], wanted)
      /\ \A i \in 1 .. Len(queue'[s]) : queue'[s][i].cursor \in n .. Len(source)
  <2>1. CASE known = <<>>
    <3>1. wanted = {}
      <4>1. Len(known) = 0
        BY <2>1
      <4> QED BY <1>4, <4>1
    <3>2. queue'[s] = <<>>
      BY <1>1, <1>2, <2>1 DEF SubscriptionTypeOK
    <3> QED BY <3>1, <3>2 DEF Complete
  <2>2. CASE known # <<>>
    <3>1. queue'[s] = <<Delta(known)>>
      BY <1>1, <1>2, <2>2 DEF SubscriptionTypeOK
    <3>2. known \in Seq(1 .. MaxJournal)
      <4>1. wanted \subseteq 1 .. MaxJournal
        BY <1>1, <1>3
      <4> QED BY <1>4, <4>1, SeqMonotonic
    <3>3. known[Len(known)] \in wanted
      <4>1. Len(known) \in 1 .. Len(known)
        BY <1>4, <2>2, EmptySeq
      <4> QED BY <1>4, <4>1, ElementOfSeq
    <3>4. known[Len(known)] \in 0 .. MaxJournal /\ known[Len(known)] \in n .. Len(source)
      <4>1. \A m \in wanted : m \in 0 .. MaxJournal /\ m \in n .. Len(source)
        <5>1. \A m \in wanted : m \in 1 .. Len(source) /\ m > n
          BY <1>3
        <5> QED BY <1>1, <5>1
      <4> QED BY <3>3, <4>1
    <3>5. Delta(known) \in Item /\ Delta(known).changes = known /\ Delta(known).cursor \in n .. Len(source)
      BY <3>2, <3>4 DEF Delta, LastCursor, Last, Item
    <3>6. Complete(<<>>, {})
      BY DEF Complete
    <3>7. Complete(Append(<<>>, Delta(known)), wanted)
      <4>1. <<>> \in Seq(Item) /\ {} \in SUBSET Nat /\ wanted \in SUBSET Nat /\ {} \subseteq wanted
        BY <1>1, <1>3
      <4>2. \A x \in wanted \ {}, m \in {} : m < x
        OBVIOUS
      <4>3. Delta(known).changes \in Seq(wanted) /\ Rising(Delta(known).changes)
        BY <1>4, <3>5
      <4>4. \A x \in wanted \ {} : \E k \in 1 .. Len(Delta(known).changes) : Delta(known).changes[k] = x
        BY <1>4, <3>5
      <4> QED BY <3>5, <3>6, <4>1, <4>2, <4>3, <4>4, CompleteGrows
    <3>8. Append(<<>>, Delta(known)) = <<Delta(known)>>
      OBVIOUS
    <3>9. Len(<<Delta(known)>>) = 1 /\ <<Delta(known)>>[1] = Delta(known) /\ <<Delta(known)>> \in Seq(Item)
      BY <3>5
    <3> QED BY <3>1, <3>5, <3>7, <3>8, <3>9
  <2> QED BY <2>1, <2>2
<1>7. SubscriptionTypeOK'
  BY <1>1, <1>2, <1>6 DEF SubscriptionTypeOK
<1>8. StreamOK(s)'
  <2>1. status'[s] = "open" /\ afterCursor'[s] = n /\ s \in listening' /\ s \notin waiter'
    BY <1>1, <1>2, <1>5 DEF SubscriptionTypeOK
  <2>2. Carried(s)' = queue'[s]
    BY <1>2, <1>5, <1>6, ConcatEmptySeq DEF Carried
  <2>3. Start(s)' = n
    BY <1>1, <2>1 DEF Start
  <2>4. Goes(queue'[s], n, source)
    BY <1>1, <1>2, <1>6 DEF Goes, wanted
  <2> QED BY <1>1, <1>2, <2>1, <2>2, <2>3, <2>4 DEF StreamOK
<1>9. \A r \in Stream \ {s} :
        /\ UNCHANGED <<status[r], afterCursor[r], delivered[r], queue[r], received[r]>>
        /\ (r \in listening)' = (r \in listening) /\ (r \in waiter)' = (r \in waiter)
  BY <1>1, <1>2 DEF SubscriptionTypeOK
<1> QED BY <1>2, <1>7, <1>8, <1>9, OneStream

LEMMA SubscribeSnapshotKeeps ==
  ASSUME SubscriptionInv, NEW s \in Stream, SubscribeSnapshot(s)
  PROVE  SubscriptionInv'
<1> DEFINE snapshot == [kind |-> "snapshot", changes |-> <<>>, cursor |-> Len(source)]
<1>1. /\ SubscriptionTypeOK /\ source \in Seq(BOOLEAN) /\ Len(source) \in Nat /\ MaxJournal \in Nat
      /\ DOMAIN source = 1 .. Len(source) /\ Len(source) <= MaxJournal
  BY SubscriptionAssumption, LenProperties DEF SubscriptionInv, SubscriptionTypeOK
<1>2. snapshot \in Item /\ Len(source) \in OptCursor
  BY <1>1 DEF Item, OptCursor
<1> HIDE DEF snapshot
<1>3. /\ status[s] = "none"
      /\ status' = [status EXCEPT ![s] = "open"]
      /\ delivered' = [delivered EXCEPT ![s] = Len(source)]
      /\ queue' = [queue EXCEPT ![s] = <<snapshot>>]
      /\ sessions' = sessions \cup {s} /\ listening' = listening \cup {s}
      /\ UNCHANGED <<source, afterCursor, acknowledged, waiter, received>>
  BY DEF SubscribeSnapshot, snapshot
<1>4. received[s] = <<>> /\ s \notin waiter /\ afterCursor[s] = NoCursor
  BY <1>3 DEF SubscriptionInv, StreamsOK, StreamOK
<1>5. <<snapshot>> \in Seq(Item) /\ <<snapshot>>[1] = snapshot /\ Len(<<snapshot>>) = 1
  BY <1>2
<1>6. SubscriptionTypeOK'
  BY <1>1, <1>2, <1>3, <1>5 DEF SubscriptionTypeOK
<1>7. StreamOK(s)'
  <2>1. status'[s] = "open" /\ s \in listening' /\ s \notin waiter' /\ delivered'[s] = Len(source)
    BY <1>1, <1>3, <1>4 DEF SubscriptionTypeOK
  <2>2. Carried(s)' = <<snapshot>>
    BY <1>1, <1>3, <1>4, <1>5, ConcatEmptySeq DEF Carried, SubscriptionTypeOK
  <2>3. Start(s)' = Len(source)
    BY <1>3, <1>4, <1>5, <2>2 DEF Start, snapshot
  <2>4. Goes(<<snapshot>>, Len(source), source)
    <3>1. Wants(Len(source), source) = {}
      BY <1>1 DEF Wants
    <3>2. \A i \in DOMAIN <<snapshot>> : DOMAIN <<snapshot>>[i].changes = {}
      BY <1>5 DEF snapshot
    <3>3. Complete(<<snapshot>>, {})
      BY <3>2 DEF Complete
    <3>4. \A i \in 1 .. Len(<<snapshot>>) : <<snapshot>>[i].kind # "delta"
      BY <1>5 DEF snapshot
    <3> QED BY <1>1, <3>1, <3>3, <3>4 DEF Goes
  <2>5. Len(source) \in Len(source) .. Len(source) /\ <<snapshot>> # <<>>
    BY <1>1
  <2> QED BY <1>3, <2>1, <2>2, <2>3, <2>4, <2>5 DEF StreamOK
<1>8. \A r \in Stream \ {s} :
        /\ UNCHANGED <<status[r], afterCursor[r], delivered[r], queue[r], received[r]>>
        /\ (r \in listening)' = (r \in listening) /\ (r \in waiter)' = (r \in waiter)
  BY <1>1, <1>3 DEF SubscriptionTypeOK
<1> QED BY <1>3, <1>6, <1>7, <1>8, OneStream

LEMMA NextItemKeeps ==
  ASSUME SubscriptionInv, NEW s \in Stream, NextItem(s)
  PROVE  SubscriptionInv'
<1> DEFINE q == queue[s]
           head == Head(q)
<1>1. /\ SubscriptionTypeOK /\ StreamOK(s) /\ q \in Seq(Item) /\ received[s] \in Seq(Item) /\ q # <<>>
      /\ source \in Seq(BOOLEAN) /\ Len(source) \in Nat /\ s \notin waiter
  BY LenProperties DEF SubscriptionInv, SubscriptionTypeOK, StreamsOK, NextItem
<1>2. /\ head \in Item /\ Tail(q) \in Seq(Item) /\ Append(received[s], head) \in Seq(Item)
  BY <1>1, HeadTailProperties, AppendProperties
<1>3. /\ Append(received[s], head) \o Tail(q) = received[s] \o q
      /\ Len(received[s]) + 1 \in 1 .. Len(Carried(s)) /\ Carried(s)[Len(received[s]) + 1] = head
  BY <1>1, HandOver DEF Carried
<1>4. status[s] = "open" /\ head.kind = "delta" => head.cursor \in Start(s) .. Len(source)
  <2> SUFFICES ASSUME status[s] = "open", head.kind = "delta"
               PROVE  head.cursor \in Start(s) .. Len(source)
    OBVIOUS
  <2> QED BY <1>1, <1>3 DEF StreamOK, Goes
<1> HIDE DEF head
<1>5. /\ queue' = [queue EXCEPT ![s] = Tail(q)]
      /\ received' = [received EXCEPT ![s] = Append(received[s], head)]
      /\ delivered' = [delivered EXCEPT ![s] = IF head.kind = "delta" THEN head.cursor ELSE delivered[s]]
      /\ UNCHANGED <<source, sessions, listening, status, afterCursor, acknowledged, waiter>>
  BY DEF NextItem, head
<1>6. head.cursor \in OptCursor
  BY <1>2 DEF Item, OptCursor
<1>7. SubscriptionTypeOK'
  BY <1>1, <1>2, <1>5, <1>6 DEF SubscriptionTypeOK
<1>8. StreamOK(s)'
  <2>1. queue'[s] = Tail(q) /\ received'[s] = Append(received[s], head)
        /\ delivered'[s] = IF head.kind = "delta" THEN head.cursor ELSE delivered[s]
    BY <1>1, <1>5 DEF SubscriptionTypeOK
  <2>2. Carried(s)' = Carried(s)
    BY <1>3, <2>1 DEF Carried, head
  <2>3. Start(s)' = Start(s)
    BY <1>5, <2>2 DEF Start
  <2>4. status[s] # "none"
    BY DEF NextItem
  <2> QED BY <1>1, <1>4, <1>5, <2>1, <2>2, <2>3, <2>4 DEF StreamOK
<1>9. \A r \in Stream \ {s} :
        /\ UNCHANGED <<status[r], afterCursor[r], delivered[r], queue[r], received[r]>>
        /\ (r \in listening)' = (r \in listening) /\ (r \in waiter)' = (r \in waiter)
  BY <1>1, <1>5 DEF SubscriptionTypeOK
<1> QED BY <1>5, <1>7, <1>8, <1>9, OneStream

LEMMA SubscribeFailsKeeps ==
  ASSUME SubscriptionInv, NEW s \in Stream, SubscribeFails(s)
  PROVE  SubscriptionInv'
<1>1. /\ SubscriptionTypeOK /\ StreamOK(s)
      /\ status[s] = "none" /\ status' = [status EXCEPT ![s] = "closed"]
      /\ UNCHANGED <<source, sessions, listening, afterCursor, delivered, acknowledged, queue,
                     waiter, received>>
  BY DEF SubscriptionInv, StreamsOK, SubscribeFails
<1>2. SubscriptionTypeOK'
  BY <1>1 DEF SubscriptionTypeOK
<1>3. StreamOK(s)'
  <2>1. status'[s] = "closed"
    BY <1>1 DEF SubscriptionTypeOK
  <2> QED BY <1>1, <2>1 DEF StreamOK
<1>4. \A r \in Stream \ {s} :
        /\ UNCHANGED <<status[r], afterCursor[r], delivered[r], queue[r], received[r]>>
        /\ (r \in listening)' = (r \in listening) /\ (r \in waiter)' = (r \in waiter)
  BY <1>1 DEF SubscriptionTypeOK
<1> QED BY <1>1, <1>2, <1>3, <1>4, OneStream

LEMMA NextWaitsKeeps ==
  ASSUME SubscriptionInv, NEW s \in Stream, NextWaits(s)
  PROVE  SubscriptionInv'
<1>1. /\ SubscriptionTypeOK /\ StreamOK(s)
      /\ status[s] = "open" /\ queue[s] = <<>> /\ waiter' = waiter \cup {s}
      /\ UNCHANGED <<source, sessions, listening, status, afterCursor, delivered, acknowledged,
                     queue, received>>
  BY DEF SubscriptionInv, StreamsOK, NextWaits
<1>2. SubscriptionTypeOK'
  BY <1>1 DEF SubscriptionTypeOK
<1>3. StreamOK(s)'
  <2>1. Carried(s)' = Carried(s) /\ Start(s)' = Start(s)
    BY <1>1 DEF Carried, Start
  <2> QED BY <1>1, <2>1 DEF StreamOK
<1>4. \A r \in Stream \ {s} :
        /\ UNCHANGED <<status[r], afterCursor[r], delivered[r], queue[r], received[r]>>
        /\ (r \in listening)' = (r \in listening) /\ (r \in waiter)' = (r \in waiter)
  BY <1>1
<1> QED BY <1>1, <1>2, <1>3, <1>4, OneStream

LEMMA AcknowledgeKeeps ==
  ASSUME SubscriptionInv, NEW s \in Stream, NEW n \in 0 .. MaxJournal, Acknowledge(s, n)
  PROVE  SubscriptionInv'
<1>1. /\ SubscriptionTypeOK /\ StreamOK(s)
      /\ UNCHANGED <<source, sessions, listening, status, afterCursor, delivered, queue, waiter,
                     received>>
  BY DEF SubscriptionInv, StreamsOK, Acknowledge
<1>2. acknowledged' \in [Stream -> OptCursor]
  <2>1. n \in OptCursor
    BY DEF OptCursor
  <2> QED BY <1>1, <2>1 DEF Acknowledge, SubscriptionTypeOK
<1>3. SubscriptionTypeOK'
  BY <1>1, <1>2 DEF SubscriptionTypeOK
<1>4. StreamOK(s)'
  <2>1. Carried(s)' = Carried(s) /\ Start(s)' = Start(s)
    BY <1>1 DEF Carried, Start
  <2> QED BY <1>1, <2>1 DEF StreamOK
<1>5. \A r \in Stream \ {s} :
        /\ UNCHANGED <<status[r], afterCursor[r], delivered[r], queue[r], received[r]>>
        /\ (r \in listening)' = (r \in listening) /\ (r \in waiter)' = (r \in waiter)
  BY <1>1
<1> QED BY <1>1, <1>3, <1>4, <1>5, OneStream

LEMMA CloseKeeps ==
  ASSUME SubscriptionInv, NEW s \in Stream, Close(s)
  PROVE  SubscriptionInv'
<1>1. /\ SubscriptionTypeOK /\ StreamOK(s)
      /\ status[s] = "open" /\ status' = [status EXCEPT ![s] = "closed"]
      /\ listening' = listening \ {s} /\ queue' = [queue EXCEPT ![s] = <<>>]
      /\ waiter' = waiter \ {s} /\ sessions' = sessions \ {s}
      /\ UNCHANGED <<source, afterCursor, delivered, acknowledged, received>>
  BY DEF SubscriptionInv, StreamsOK, Close, Dropped
<1>2. SubscriptionTypeOK'
  <2>1. <<>> \in Seq(Item)
    OBVIOUS
  <2> QED BY <1>1, <2>1 DEF SubscriptionTypeOK
<1>3. StreamOK(s)'
  <2>1. status'[s] = "closed" /\ s \notin listening' /\ s \notin waiter'
    BY <1>1 DEF SubscriptionTypeOK
  <2> QED BY <1>1, <2>1 DEF StreamOK
<1>4. \A r \in Stream \ {s} :
        /\ UNCHANGED <<status[r], afterCursor[r], delivered[r], queue[r], received[r]>>
        /\ (r \in listening)' = (r \in listening) /\ (r \in waiter)' = (r \in waiter)
  BY <1>1 DEF SubscriptionTypeOK
<1> QED BY <1>1, <1>2, <1>3, <1>4, OneStream

\* A commit announces to every stream at once: some are not told, or of nothing
\* they want; some overflow and close; a waiting one is served; the others
\* buffer a batch.
LEMMA AnnounceKeeps ==
  ASSUME SubscriptionInv, NEW new \in Seq(BOOLEAN), NEW again \in Nat, Commit(new, again)
  PROVE  SubscriptionInv'
<1> DEFINE known == source \o new
           window == Len(source) + 1 - again .. Len(source) + Len(new)
           told(s) == Wanted(s, window, known)
           Tells(s) == s \in listening /\ told(s) # <<>>
           Pushed(s) == Append(queue[s], Delta(told(s)))
           closing == {s \in Stream : Tells(s) /\ Overflows(s, Pushed(s))}
           keeping == {s \in Stream : Tells(s)} \ closing
           serving == {s \in keeping : Served(s)}
<1>1. /\ SubscriptionTypeOK /\ StreamsOK
      /\ Len(source) + Len(new) <= MaxJournal /\ again <= Len(source)
  BY DEF SubscriptionInv, Commit
<1>2. /\ source' = known
      /\ status' = [s \in Stream |-> IF s \in closing THEN "closed" ELSE status[s]]
      /\ listening' = listening \ closing /\ sessions' = sessions \ closing
      /\ queue' = [s \in Stream |-> CASE s \in closing -> Dropped(Pushed(s))
                                      [] s \in keeping -> Buffered(s, Pushed(s))
                                      [] OTHER -> queue[s]]
      /\ received' = [s \in Stream |-> IF s \in serving THEN Append(received[s], Head(Pushed(s)))
                                       ELSE received[s]]
      /\ delivered' = [s \in Stream |-> IF s \in serving /\ Head(Pushed(s)).kind = "delta"
                                        THEN Head(Pushed(s)).cursor ELSE delivered[s]]
      /\ waiter' = waiter \ (serving \cup closing)
      /\ UNCHANGED <<afterCursor, acknowledged>>
  BY DEF Commit, Announce
<1>3. closing \subseteq Stream /\ keeping \subseteq Stream /\ serving \subseteq keeping
      /\ keeping \cap closing = {}
  OBVIOUS
<1>4. ASSUME NEW s \in Stream
      PROVE  /\ s \in closing \/ s \in keeping => s \in listening /\ told(s) # <<>> /\ status[s] = "open"
             /\ status[s] = "open" /\ s \notin closing \cup keeping => told(s) = <<>>
             /\ s \in serving <=> s \in keeping /\ s \in waiter
  BY <1>1 DEF StreamsOK, StreamOK, Served
<1> HIDE DEF closing, keeping, serving
<1>5. /\ known \in Seq(BOOLEAN) /\ Len(known) = Len(source) + Len(new)
      /\ Len(source) \in Nat /\ Len(new) \in Nat /\ MaxJournal \in Nat
  BY <1>1, SubscriptionAssumption, ConcatProperties, LenProperties DEF SubscriptionTypeOK
<1>6. ASSUME NEW s \in Stream, status[s] = "open"
      PROVE  /\ told(s) = <<>> => Goes(Carried(s), Start(s), known)
             /\ told(s) # <<>> =>
                  /\ Delta(told(s)) \in Item /\ Delta(told(s)).cursor \in Start(s) .. Len(known)
                  /\ Goes(Append(Carried(s), Delta(told(s))), Start(s), known)
  <2>1. StreamOK(s)
    BY <1>1 DEF StreamsOK
  <2> QED BY <1>1, <1>6, <2>1, WantedIs, GoesTold
<1> HIDE DEF told, known, window
<1>7. ASSUME NEW s \in keeping
      PROVE  /\ Delta(told(s)) \in Item /\ Pushed(s) \in Seq(Item)
             /\ s \in waiter => Pushed(s) = <<Delta(told(s))>>
  <2>1. s \in Stream /\ told(s) # <<>> /\ status[s] = "open"
    BY <1>3, <1>4
  <2>2. Delta(told(s)) \in Item /\ queue[s] \in Seq(Item)
    BY <1>1, <1>6, <2>1 DEF SubscriptionTypeOK
  <2>3. s \in waiter => queue[s] = <<>>
    BY <1>1, <2>1 DEF StreamsOK, StreamOK
  <2>4. Pushed(s) \in Seq(Item)
    BY <2>2, AppendProperties
  <2>5. Append(<<>>, Delta(told(s))) = <<Delta(told(s))>>
    OBVIOUS
  <2> QED BY <2>2, <2>3, <2>4, <2>5
<1>8. ASSUME NEW s \in Stream
      PROVE  /\ queue'[s] = CASE s \in closing -> <<>>
                              [] s \in serving -> <<>>
                              [] s \in keeping \ serving -> Append(queue[s], Delta(told(s)))
                              [] OTHER -> queue[s]
             /\ received'[s] = IF s \in serving THEN Append(received[s], Delta(told(s))) ELSE received[s]
             /\ delivered'[s] = IF s \in serving THEN Delta(told(s)).cursor ELSE delivered[s]
  <2>1. s \in serving => Pushed(s) = <<Delta(told(s))>> /\ s \in keeping
    BY <1>4, <1>7
  <2>2. s \in serving => Head(Pushed(s)) = Delta(told(s)) /\ Tail(Pushed(s)) = <<>>
    <3>1. Head(<<Delta(told(s))>>) = Delta(told(s)) /\ Tail(<<Delta(told(s))>>) = <<>>
      OBVIOUS
    <3> QED BY <2>1, <3>1
  <2>3. Delta(told(s)).kind = "delta"
    BY DEF Delta
  <2>4. CASE s \in closing
    BY <1>2, <1>3, <2>4 DEF Dropped
  <2>5. CASE s \in serving
    <3>1. s \notin closing /\ s \in keeping /\ s \in waiter
      BY <1>3, <1>4, <2>5
    <3>2. Buffered(s, Pushed(s)) = <<>>
      BY <2>2, <2>5, <3>1 DEF Buffered, Served
    <3> QED BY <1>2, <2>2, <2>3, <2>5, <3>1, <3>2
  <2>6. CASE s \in keeping /\ s \notin serving
    <3>1. s \notin closing /\ s \notin waiter
      BY <1>3, <1>4, <2>6
    <3>2. Buffered(s, Pushed(s)) = Pushed(s)
      BY <3>1 DEF Buffered, Served
    <3> QED BY <1>2, <2>6, <3>1, <3>2
  <2>7. CASE s \notin closing /\ s \notin keeping
    BY <1>2, <1>3, <2>7
  <2> QED BY <2>4, <2>5, <2>6, <2>7
<1>9. SubscriptionTypeOK'
  <2>1. ASSUME NEW s \in Stream
        PROVE  queue'[s] \in Seq(Item) /\ received'[s] \in Seq(Item) /\ delivered'[s] \in OptCursor
    <3>1. queue[s] \in Seq(Item) /\ received[s] \in Seq(Item) /\ delivered[s] \in OptCursor
      BY <1>1 DEF SubscriptionTypeOK
    <3>2. s \in keeping => Append(queue[s], Delta(told(s))) \in Seq(Item)
      BY <1>7
    <3>3. s \in keeping => Append(received[s], Delta(told(s))) \in Seq(Item)
      BY <1>7, <3>1, AppendProperties
    <3>4. s \in keeping => Delta(told(s)).cursor \in OptCursor
      BY <1>7 DEF Item, OptCursor
    <3>5. <<>> \in Seq(Item) /\ (s \in serving => s \in keeping)
      BY <1>3
    <3> QED BY <1>8, <3>1, <3>2, <3>3, <3>4, <3>5
  <2>2. queue' \in [Stream -> Seq(Item)] /\ received' \in [Stream -> Seq(Item)]
        /\ delivered' \in [Stream -> OptCursor]
    BY <1>2, <2>1
  <2>3. source' \in Seq(BOOLEAN) /\ Len(source') <= MaxJournal
    BY <1>1, <1>2, <1>5
  <2> QED BY <1>1, <1>2, <2>2, <2>3 DEF SubscriptionTypeOK
<1>10. ASSUME NEW s \in Stream PROVE StreamOK(s)'
  <2>1. StreamOK(s) /\ received[s] \in Seq(Item) /\ queue[s] \in Seq(Item)
    BY <1>1 DEF StreamsOK, SubscriptionTypeOK
  <2>2. afterCursor'[s] = afterCursor[s]
    BY <1>2
  <2>3. CASE s \in closing
    <3>1. status'[s] = "closed" /\ s \notin listening' /\ s \notin waiter'
      BY <1>2, <2>3
    <3> QED BY <3>1 DEF StreamOK
  <2>4. CASE s \notin closing /\ status[s] # "open"
    <3>1. s \notin keeping /\ s \notin serving
      BY <1>3, <1>4, <2>4
    <3>2. status'[s] = status[s] /\ s \notin listening' /\ s \notin waiter' /\ received'[s] = received[s]
      BY <1>2, <1>8, <2>1, <2>4, <3>1 DEF StreamOK
    <3> QED BY <2>1, <2>2, <2>4, <3>2 DEF StreamOK
  <2>5. CASE s \notin closing /\ s \notin keeping /\ status[s] = "open"
    <3>1. s \notin serving /\ told(s) = <<>>
      BY <1>3, <1>4, <2>5
    <3>2. /\ status'[s] = "open" /\ queue'[s] = queue[s] /\ received'[s] = received[s]
          /\ delivered'[s] = delivered[s]
          /\ (s \in listening)' = (s \in listening) /\ (s \in waiter)' = (s \in waiter)
      BY <1>2, <1>8, <2>5, <3>1
    <3>3. Carried(s)' = Carried(s) /\ Start(s)' = Start(s)
      BY <2>2, <3>2 DEF Carried, Start
    <3>4. Goes(Carried(s), Start(s), known)
      BY <1>6, <2>5, <3>1
    <3>5. afterCursor[s] = NoCursor => Carried(s) # <<>> /\ delivered[s] \in Start(s) .. Len(known)
      <4>1. Start(s) \in 0 .. Len(source)
        BY <2>1, <2>5 DEF StreamOK, Goes
      <4> QED BY <1>5, <2>1, <2>5, <4>1 DEF StreamOK
    <3> QED BY <1>2, <2>1, <2>2, <2>5, <3>2, <3>3, <3>4, <3>5 DEF StreamOK
  <2>6. CASE s \in keeping
    <3> DEFINE d == Delta(told(s))
    <3>1. /\ s \notin closing /\ told(s) # <<>> /\ status[s] = "open" /\ s \in listening
          /\ d \in Item /\ d.cursor \in Start(s) .. Len(known)
          /\ Goes(Append(Carried(s), d), Start(s), known)
      BY <1>3, <1>4, <1>6, <2>6
    <3> HIDE DEF d
    <3>2. Carried(s)' = Append(Carried(s), d)
      <4>1. CASE s \in serving
        <5>1. queue[s] = <<>>
          BY <1>4, <2>1, <4>1 DEF StreamOK
        <5>2. queue'[s] = <<>> /\ received'[s] = Append(received[s], d)
          BY <1>3, <1>8, <3>1, <4>1 DEF d
        <5>3. Append(received[s], d) \in Seq(Item)
          BY <2>1, <3>1, AppendProperties
        <5> QED BY <2>1, <5>1, <5>2, <5>3, ConcatEmptySeq DEF Carried
      <4>2. CASE s \notin serving
        <5>1. queue'[s] = Append(queue[s], d) /\ received'[s] = received[s]
          BY <1>8, <2>6, <3>1, <4>2 DEF d
        <5>2. /\ received[s] \in Seq(Item) /\ queue[s] \in Seq(Item) /\ d \in Item
              /\ <<d>> \in Seq(Item) /\ received[s] \o queue[s] \in Seq(Item)
          BY <2>1, <3>1, ConcatProperties
        <5>3. queue'[s] = queue[s] \o <<d>>
          BY <5>1, <5>2, AppendIsConcat
        <5>4. received[s] \o (queue[s] \o <<d>>) = (received[s] \o queue[s]) \o <<d>>
          <6>1. PICK a \in Seq(Item) : a = received[s]
            BY <5>2
          <6>2. PICK q \in Seq(Item) : q = queue[s]
            BY <5>2
          <6>3. PICK e \in Seq(Item) : e = <<d>>
            BY <5>2
          <6>4. (a \o q) \o e = a \o (q \o e)
            BY ConcatAssociative
          <6> QED BY <6>1, <6>2, <6>3, <6>4
        <5>5. Append(Carried(s), d) = Carried(s) \o <<d>>
          BY <5>2, AppendIsConcat DEF Carried
        <5> QED BY <5>1, <5>3, <5>4, <5>5 DEF Carried
      <4> QED BY <4>1, <4>2
    <3>3. Carried(s) \in Seq(Item) /\ Append(Carried(s), d) # <<>>
      <4>1. Carried(s) \in Seq(Item)
        BY <2>1, ConcatProperties DEF Carried
      <4> QED BY <3>1, <4>1, AppendProperties
    <3>4. Start(s)' = Start(s)
      <4>1. afterCursor[s] = NoCursor => Append(Carried(s), d)[1] = Carried(s)[1]
        <5> SUFFICES ASSUME afterCursor[s] = NoCursor PROVE Append(Carried(s), d)[1] = Carried(s)[1]
          OBVIOUS
        <5>1. 1 \in 1 .. Len(Carried(s))
          <6>1. Carried(s) # <<>>
            BY <2>1, <3>1 DEF StreamOK
          <6>2. Len(Carried(s)) \in Nat \ {0}
            BY <3>3, <6>1, LenProperties, EmptySeq
          <6> QED BY <6>2
        <5> QED BY <3>1, <3>3, <5>1, AppendProperties
      <4> QED BY <2>2, <3>2, <4>1 DEF Start
    <3>5. status'[s] = "open" /\ s \in listening'
      BY <1>2, <3>1
    <3>6. s \in waiter' => s \in waiter /\ s \notin serving
      BY <1>2
    <3>7. s \notin waiter'
      BY <1>4, <2>6, <3>6
    <3>8. afterCursor[s] = NoCursor => delivered'[s] \in Start(s) .. Len(known)
      <4>1. CASE s \in serving
        <5>1. delivered'[s] = d.cursor
          BY <1>8, <4>1 DEF d
        <5> QED BY <3>1, <5>1
      <4>2. CASE s \notin serving
        <5>1. delivered'[s] = delivered[s]
          BY <1>8, <4>2
        <5>2. Start(s) \in 0 .. Len(source)
          BY <2>1, <3>1 DEF StreamOK, Goes
        <5>3. afterCursor[s] = NoCursor => delivered[s] \in Start(s) .. Len(source)
          BY <2>1, <3>1 DEF StreamOK
        <5> QED BY <1>5, <5>1, <5>2, <5>3
      <4> QED BY <4>1, <4>2
    <3> QED BY <1>2, <2>2, <3>1, <3>2, <3>3, <3>4, <3>5, <3>7, <3>8 DEF StreamOK
  <2> QED BY <2>3, <2>4, <2>5, <2>6
<1> QED BY <1>9, <1>10 DEF SubscriptionInv, StreamsOK

-----------------------------------------------------------------------------

LEMMA SubscriptionStarts == SubscriptionInit => SubscriptionInv
<1> SUFFICES ASSUME SubscriptionInit PROVE SubscriptionInv
  OBVIOUS
<1>1. SubscriptionTypeOK
  <2>1. <<>> \in Seq(BOOLEAN) /\ Len(<<>>) = 0 /\ MaxJournal \in Nat /\ <<>> \in Seq(Item)
        /\ NoCursor \in OptCursor
    BY SubscriptionAssumption DEF OptCursor
  <2> QED BY <2>1 DEF SubscriptionInit, SubscriptionTypeOK
<1>2. ASSUME NEW s \in Stream PROVE StreamOK(s)
  BY DEF SubscriptionInit, StreamOK
<1> QED BY <1>1, <1>2 DEF SubscriptionInv, StreamsOK

LEMMA SubscriptionSteps ==
  ASSUME SubscriptionInv, [SubscriptionNext]_subscriptionVars
  PROVE  SubscriptionInv'
<1>1. ASSUME NEW new \in SeqOf(BOOLEAN, MaxBatch) \ {<<>>}, NEW k \in 0 .. Overlap, Commit(new, k)
      PROVE  SubscriptionInv'
  <2>1. new \in Seq(BOOLEAN)
    <3>1. PICK m \in 0 .. MaxBatch : new \in [1 .. m -> BOOLEAN]
      BY DEF SeqOf
    <3> QED BY <3>1, SubscriptionAssumption
  <2>2. k \in Nat
    BY SubscriptionAssumption
  <2> QED BY <1>1, <2>1, <2>2, AnnounceKeeps
<1>2. ASSUME NEW s \in Stream,
             \/ SubscribeSnapshot(s) \/ SubscribeFails(s) \/ NextItem(s) \/ NextWaits(s) \/ Close(s)
      PROVE  SubscriptionInv'
  BY <1>2, SubscribeSnapshotKeeps, SubscribeFailsKeeps, NextItemKeeps, NextWaitsKeeps, CloseKeeps
<1>3. ASSUME NEW s \in Stream, NEW n \in 0 .. MaxJournal, SubscribeAfter(s, n) \/ Acknowledge(s, n)
      PROVE  SubscriptionInv'
  BY <1>3, SubscribeAfterKeeps, AcknowledgeKeeps
<1>4. CASE UNCHANGED subscriptionVars
  <2>1. \A s \in Stream : Carried(s)' = Carried(s) /\ Start(s)' = Start(s)
    BY <1>4 DEF subscriptionVars, Carried, Start
  <2> QED BY <1>4, <2>1 DEF subscriptionVars, SubscriptionInv, StreamsOK, StreamOK, SubscriptionTypeOK
<1> QED BY <1>1, <1>2, <1>3, <1>4 DEF SubscriptionNext

\* Of every behaviour of the service, with any numbers of streams and changes.
LEMMA SubscriptionHolds == SubscriptionSpec => []SubscriptionInv
BY SubscriptionStarts, SubscriptionSteps, PTL DEF SubscriptionSpec

\* The maps of the service keep their types: a stream holds one item at a time
\* of its queue, and cursors of the source's own changes (subscription.ts).
THEOREM SubscriptionTypeCorrect == SubscriptionSpec => []SubscriptionTypeOK
<1>1. SubscriptionInv => SubscriptionTypeOK
  BY DEF SubscriptionInv
<1> QED BY SubscriptionHolds, <1>1, PTL

\* An open stream carries every wanted change since it began, no other, and none
\* before a smaller one, however many commits, repeated announcements, waits and
\* overflows of other streams come between (enqueue and next of subscription.ts).
THEOREM StreamSkipsNothing == SubscriptionSpec => []NothingSkipped
<1>1. SubscriptionInv => NothingSkipped
  BY DEF SubscriptionInv, StreamsOK, StreamOK, Goes, Complete, Wants, NothingSkipped
<1> QED BY SubscriptionHolds, <1>1, PTL

\* A consumer that waits has an open stream with nothing buffered: every commit
\* serves it and every close releases it (push, next and close of
\* subscription.ts).
THEOREM NobodyIsForgotten == SubscriptionSpec => []NobodyForgotten
<1>1. SubscriptionInv => NobodyForgotten
  BY DEF SubscriptionInv, StreamsOK, StreamOK, NobodyForgotten, SubscriptionTypeOK
<1> QED BY SubscriptionHolds, <1>1, PTL

-----------------------------------------------------------------------------
(***************************************************************************)
(* The Watch stream, for any number of watchers, channels, changes and     *)
(* rolled back transactions, and any bound on the buffer.                  *)
(***************************************************************************)

WatchItem == DeltaItem \cup Snapshot

\* The committed changes among items rise, up to the store's last one.
Forward(items, last) ==
  /\ \A i \in 1 .. Len(items) : Real(items[i]) => items[i].cursor \in 1 .. last
  /\ \A i, j \in 1 .. Len(items) :
       i < j /\ Real(items[i]) /\ Real(items[j]) => items[i].cursor < items[j].cursor

NothingMissed(w) ==
  \A n \in DOMAIN changes : n > liveFrom[w] /\ Matches(w, changes[n]) =>
    \E i \in 1 .. Len(Received(w)) : Real(Received(w)[i]) /\ Received(w)[i].cursor = n

WatcherOK(w) ==
  /\ w \in changeListeners <=> at[w] \in {"wait", "woken", "yield"}
  /\ at[w] # "replay" => replaying[w] = <<>>
  /\ w \notin changeListeners => buffered[w] = <<>>
  /\ at[w] \in {"none", "created", "snapshot"} =>
       \A i \in 1 .. Len(yielded[w]) : ~Real(yielded[w][i])
  /\ at[w] = "woken" => buffered[w] # <<>>
  /\ Forward(Received(w), Len(changes))
  /\ w \in changeListeners => NothingMissed(w)

WatchersOK == \A w \in Watcher : WatcherOK(w)

WatchInv == WatchTypeOK /\ WatchersOK

-----------------------------------------------------------------------------

LEMMA ReceivedIs ==
  ASSUME WatchTypeOK, NEW w \in Watcher
  PROVE  /\ yielded[w] \in Seq(WatchItem) /\ replaying[w] \in Seq(WatchItem)
         /\ buffered[w] \in Seq(WatchItem) /\ yielded[w] \o replaying[w] \in Seq(WatchItem)
         /\ Received(w) \in Seq(WatchItem)
         /\ replaying[w] = <<>> => Received(w) = yielded[w] \o buffered[w]
         /\ buffered[w] = <<>> => Received(w) = yielded[w] \o replaying[w]
<1>1. /\ yielded[w] \in Seq(WatchItem) /\ replaying[w] \in Seq(DeltaItem)
      /\ buffered[w] \in Seq(DeltaItem)
  BY DEF WatchTypeOK, WatchItem
<1>2. replaying[w] \in Seq(WatchItem) /\ buffered[w] \in Seq(WatchItem)
  <2>1. DeltaItem \subseteq WatchItem
    BY DEF WatchItem
  <2> QED BY <1>1, <2>1, SeqMonotonic
<1>3. yielded[w] \o replaying[w] \in Seq(WatchItem)
  BY <1>1, <1>2, ConcatProperties
<1>4. Received(w) \in Seq(WatchItem)
  BY <1>2, <1>3, ConcatProperties DEF Received
<1>5. replaying[w] = <<>> => Received(w) = yielded[w] \o buffered[w]
  <2>1. yielded[w] \o <<>> = yielded[w]
    BY <1>1, ConcatEmptySeq
  <2> QED BY <2>1 DEF Received
<1>6. buffered[w] = <<>> => Received(w) = yielded[w] \o replaying[w]
  BY <1>3, ConcatEmptySeq DEF Received
<1> QED BY <1>1, <1>2, <1>3, <1>4, <1>5, <1>6

\* The items a stream keeps when it ends.
LEMMA ForwardPart ==
  ASSUME NEW a \in Seq(WatchItem), NEW b \in Seq(WatchItem), NEW last, Forward(a \o b, last)
  PROVE  Forward(a, last)
<1>1. /\ Len(a) \in Nat /\ Len(b) \in Nat /\ Len(a \o b) = Len(a) + Len(b)
      /\ \A i \in 1 .. Len(a) + Len(b) : (a \o b)[i] = IF i <= Len(a) THEN a[i] ELSE b[i - Len(a)]
  BY ConcatProperties, LenProperties
<1>2. \A i \in 1 .. Len(a) : i \in 1 .. Len(a) + Len(b) /\ i <= Len(a)
  BY <1>1
<1>3. \A i \in 1 .. Len(a) : i \in 1 .. Len(a \o b) /\ (a \o b)[i] = a[i]
  BY <1>1, <1>2
<1> QED BY <1>3 DEF Forward

\* One more item: a change the store is about to commit, or none at all.
LEMMA ForwardMore ==
  ASSUME NEW a \in Seq(WatchItem), NEW x \in WatchItem, NEW last \in Nat, NEW more \in Nat,
         last <= more, Forward(a, last), Real(x) => x.cursor \in last + 1 .. more
  PROVE  Forward(Append(a, x), more)
<1> DEFINE b == Append(a, x)
<1>1. /\ Len(a) \in Nat /\ Len(b) = Len(a) + 1 /\ b[Len(a) + 1] = x
      /\ \A i \in 1 .. Len(a) : b[i] = a[i]
  BY AppendProperties, LenProperties
<1> HIDE DEF b
<1>2. \A i \in 1 .. Len(b) : i \in 1 .. Len(a) \/ i = Len(a) + 1
  BY <1>1
<1>3. ASSUME NEW i \in 1 .. Len(b), Real(b[i])
      PROVE  b[i].cursor \in 1 .. more /\ (i # Len(a) + 1 => b[i].cursor \in 1 .. last)
  BY <1>1, <1>2, <1>3 DEF Forward
<1>4. ASSUME NEW i \in 1 .. Len(b), NEW j \in 1 .. Len(b), i < j, Real(b[i]), Real(b[j])
      PROVE  b[i].cursor < b[j].cursor
  <2>1. i \in 1 .. Len(a)
    BY <1>1, <1>2, <1>4
  <2>2. CASE j = Len(a) + 1
    <3>1. b[j].cursor \in last + 1 .. more
      BY <1>1, <1>4, <2>2
    <3>2. b[i].cursor \in 1 .. last
      BY <1>1, <1>3, <1>4, <2>1
    <3> QED BY <3>1, <3>2
  <2>3. CASE j \in 1 .. Len(a)
    BY <1>1, <1>4, <2>1, <2>3 DEF Forward
  <2> QED BY <1>2, <2>2, <2>3
<1> QED BY <1>3, <1>4 DEF Forward, b

\* A replay after items that are no changes.
LEMMA ForwardReplay ==
  ASSUME NEW a \in Seq(WatchItem), NEW b \in Seq(WatchItem), NEW last,
         \A i \in 1 .. Len(a) : ~Real(a[i]), Forward(b, last)
  PROVE  Forward(a \o b, last)
<1> DEFINE c == a \o b
<1>1. /\ Len(a) \in Nat /\ Len(b) \in Nat /\ Len(c) = Len(a) + Len(b)
      /\ \A i \in 1 .. Len(a) + Len(b) : c[i] = IF i <= Len(a) THEN a[i] ELSE b[i - Len(a)]
  BY ConcatProperties, LenProperties
<1> HIDE DEF c
<1>2. ASSUME NEW i \in 1 .. Len(c), Real(c[i])
      PROVE  i - Len(a) \in 1 .. Len(b) /\ c[i] = b[i - Len(a)]
  <2>1. ~(i <= Len(a))
    <3> SUFFICES ASSUME i <= Len(a) PROVE FALSE
      OBVIOUS
    <3>1. i \in 1 .. Len(a) /\ c[i] = a[i]
      BY <1>1
    <3> QED BY <1>2, <3>1
  <2> QED BY <1>1, <2>1
<1>3. ASSUME NEW i \in 1 .. Len(c), NEW j \in 1 .. Len(c), i < j, Real(c[i]), Real(c[j])
      PROVE  c[i].cursor < c[j].cursor
  <2>1. /\ i - Len(a) \in 1 .. Len(b) /\ c[i] = b[i - Len(a)]
        /\ j - Len(a) \in 1 .. Len(b) /\ c[j] = b[j - Len(a)]
    BY <1>2, <1>3
  <2>2. i - Len(a) < j - Len(a)
    BY <1>1, <1>3
  <2> QED BY <1>3, <2>1, <2>2 DEF Forward
<1>4. ASSUME NEW i \in 1 .. Len(c), Real(c[i]) PROVE c[i].cursor \in 1 .. last
  BY <1>2, <1>4 DEF Forward
<1> QED BY <1>3, <1>4 DEF Forward, c

\* What the replay query of a watcher returns.
LEMMA ReplayIs ==
  ASSUME WatchTypeOK, NEW w \in Watcher, NEW after \in Nat
  PROVE  Replay(w, after) \in Seq(DeltaItem) /\ Forward(Replay(w, after), Len(changes))
<1> DEFINE matching == {n \in DOMAIN changes : n > after /\ Matches(w, changes[n])}
           known == Ascending(matching)
           items == Replay(w, after)
<1>1. DOMAIN changes = 1 .. Len(changes) /\ Len(changes) \in Nat /\ Len(changes) <= MaxChanges
      /\ MaxChanges \in Nat
  BY WatchAssumption, LenProperties DEF WatchTypeOK
<1>2. matching \in SUBSET (1 .. Len(changes))
  BY <1>1
<1>3. items = [i \in 1 .. Cardinality(matching) |-> Change(known[i], TRUE)]
  BY DEF Replay
<1> HIDE DEF matching, known, items
<1>4. known \in Seq(matching) /\ Len(known) = Cardinality(matching) /\ Rising(known) /\ Len(known) \in Nat
  BY <1>1, <1>2, AscendingIs, LenProperties DEF known
<1>5. \A i \in 1 .. Len(known) : known[i] \in 1 .. Len(changes)
  BY <1>2, <1>4, ElementOfSeq
<1>6. \A i \in 1 .. Len(known) : items[i] = Change(known[i], TRUE)
  BY <1>3, <1>4
<1>7. items \in Seq(DeltaItem) /\ Len(items) = Len(known)
  <2>1. \A i \in 1 .. Len(known) : Change(known[i], TRUE) \in DeltaItem
    BY <1>1, <1>5 DEF Change, DeltaItem
  <2>2. items \in [1 .. Len(known) -> DeltaItem]
    BY <1>3, <1>4, <2>1
  <2> QED BY <1>4, <2>2
<1>8. \A i \in 1 .. Len(items) : items[i].cursor = known[i]
  <2>1. \A n : Change(n, TRUE).cursor = n
    BY DEF Change
  <2> QED BY <1>6, <1>7, <2>1
<1>9. Forward(items, Len(changes))
  BY <1>4, <1>5, <1>7, <1>8 DEF Forward, Rising
<1> QED BY <1>7, <1>9 DEF items

-----------------------------------------------------------------------------
(* The steps.                                                              *)

\* A step of one generator: the others, and the store, stay.
LEMMA OneWatcher ==
  ASSUME WatchInv, NEW w \in Watcher, UNCHANGED changes, WatchTypeOK', WatcherOK(w)',
         \A r \in Watcher \ {w} :
           /\ UNCHANGED <<request[r], at[r], replaying[r], buffered[r], yielded[r], liveFrom[r]>>
           /\ (r \in changeListeners)' = (r \in changeListeners)
  PROVE  WatchInv'
<1>1. ASSUME NEW r \in Watcher, r # w PROVE WatcherOK(r)'
  <2>1. WatcherOK(r)
    BY DEF WatchInv, WatchersOK
  <2>2. /\ UNCHANGED <<changes, request[r], at[r], replaying[r], buffered[r], yielded[r], liveFrom[r]>>
        /\ (r \in changeListeners)' = (r \in changeListeners)
    BY <1>1
  <2>3. Received(r)' = Received(r) /\ \A x : Matches(r, x)' = Matches(r, x)
    BY <2>2 DEF Received, Matches
  <2>4. NothingMissed(r)' = NothingMissed(r)
    BY <2>2, <2>3 DEF NothingMissed
  <2> QED BY <2>1, <2>2, <2>3, <2>4 DEF WatcherOK
<1> QED BY <1>1 DEF WatchInv, WatchersOK

LEMMA WatcherType ==
  ASSUME WatchInv
  PROVE  /\ WatchTypeOK /\ changes \in Seq(Scope) /\ Len(changes) \in Nat
         /\ DOMAIN changes = 1 .. Len(changes) /\ Len(changes) <= MaxChanges /\ MaxChanges \in Nat
         /\ \A w \in Watcher : WatcherOK(w)
BY WatchAssumption, LenProperties DEF WatchInv, WatchTypeOK, WatchersOK

\* The store tells its listeners of a change, which its transaction keeps or
\* takes back.
LEMMA PublishKeeps ==
  ASSUME WatchInv, NEW scope \in Scope, NEW real \in BOOLEAN, Publish(scope, real),
         UNCHANGED <<request, replaying, changeListeners, yielded, liveFrom>>,
         \/ real /\ Len(changes) < MaxChanges /\ changes' = Append(changes, scope)
         \/ ~real /\ UNCHANGED changes,
         aborts' \in 0 .. MaxAborts
  PROVE  WatchInv'
<1> DEFINE told == {w \in changeListeners : Matches(w, scope)}
           x == Change(Len(changes) + 1, real)
<1>1. /\ buffered' = [w \in Watcher |-> IF w \in told THEN Append(buffered[w], x) ELSE buffered[w]]
      /\ at' = [w \in Watcher |-> IF w \in told /\ at[w] = "wait" THEN "woken" ELSE at[w]]
  BY DEF Publish
<1>2. told \subseteq changeListeners /\ \A w : w \in told <=> w \in changeListeners /\ Matches(w, scope)
  OBVIOUS
<1>3. /\ x \in DeltaItem /\ x \in WatchItem /\ x.cursor = Len(changes) + 1
      /\ (Real(x) <=> real)
  BY WatcherType DEF Change, DeltaItem, WatchItem, Real
<1> HIDE DEF told, x
<1>4. /\ changes' \in Seq(Scope) /\ Len(changes') \in Nat /\ Len(changes) <= Len(changes')
      /\ Len(changes') <= MaxChanges /\ Len(changes') = (IF real THEN Len(changes) + 1 ELSE Len(changes))
      /\ DOMAIN changes' = 1 .. Len(changes')
  <2>1. CASE real
    <3>1. changes' \in Seq(Scope) /\ Len(changes') = Len(changes) + 1
      BY <2>1, WatcherType, AppendProperties
    <3> QED BY <2>1, <3>1, WatcherType, LenProperties
  <2>2. CASE ~real
    BY <2>2, WatcherType
  <2> QED BY <2>1, <2>2
<1>5. WatchTypeOK'
  <2>1. ASSUME NEW w \in Watcher
        PROVE  (IF w \in told THEN Append(buffered[w], x) ELSE buffered[w]) \in Seq(DeltaItem)
    <3>1. buffered[w] \in Seq(DeltaItem)
      BY WatcherType DEF WatchTypeOK
    <3> QED BY <1>3, <3>1, AppendProperties
  <2>2. buffered' \in [Watcher -> Seq(DeltaItem)]
    BY <1>1, <2>1
  <2>3. at' \in [Watcher -> Place]
    BY <1>1, WatcherType DEF WatchTypeOK, Place
  <2> QED BY <1>4, <2>2, <2>3, WatcherType DEF WatchTypeOK
<1>6. ASSUME NEW w \in Watcher PROVE WatcherOK(w)'
  <2>1. /\ WatcherOK(w) /\ replaying'[w] = replaying[w] /\ yielded'[w] = yielded[w]
        /\ liveFrom'[w] = liveFrom[w] /\ (w \in changeListeners)' = (w \in changeListeners)
        /\ at[w] \in Place
    BY WatcherType DEF WatchTypeOK
  <2>2. \A y : Matches(w, y)' = Matches(w, y)
    BY DEF Matches
  <2>3. \A n \in 1 .. Len(changes) : changes'[n] = changes[n] /\ n \in DOMAIN changes
    BY WatcherType, AppendProperties
  <2>4. CASE w \in told
    <3>1. w \in changeListeners /\ Matches(w, scope)
      BY <1>2, <2>4
    <3>2. at[w] \in {"wait", "woken", "yield"} /\ replaying[w] = <<>>
      BY <2>1, <3>1 DEF WatcherOK
    <3>3. buffered'[w] = Append(buffered[w], x) /\ at'[w] \in {"woken", "yield"}
      BY <1>1, <2>4, <3>2
    <3>4. /\ yielded[w] \in Seq(WatchItem) /\ buffered[w] \in Seq(WatchItem)
          /\ Received(w) = yielded[w] \o buffered[w] /\ Received(w) \in Seq(WatchItem)
      BY <3>2, ReceivedIs, WatcherType
    <3>5. Received(w)' = yielded[w] \o Append(buffered[w], x)
      BY <1>5, <2>1, <3>2, <3>3, <3>4, ConcatEmptySeq DEF Received
    <3>6. Received(w)' = Append(Received(w), x)
      <4>1. PICK a \in Seq(WatchItem) : a = yielded[w]
        BY <3>4
      <4>2. PICK q \in Seq(WatchItem) : q = buffered[w]
        BY <3>4
      <4>3. PICK e \in Seq(WatchItem) : e = <<x>>
        <5>1. <<x>> \in Seq(WatchItem)
          BY <1>3
        <5> QED BY <5>1
      <4>4. (a \o q) \o e = a \o (q \o e)
        BY ConcatAssociative
      <4>5. Append(Received(w), x) = Received(w) \o <<x>> /\ Append(buffered[w], x) = buffered[w] \o <<x>>
        BY <1>3, <3>4, AppendIsConcat
      <4> QED BY <3>4, <3>5, <4>1, <4>2, <4>3, <4>4, <4>5
    <3>7. /\ Len(Received(w)) \in Nat
          /\ Len(Append(Received(w), x)) = Len(Received(w)) + 1
          /\ Append(Received(w), x)[Len(Received(w)) + 1] = x
          /\ \A i \in 1 .. Len(Received(w)) : Append(Received(w), x)[i] = Received(w)[i]
      <4> DEFINE r == Received(w)
      <4>1. r \in Seq(WatchItem)
        BY <3>4
      <4> HIDE DEF r
      <4>2. Len(r) \in Nat
        BY <4>1, LenProperties
      <4>3. /\ Len(Append(r, x)) = Len(r) + 1 /\ Append(r, x)[Len(r) + 1] = x
            /\ \A i \in 1 .. Len(r) : Append(r, x)[i] = r[i]
        BY <1>3, <4>1, AppendProperties
      <4> QED BY <4>2, <4>3 DEF r
    <3>8. Forward(Append(Received(w), x), Len(changes'))
      <4>1. Forward(Received(w), Len(changes))
        BY <2>1 DEF WatcherOK
      <4>2. Real(x) => x.cursor \in Len(changes) + 1 .. Len(changes')
        BY <1>3, <1>4, WatcherType
      <4> QED BY <1>3, <1>4, <3>4, <4>1, <4>2, WatcherType, ForwardMore
    <3>9. NothingMissed(w)'
      <4> SUFFICES ASSUME NEW n \in DOMAIN changes', n > liveFrom[w], Matches(w, changes'[n])
                   PROVE  \E i \in 1 .. Len(Received(w)') :
                            Real(Received(w)'[i]) /\ Received(w)'[i].cursor = n
        BY <2>1, <2>2 DEF NothingMissed
      <4>1. CASE n \in 1 .. Len(changes)
        <5>1. n > liveFrom[w] /\ Matches(w, changes[n]) /\ n \in DOMAIN changes
          BY <2>3, <4>1
        <5>2. PICK i \in 1 .. Len(Received(w)) : Real(Received(w)[i]) /\ Received(w)[i].cursor = n
          BY <2>1, <3>1, <5>1 DEF WatcherOK, NothingMissed
        <5>3. i \in 1 .. Len(Received(w)) + 1
          BY <3>7
        <5> QED BY <3>6, <3>7, <5>2, <5>3
      <4>2. CASE n \notin 1 .. Len(changes)
        <5>1. real /\ n = Len(changes) + 1
          <6>1. n \in 1 .. Len(changes') /\ Len(changes) \in Nat
            BY <1>4, WatcherType
          <6> QED BY <1>4, <4>2, <6>1
        <5>2. Len(Received(w)) + 1 \in 1 .. Len(Received(w)')
          BY <3>6, <3>7
        <5> QED BY <1>3, <3>6, <3>7, <5>1, <5>2
      <4> QED BY <4>1, <4>2
    <3>10. buffered'[w] # <<>>
      BY <1>3, <3>3, <3>4, AppendProperties
    <3> QED BY <2>1, <3>1, <3>2, <3>3, <3>6, <3>8, <3>9, <3>10 DEF WatcherOK
  <2>5. CASE w \notin told
    <3>1. buffered'[w] = buffered[w] /\ at'[w] = at[w]
      BY <1>1, <2>5
    <3>2. Received(w)' = Received(w)
      BY <2>1, <3>1 DEF Received
    <3>3. Forward(Received(w), Len(changes'))
      <4>1. Forward(Received(w), Len(changes))
        BY <2>1 DEF WatcherOK
      <4> DEFINE r == Received(w)
      <4> HIDE DEF r
      <4>2. Forward(r, Len(changes))
        BY <4>1 DEF r
      <4>3. 1 .. Len(changes) \subseteq 1 .. Len(changes')
        BY <1>4, WatcherType
      <4>4. Forward(r, Len(changes'))
        BY <4>2, <4>3 DEF Forward
      <4> QED BY <4>4 DEF r
    <3>4. w \in changeListeners => NothingMissed(w)'
      <4> SUFFICES ASSUME w \in changeListeners, NEW n \in DOMAIN changes', n > liveFrom[w],
                          Matches(w, changes'[n])
                   PROVE  \E i \in 1 .. Len(Received(w)) :
                            Real(Received(w)[i]) /\ Received(w)[i].cursor = n
        BY <2>1, <2>2, <3>2 DEF NothingMissed
      <4>1. CASE n \in 1 .. Len(changes)
        <5>1. n > liveFrom[w] /\ Matches(w, changes[n]) /\ n \in DOMAIN changes
          BY <2>3, <4>1
        <5> QED BY <2>1, <5>1 DEF WatcherOK, NothingMissed
      <4>2. CASE n \notin 1 .. Len(changes)
        <5>1. real /\ n = Len(changes) + 1
          <6>1. n \in 1 .. Len(changes') /\ Len(changes) \in Nat
            BY <1>4, WatcherType
          <6> QED BY <1>4, <4>2, <6>1
        <5>2. changes'[n] = scope
          BY <5>1, WatcherType, AppendProperties
        <5> QED BY <1>2, <2>5, <5>2
      <4> QED BY <4>1, <4>2
    <3> QED BY <2>1, <3>1, <3>2, <3>3, <3>4 DEF WatcherOK
  <2> QED BY <2>4, <2>5
<1> QED BY <1>5, <1>6 DEF WatchInv, WatchersOK

LEMMA OpenKeeps ==
  ASSUME WatchInv, NEW w \in Watcher, NEW c \in Scope,
         NEW after \in (0 .. MaxChanges) \cup {NoAfterCursor}, Open(w, c, after)
  PROVE  WatchInv'
<1>1. /\ at[w] = "none" /\ at' = [at EXCEPT ![w] = "created"]
      /\ request' = [request EXCEPT ![w] = [channel |-> c, after |-> after]]
      /\ UNCHANGED <<changes, aborts, replaying, changeListeners, buffered, yielded, liveFrom>>
  BY DEF Open
<1>2. WatchTypeOK'
  BY <1>1, WatcherType DEF WatchTypeOK, Place
<1>3. WatcherOK(w)'
  <2>1. at'[w] = "created" /\ WatcherOK(w) /\ Received(w)' = Received(w)
    BY <1>1, WatcherType DEF WatchTypeOK, Received
  <2> QED BY <1>1, <2>1 DEF WatcherOK
<1>4. \A r \in Watcher \ {w} :
        /\ UNCHANGED <<request[r], at[r], replaying[r], buffered[r], yielded[r], liveFrom[r]>>
        /\ (r \in changeListeners)' = (r \in changeListeners)
  BY <1>1, WatcherType DEF WatchTypeOK
<1> QED BY <1>1, <1>2, <1>3, <1>4, OneWatcher

LEMMA YieldSnapshotKeeps ==
  ASSUME WatchInv, NEW w \in Watcher, YieldSnapshot(w)
  PROVE  WatchInv'
<1> DEFINE x == [kind |-> "snapshot", cursor |-> Len(changes), committed |-> TRUE]
<1>1. /\ at[w] = "created" /\ yielded' = [yielded EXCEPT ![w] = Append(yielded[w], x)]
      /\ at' = [at EXCEPT ![w] = "snapshot"]
      /\ UNCHANGED <<changes, aborts, request, replaying, changeListeners, buffered, liveFrom>>
  BY DEF YieldSnapshot, Yield
<1>2. x \in WatchItem /\ ~Real(x)
  BY WatcherType DEF WatchItem, Snapshot, Real
<1> HIDE DEF x
<1>3. /\ WatcherOK(w) /\ yielded[w] \in Seq(WatchItem) /\ at'[w] = "snapshot"
      /\ yielded'[w] = Append(yielded[w], x)
  BY <1>1, WatcherType, ReceivedIs DEF WatchTypeOK
<1>4. /\ w \notin changeListeners /\ replaying[w] = <<>> /\ buffered[w] = <<>>
      /\ \A i \in 1 .. Len(yielded[w]) : ~Real(yielded[w][i])
  BY <1>1, <1>3 DEF WatcherOK
<1>5. /\ Append(yielded[w], x) \in Seq(WatchItem)
      /\ \A i \in 1 .. Len(Append(yielded[w], x)) : ~Real(Append(yielded[w], x)[i])
  <2> DEFINE s == Append(yielded[w], x)
  <2>1. /\ s \in Seq(WatchItem) /\ Len(yielded[w]) \in Nat /\ Len(s) = Len(yielded[w]) + 1
        /\ s[Len(yielded[w]) + 1] = x /\ \A i \in 1 .. Len(yielded[w]) : s[i] = yielded[w][i]
    BY <1>2, <1>3, AppendProperties, LenProperties
  <2> HIDE DEF s
  <2>2. \A i \in 1 .. Len(s) : ~Real(s[i])
    <3>1. \A i \in 1 .. Len(s) : i \in 1 .. Len(yielded[w]) \/ i = Len(yielded[w]) + 1
      BY <2>1
    <3> QED BY <1>2, <1>4, <2>1, <3>1
  <2> QED BY <2>1, <2>2 DEF s
<1>6. WatchTypeOK'
  <2>1. yielded' \in [Watcher -> Seq(WatchItem)]
    BY <1>1, <1>5, WatcherType DEF WatchTypeOK, WatchItem
  <2> QED BY <1>1, <2>1, WatcherType DEF WatchTypeOK, Place, WatchItem
<1>7. WatcherOK(w)'
  <2>1. Received(w)' = Append(yielded[w], x)
    BY <1>1, <1>3, <1>4, <1>5, ConcatEmptySeq DEF Received
  <2>2. Forward(Append(yielded[w], x), Len(changes))
    BY <1>5 DEF Forward
  <2> QED BY <1>1, <1>3, <1>4, <1>5, <2>1, <2>2 DEF WatcherOK
<1>8. \A r \in Watcher \ {w} :
        /\ UNCHANGED <<request[r], at[r], replaying[r], buffered[r], yielded[r], liveFrom[r]>>
        /\ (r \in changeListeners)' = (r \in changeListeners)
  BY <1>1, WatcherType DEF WatchTypeOK
<1> QED BY <1>1, <1>6, <1>7, <1>8, OneWatcher

LEMMA YieldReplayedKeeps ==
  ASSUME WatchInv, NEW w \in Watcher, YieldReplayed(w)
  PROVE  WatchInv'
<1> DEFINE rest == Remaining(w)
           mine == yielded[w]
<1>1. /\ InReplay(w) /\ rest # <<>>
      /\ yielded' = [yielded EXCEPT ![w] = Append(mine, Head(rest))]
      /\ replaying' = [replaying EXCEPT ![w] = Tail(rest)]
      /\ at' = [at EXCEPT ![w] = "replay"]
      /\ UNCHANGED <<changes, aborts, request, changeListeners, buffered, liveFrom>>
  BY DEF YieldReplayed, Yield
<1>2. WatcherOK(w) /\ mine \in Seq(WatchItem) /\ at[w] \in {"created", "snapshot", "replay"}
  BY <1>1, WatcherType, ReceivedIs DEF InReplay
<1>3. w \notin changeListeners /\ buffered[w] = <<>>
  BY <1>2 DEF WatcherOK
<1>4. rest \in Seq(DeltaItem) /\ rest \in Seq(WatchItem) /\ Forward(mine \o rest, Len(changes))
  <2>1. DeltaItem \subseteq WatchItem
    BY DEF WatchItem
  <2>2. CASE at[w] = "replay"
    <3>1. rest = replaying[w] /\ rest \in Seq(DeltaItem)
      BY <2>2, WatcherType DEF Remaining, WatchTypeOK
    <3>2. Received(w) = mine \o rest
      BY <1>3, <3>1, ReceivedIs, WatcherType
    <3> QED BY <1>2, <2>1, <3>1, <3>2, SeqMonotonic DEF WatcherOK
  <2>3. CASE at[w] # "replay"
    <3>1. rest = Replay(w, ReplayAfter(w)) /\ ReplayAfter(w) \in Nat
      BY <2>3, WatcherType DEF Remaining, ReplayAfter, WatchTypeOK
    <3>2. rest \in Seq(DeltaItem) /\ Forward(rest, Len(changes))
      BY <3>1, WatcherType, ReplayIs
    <3>3. rest \in Seq(WatchItem)
      BY <2>1, <3>2, SeqMonotonic
    <3>4. \A i \in 1 .. Len(mine) : ~Real(mine[i])
      BY <1>2, <2>3 DEF WatcherOK
    <3> QED BY <1>2, <3>2, <3>3, <3>4, ForwardReplay
  <2> QED BY <2>2, <2>3
<1> HIDE DEF rest, mine
<1>5. /\ Head(rest) \in DeltaItem /\ Head(rest) \in WatchItem
      /\ Tail(rest) \in Seq(DeltaItem) /\ Tail(rest) \in Seq(WatchItem)
      /\ Append(mine, Head(rest)) \in Seq(WatchItem)
  BY <1>1, <1>2, <1>4, HeadTailProperties, AppendProperties
<1>6. Append(mine, Head(rest)) \o Tail(rest) = mine \o rest /\ mine \o rest \in Seq(WatchItem)
  BY <1>1, <1>2, <1>4, HandOver, ConcatProperties
<1>7. WatchTypeOK'
  BY <1>1, <1>5, WatcherType DEF WatchTypeOK, Place, WatchItem
<1>8. WatcherOK(w)'
  <2>1. /\ yielded'[w] = Append(mine, Head(rest)) /\ replaying'[w] = Tail(rest)
        /\ at'[w] = "replay" /\ buffered'[w] = <<>> /\ w \notin changeListeners'
    BY <1>1, <1>3, WatcherType DEF WatchTypeOK
  <2>2. Received(w)' = mine \o rest
    BY <1>6, <2>1, ConcatEmptySeq DEF Received
  <2> QED BY <1>1, <1>4, <2>1, <2>2 DEF WatcherOK
<1>9. \A r \in Watcher \ {w} :
        /\ UNCHANGED <<request[r], at[r], replaying[r], buffered[r], yielded[r], liveFrom[r]>>
        /\ (r \in changeListeners)' = (r \in changeListeners)
  BY <1>1, WatcherType DEF WatchTypeOK
<1> QED BY <1>1, <1>7, <1>8, <1>9, OneWatcher

LEMMA GoLiveKeeps ==
  ASSUME WatchInv, NEW w \in Watcher, GoLive(w)
  PROVE  WatchInv'
<1>1. /\ InReplay(w) /\ Remaining(w) = <<>>
      /\ changeListeners' = changeListeners \cup {w}
      /\ liveFrom' = [liveFrom EXCEPT ![w] = Len(changes)]
      /\ at' = [at EXCEPT ![w] = "wait"]
      /\ UNCHANGED <<changes, aborts, request, replaying, buffered, yielded>>
  BY DEF GoLive
<1>2. WatcherOK(w) /\ at[w] \in {"created", "snapshot", "replay"}
  BY <1>1, WatcherType DEF InReplay
<1>3. replaying[w] = <<>>
  BY <1>1, <1>2 DEF WatcherOK, Remaining
<1>4. WatchTypeOK'
  BY <1>1, WatcherType DEF WatchTypeOK, Place
<1>5. WatcherOK(w)'
  <2>1. at'[w] = "wait" /\ liveFrom'[w] = Len(changes) /\ w \in changeListeners'
    BY <1>1, WatcherType DEF WatchTypeOK
  <2>2. Received(w)' = Received(w)
    BY <1>1 DEF Received
  <2>3. NothingMissed(w)'
    <3>1. \A n \in DOMAIN changes : ~(n > Len(changes))
      BY WatcherType
    <3> QED BY <1>1, <2>1, <3>1 DEF NothingMissed
  <2> QED BY <1>1, <1>2, <1>3, <2>1, <2>2, <2>3 DEF WatcherOK
<1>6. \A r \in Watcher \ {w} :
        /\ UNCHANGED <<request[r], at[r], replaying[r], buffered[r], yielded[r], liveFrom[r]>>
        /\ (r \in changeListeners)' = (r \in changeListeners)
  BY <1>1, WatcherType DEF WatchTypeOK
<1> QED BY <1>1, <1>4, <1>5, <1>6, OneWatcher

\* A buffered change is handed over: where it lies changes, what the stream
\* carries does not.
LEMMA BufferedIsHandedOver ==
  ASSUME WatchInv, NEW w \in Watcher, at[w] \in {"woken", "yield"}, buffered[w] # <<>>,
         Yield(w, Head(buffered[w])), buffered' = [buffered EXCEPT ![w] = Tail(@)],
         at' = [at EXCEPT ![w] = "yield"],
         UNCHANGED <<changes, aborts, request, replaying, changeListeners, liveFrom>>
  PROVE  WatchInv'
<1> DEFINE mine == yielded[w]
           q == buffered[w]
<1>1. /\ mine \in Seq(WatchItem) /\ q \in Seq(WatchItem) /\ q \in Seq(DeltaItem) /\ q # <<>>
      /\ WatcherOK(w) /\ replaying[w] = <<>> /\ w \in changeListeners /\ Received(w) = mine \o q
  BY WatcherType, ReceivedIs DEF WatcherOK, WatchTypeOK
<1>2. /\ yielded' = [yielded EXCEPT ![w] = Append(mine, Head(q))]
      /\ buffered' = [buffered EXCEPT ![w] = Tail(q)]
  BY DEF Yield
<1> HIDE DEF mine, q
<1>3. /\ Head(q) \in WatchItem /\ Tail(q) \in Seq(DeltaItem) /\ Append(mine, Head(q)) \in Seq(WatchItem)
      /\ Append(mine, Head(q)) \o Tail(q) = mine \o q
  BY <1>1, HandOver, HeadTailProperties, AppendProperties
<1>4. WatchTypeOK'
  BY <1>2, <1>3, WatcherType DEF WatchTypeOK, Place, WatchItem
<1>5. WatcherOK(w)'
  <2>1. /\ yielded'[w] = Append(mine, Head(q)) /\ buffered'[w] = Tail(q) /\ at'[w] = "yield"
        /\ replaying'[w] = <<>>
    BY <1>1, <1>2, WatcherType DEF WatchTypeOK
  <2>2. Received(w)' = Received(w)
    <3>1. Received(w)' = Append(mine, Head(q)) \o Tail(q)
      BY <1>3, <2>1, ConcatEmptySeq DEF Received
    <3> QED BY <1>1, <1>3, <3>1
  <2>3. NothingMissed(w)' = NothingMissed(w)
    BY <2>2 DEF NothingMissed, Matches
  <2> QED BY <1>1, <2>1, <2>2, <2>3 DEF WatcherOK
<1>6. \A r \in Watcher \ {w} :
        /\ UNCHANGED <<request[r], at[r], replaying[r], buffered[r], yielded[r], liveFrom[r]>>
        /\ (r \in changeListeners)' = (r \in changeListeners)
  BY <1>2, WatcherType DEF WatchTypeOK
<1> QED BY <1>4, <1>5, <1>6, OneWatcher

LEMMA WakeKeeps ==
  ASSUME WatchInv, NEW w \in Watcher, Wake(w) \/ YieldBuffered(w)
  PROVE  WatchInv'
<1>1. WatcherOK(w) /\ at \in [Watcher -> Place]
  BY WatcherType DEF WatchTypeOK
<1>2. CASE Wake(w)
  <2>1. buffered[w] # <<>>
    BY <1>1, <1>2 DEF WatcherOK, Wake
  <2> QED BY <1>2, <2>1, BufferedIsHandedOver DEF Wake
<1>3. CASE YieldBuffered(w)
  <2>1. at' = [at EXCEPT ![w] = "yield"]
    BY <1>1, <1>3 DEF YieldBuffered
  <2> QED BY <1>3, <2>1, BufferedIsHandedOver DEF YieldBuffered
<1> QED BY <1>2, <1>3

\* A stream that ends keeps what it handed over.
LEMMA EndKeeps ==
  ASSUME WatchInv, NEW w \in Watcher, Fail(w) \/ Return(w)
  PROVE  WatchInv'
<1>1. /\ at' = [at EXCEPT ![w] = IF Fail(w) THEN "failed" ELSE "returned"]
      /\ changeListeners' = changeListeners \ {w}
      /\ buffered' = [buffered EXCEPT ![w] = <<>>]
      /\ UNCHANGED <<changes, aborts, request, yielded, liveFrom>>
  BY DEF Fail, Return
<1>2. WatcherOK(w) /\ yielded[w] \in Seq(WatchItem) /\ replaying[w] \in Seq(WatchItem)
      /\ buffered[w] \in Seq(WatchItem) /\ yielded[w] \o replaying[w] \in Seq(WatchItem)
  BY WatcherType, ReceivedIs
<1>3. replaying' = [replaying EXCEPT ![w] = <<>>]
  <2>1. CASE Fail(w)
    <3>1. replaying[w] = <<>> /\ replaying' = replaying
      BY <1>2, <2>1 DEF Fail, WatcherOK
    <3> QED BY <3>1, WatcherType DEF WatchTypeOK
  <2>2. CASE Return(w)
    BY <2>2 DEF Return
  <2> QED BY <2>1, <2>2
<1>4. WatchTypeOK'
  <2>1. <<>> \in Seq(DeltaItem)
    OBVIOUS
  <2> QED BY <1>1, <1>3, <2>1, WatcherType DEF WatchTypeOK, Place
<1>5. WatcherOK(w)'
  <2>1. /\ at'[w] \in {"failed", "returned"} /\ w \notin changeListeners' /\ buffered'[w] = <<>>
        /\ replaying'[w] = <<>> /\ yielded'[w] = yielded[w]
    BY <1>1, <1>3, WatcherType DEF WatchTypeOK
  <2>2. Received(w)' = yielded[w]
    BY <1>2, <2>1, ConcatEmptySeq DEF Received
  <2>3. Forward(yielded[w], Len(changes))
    <3>1. Forward(Received(w), Len(changes))
      BY <1>2 DEF WatcherOK
    <3>2. Forward(yielded[w] \o replaying[w], Len(changes))
      BY <1>2, <3>1, ForwardPart DEF Received
    <3> QED BY <1>2, <3>2, ForwardPart
  <2> QED BY <1>1, <2>1, <2>2, <2>3 DEF WatcherOK
<1>6. \A r \in Watcher \ {w} :
        /\ UNCHANGED <<request[r], at[r], replaying[r], buffered[r], yielded[r], liveFrom[r]>>
        /\ (r \in changeListeners)' = (r \in changeListeners)
  BY <1>1, <1>3, WatcherType DEF WatchTypeOK
<1> QED BY <1>1, <1>4, <1>5, <1>6, OneWatcher

LEMMA WaitKeeps ==
  ASSUME WatchInv, NEW w \in Watcher, Wait(w)
  PROVE  WatchInv'
<1>1. /\ at[w] = "yield" /\ at' = [at EXCEPT ![w] = "wait"]
      /\ UNCHANGED <<changes, aborts, request, replaying, changeListeners, buffered, yielded,
                     liveFrom>>
  BY DEF Wait
<1>2. WatchTypeOK'
  BY <1>1, WatcherType DEF WatchTypeOK, Place
<1>3. WatcherOK(w)'
  <2>1. at'[w] = "wait" /\ WatcherOK(w)
    BY <1>1, WatcherType DEF WatchTypeOK
  <2>2. Received(w)' = Received(w) /\ \A n : Matches(w, n)' = Matches(w, n)
    BY <1>1 DEF Received, Matches
  <2>3. NothingMissed(w)' = NothingMissed(w)
    BY <1>1, <2>2 DEF NothingMissed
  <2> QED BY <1>1, <2>1, <2>2, <2>3 DEF WatcherOK
<1>4. \A r \in Watcher \ {w} :
        /\ UNCHANGED <<request[r], at[r], replaying[r], buffered[r], yielded[r], liveFrom[r]>>
        /\ (r \in changeListeners)' = (r \in changeListeners)
  BY <1>1, WatcherType DEF WatchTypeOK
<1> QED BY <1>1, <1>2, <1>3, <1>4, OneWatcher

-----------------------------------------------------------------------------

LEMMA WatchStarts == WatchInit => WatchInv
<1> SUFFICES ASSUME WatchInit PROVE WatchInv
  OBVIOUS
<1>1. WatchTypeOK
  <2>1. /\ \A S : <<>> \in Seq(S) /\ Len(<<>>) = 0 /\ MaxChanges \in Nat /\ MaxAborts \in Nat
        /\ Global \in Scope
    BY WatchAssumption DEF Scope
  <2> QED BY <2>1 DEF WatchInit, WatchTypeOK, Place
<1>2. ASSUME NEW w \in Watcher PROVE WatcherOK(w)
  <2>1. /\ yielded[w] = <<>> /\ replaying[w] = <<>> /\ buffered[w] = <<>> /\ at[w] = "none"
        /\ w \notin changeListeners
    BY DEF WatchInit
  <2>2. Received(w) = <<>> /\ Len(<<>>) = 0
    BY <2>1, ConcatEmptySeq DEF Received
  <2>3. Forward(<<>>, Len(changes))
    BY <2>2 DEF Forward
  <2> QED BY <2>1, <2>2, <2>3 DEF WatcherOK
<1> QED BY <1>1, <1>2 DEF WatchInv, WatchersOK

LEMMA WatchSteps == WatchInv /\ [WatchNext]_watchVars => WatchInv'
<1> SUFFICES ASSUME WatchInv, [WatchNext]_watchVars PROVE WatchInv'
  OBVIOUS
<1>1. ASSUME NEW s \in Scope, AppendChange(s) PROVE WatchInv'
  <2>1. aborts' \in 0 .. MaxAborts
    BY <1>1, WatcherType DEF AppendChange, WatchTypeOK
  <2> QED BY <1>1, <2>1, PublishKeeps DEF AppendChange
<1>2. CASE RollBack
  <2>1. aborts' \in 0 .. MaxAborts
    BY <1>2, WatcherType, WatchAssumption DEF RollBack, WatchTypeOK
  <2>2. Global \in Scope
    BY DEF Scope
  <2> QED BY <1>2, <2>1, <2>2, PublishKeeps DEF RollBack
<1>3. ASSUME NEW w \in Watcher, NEW c \in Scope, NEW n \in (0 .. MaxChanges) \cup {NoAfterCursor},
             Open(w, c, n)
      PROVE  WatchInv'
  BY <1>3, OpenKeeps
<1>4. ASSUME NEW w \in Watcher, Step(w) \/ Return(w) PROVE WatchInv'
  BY <1>4, YieldSnapshotKeeps, YieldReplayedKeeps, GoLiveKeeps, WakeKeeps, EndKeeps, WaitKeeps DEF Step
<1>5. CASE UNCHANGED watchVars
  <2>1. \A w \in Watcher : Received(w)' = Received(w) /\ \A x : Matches(w, x)' = Matches(w, x)
    BY <1>5 DEF watchVars, Received, Matches
  <2>2. \A w \in Watcher : NothingMissed(w)' = NothingMissed(w)
    BY <1>5, <2>1 DEF watchVars, NothingMissed
  <2>3. WatchTypeOK'
    BY <1>5, WatcherType DEF watchVars, WatchTypeOK
  <2>4. \A w \in Watcher : WatcherOK(w)'
    BY <1>5, <2>1, <2>2, WatcherType DEF watchVars, WatcherOK
  <2> QED BY <2>3, <2>4 DEF WatchInv, WatchersOK
<1> QED BY <1>1, <1>2, <1>3, <1>4, <1>5 DEF WatchNext

LEMMA WatchHolds == WatchSpec => []WatchInv
BY WatchStarts, WatchSteps, PTL DEF WatchSpec

\* The journal, the generators and their queues keep their types (watch of
\* composition.ts): an item handed over is a snapshot or one change.
THEOREM WatchTypeCorrect == WatchSpec => []WatchTypeOK
<1>1. WatchInv => WatchTypeOK
  BY DEF WatchInv
<1> QED BY WatchHolds, <1>1, PTL

\* No Watch stream hands over a committed change twice or out of order, also
\* across the switch from the replay to the listener and after a transaction
\* that published and rolled back (watch and replay).
THEOREM WatchInCursorOrder == WatchSpec => []CursorOrder
<1>1. WatchInv => CursorOrder
  <2> SUFFICES ASSUME WatchInv, NEW w \in Watcher
               PROVE  \A i, j \in DOMAIN Received(w) :
                        i < j /\ Real(Received(w)[i]) /\ Real(Received(w)[j]) =>
                          Received(w)[i].cursor < Received(w)[j].cursor
    BY DEF CursorOrder
  <2>1. DOMAIN Received(w) = 1 .. Len(Received(w))
    BY ReceivedIs, WatcherType, LenProperties
  <2> QED BY <2>1, WatcherType DEF WatcherOK, Forward
<1> QED BY WatchHolds, <1>1, PTL

\* From the moment a stream listens, every matching change is handed over or
\* buffered: none falls between the store's commit, the listener, the wake-up
\* and the queue's draining (watch, onChange and appendChange).
THEOREM WatchHasNoGap == WatchSpec => []NoGapWhileLive
<1>1. WatchInv => NoGapWhileLive
  <2> SUFFICES ASSUME WatchInv, NEW w \in changeListeners, NEW n \in DOMAIN changes,
                      n > liveFrom[w], Matches(w, changes[n])
               PROVE  \E i \in DOMAIN Received(w) : Real(Received(w)[i]) /\ Received(w)[i].cursor = n
    BY DEF NoGapWhileLive
  <2>1. w \in Watcher /\ WatcherOK(w)
    BY WatcherType DEF WatchTypeOK
  <2>2. DOMAIN Received(w) = 1 .. Len(Received(w))
    BY <2>1, ReceivedIs, WatcherType, LenProperties
  <2> QED BY <2>1, <2>2 DEF WatcherOK, NothingMissed
<1> QED BY WatchHolds, <1>1, PTL

-----------------------------------------------------------------------------
(* The conversation with a provider: its journal and its jobs.             *)

\* s is a sequence, whatever its elements.
IsSequence(s) == s \in Seq({s[i] : i \in 1 .. Len(s)})

\* What an append does to a sequence.
LEMMA SequenceGrows ==
  ASSUME NEW s, IsSequence(s), NEW e
  PROVE  /\ IsSequence(Append(s, e)) /\ Len(s) \in Nat
         /\ Len(Append(s, e)) = Len(s) + 1 /\ Append(s, e)[Len(s) + 1] = e
         /\ \A i \in 1 .. Len(s) : Append(s, e)[i] = s[i]
<1> DEFINE S == {s[i] : i \in 1 .. Len(s)}
           T == S \cup {e}
           t == Append(s, e)
<1>1. s \in Seq(S)
  BY DEF IsSequence
<1> HIDE DEF S
<1>2. s \in Seq(T) /\ e \in T
  BY <1>1, SeqMonotonic
<1>3. Len(s) \in Nat
  BY <1>1, LenProperties
<1>4. t \in Seq(T) /\ Len(t) = Len(s) + 1 /\ t[Len(s) + 1] = e /\ \A i \in 1 .. Len(s) : t[i] = s[i]
  BY <1>2, <1>3, AppendProperties
<1>5. t \in [1 .. Len(s) + 1 -> {t[i] : i \in 1 .. Len(t)}]
  <2>1. t \in [1 .. Len(s) + 1 -> T]
    BY <1>4, LenProperties
  <2> QED BY <1>4, <2>1
<1>6. t \in Seq({t[i] : i \in 1 .. Len(t)})
  <2> HIDE DEF t
  <2> QED BY <1>3, <1>5
<1> QED BY <1>3, <1>4, <1>6 DEF IsSequence

\* A field of one element is changed.
LEMMA Replaced ==
  ASSUME NEW s, IsSequence(s), NEW i, NEW e
  PROVE  IsSequence([s EXCEPT ![i] = e]) /\ Len([s EXCEPT ![i] = e]) = Len(s)
<1> DEFINE S == {s[k] : k \in 1 .. Len(s)}
           t == [s EXCEPT ![i] = e]
<1>1. s \in Seq(S)
  BY DEF IsSequence
<1> HIDE DEF S
<1>2. Len(s) \in Nat /\ s \in [1 .. Len(s) -> S]
  BY <1>1, LenProperties
<1>3. t \in [1 .. Len(s) -> {t[k] : k \in 1 .. Len(s)}]
  <2>1. DOMAIN t = 1 .. Len(s) /\ t = [k \in DOMAIN s |-> t[k]]
    BY <1>2
  <2> HIDE DEF t
  <2> QED BY <1>2, <2>1
<1> HIDE DEF t
<1>4. t \in Seq({t[k] : k \in 1 .. Len(s)}) /\ Len(t) = Len(s)
  BY <1>2, <1>3
<1>5. IsSequence(t) /\ Len(t) = Len(s)
  BY <1>4 DEF IsSequence
<1> QED BY <1>5 DEF t

\* The rest of a sequence is shorter by one.
LEMMA RestOf ==
  ASSUME NEW s, IsSequence(s), s # <<>>
  PROVE  IsSequence(Tail(s)) /\ (Len(s) # 1 => Tail(s) # <<>>)
<1> DEFINE S == {s[i] : i \in 1 .. Len(s)}
           t == Tail(s)
<1>1. s \in Seq(S)
  BY DEF IsSequence
<1> HIDE DEF S
<1>2. Len(s) \in Nat /\ t \in Seq(S) /\ Len(t) = Len(s) - 1
  BY <1>1, HeadTailProperties, LenProperties
<1>3. Len(t) \in Nat /\ t \in [1 .. Len(t) -> S]
  BY <1>2, LenProperties
<1>4. t = <<>> => Len(t) = 0
  BY EmptySeq
<1> HIDE DEF t
<1>5. t \in [1 .. Len(t) -> {t[i] : i \in 1 .. Len(t)}]
  BY <1>3
<1>6. t \in Seq({t[i] : i \in 1 .. Len(t)})
  BY <1>3, <1>5
<1>7. IsSequence(t)
  BY <1>6 DEF IsSequence
<1>8. Len(s) # 1 => t # <<>>
  BY <1>2, <1>4
<1> QED BY <1>7, <1>8 DEF t

\* A nonempty set of positions has a smallest and a largest one.
LEMMA EndsOf ==
  ASSUME NEW b \in Nat, NEW S \in SUBSET (1 .. b), S # {}
  PROVE  /\ Min(S) \in S /\ \A x \in S : Min(S) <= x
         /\ Max(S) \in S /\ \A x \in S : x <= Max(S)
<1> DEFINE a == Ascending(S)
           n == Len(a)
<1>1. a \in Seq(S) /\ Rising(a) /\ \A x \in S : \E i \in 1 .. n : a[i] = x
  BY AscendingIs
<1> HIDE DEF a
<1>2. n \in Nat /\ \A i \in 1 .. n : a[i] \in S
  BY <1>1, LenProperties, ElementOfSeq
<1>3. n # 0
  <2>1. PICK x \in S : TRUE
    OBVIOUS
  <2>2. PICK i \in 1 .. n : a[i] = x
    BY <1>1, <2>1
  <2> QED BY <1>2, <2>2
<1>4. 1 \in 1 .. n /\ n \in 1 .. n
  BY <1>2, <1>3
<1>5. \A x \in S : x \in Int
  OBVIOUS
<1>6. \A i \in 1 .. n : a[1] <= a[i] /\ a[i] <= a[n]
  <2> SUFFICES ASSUME NEW i \in 1 .. n PROVE a[1] <= a[i] /\ a[i] <= a[n]
    OBVIOUS
  <2>1. a[1] \in Int /\ a[i] \in Int /\ a[n] \in Int
    BY <1>2, <1>4, <1>5
  <2>2. i = 1 \/ a[1] < a[i]
    BY <1>1, <1>2, <1>4 DEF Rising
  <2>3. i = n \/ a[i] < a[n]
    BY <1>1, <1>2, <1>4 DEF Rising
  <2> QED BY <2>1, <2>2, <2>3
<1>7. \A x \in S : a[1] <= x /\ x <= a[n]
  BY <1>1, <1>6
<1>8. \E x \in S : \A y \in S : x <= y
  BY <1>2, <1>4, <1>7
<1>9. \E x \in S : \A y \in S : x >= y
  BY <1>2, <1>4, <1>5, <1>7
<1>10. Min(S) \in S /\ \A y \in S : Min(S) <= y
  BY <1>8 DEF Min
<1>11. Max(S) \in S /\ \A y \in S : Max(S) >= y
  BY <1>9 DEF Max
<1> QED BY <1>5, <1>10, <1>11

\* No key and no request twice in the journal j.
UniqueKeys(j) ==
  /\ \A m, n \in Messages(j) : j[m].key = j[n].key /\ j[m].key # <<>> => m = n
  /\ \A c, d \in Controls(j) : j[c] = j[d] => c = d

JournalOK(j) == IsSequence(j) /\ UniqueKeys(j)

\* A change whose key or request is new keeps them unique.
LEMMA NewChangeKeeps ==
  ASSUME NEW j, JournalOK(j), NEW e,
         e.kind = "sent" => e.key = <<>> \/ \A m \in Messages(j) : j[m].key # e.key,
         e.kind = "control" => \A c \in Controls(j) : j[c] # e
  PROVE  JournalOK(Append(j, e))
<1> DEFINE t == Append(j, e)
           n == Len(j)
<1>1. /\ IsSequence(t) /\ n \in Nat /\ Len(t) = n + 1 /\ t[n + 1] = e
      /\ \A i \in 1 .. n : t[i] = j[i]
  BY SequenceGrows DEF JournalOK
<1> HIDE DEF t, n
<1>2. \A i \in 1 .. n + 1 : i \in 1 .. n \/ i = n + 1
  BY <1>1
<1>3. \A m \in Messages(t) : (m \in Messages(j) /\ t[m] = j[m]) \/ (m = n + 1 /\ t[m] = e /\ e.kind = "sent")
  BY <1>1, <1>2 DEF Messages, CursorsOf, n
<1>4. \A c \in Controls(t) : (c \in Controls(j) /\ t[c] = j[c]) \/ (c = n + 1 /\ t[c] = e /\ e.kind = "control")
  BY <1>1, <1>2 DEF Controls, CursorsOf, n
<1>5. ASSUME NEW k \in Messages(t), NEW m \in Messages(t), t[k].key = t[m].key, t[k].key # <<>>
      PROVE  k = m
  BY <1>3, <1>5 DEF JournalOK, UniqueKeys
<1>6. ASSUME NEW c \in Controls(t), NEW d \in Controls(t), t[c] = t[d]
      PROVE  c = d
  BY <1>4, <1>6 DEF JournalOK, UniqueKeys
<1> QED BY <1>1, <1>5, <1>6 DEF JournalOK, UniqueKeys, t

\* Every change of the journal keeps it a journal with unique keys.
LEMMA CommitKeepsKeys ==
  ASSUME NEW j, JournalOK(j), NEW from, NEW to, NEW direct, NEW re, NEW key, NEW text
  PROVE  JournalOK(CommittedJournal(j, from, to, direct, re, key, text))
<1> DEFINE e == SentChange(from, to, direct, re, RootOfReply(j, re), key, text)
<1>1. CASE MessageWithKey(j, key) # 0
  BY <1>1 DEF CommittedJournal
<1>2. CASE MessageWithKey(j, key) = 0
  <2>1. e.kind = "sent" /\ e.key = key
    BY DEF SentChange
  <2>2. key = <<>> \/ {m \in Messages(j) : j[m].key = key} = {}
    <3> DEFINE hits == {m \in Messages(j) : j[m].key = key}
    <3> SUFFICES ASSUME key # <<>>, hits # {} PROVE FALSE
      OBVIOUS
    <3>1. Len(j) \in Nat /\ hits \in SUBSET (1 .. Len(j))
      BY SequenceGrows DEF JournalOK, Messages, CursorsOf
    <3>2. Min(hits) \in 1 .. Len(j)
      BY <3>1, EndsOf
    <3>3. MessageWithKey(j, key) = Min(hits)
      BY DEF MessageWithKey
    <3> QED BY <1>2, <3>1, <3>2, <3>3
  <2> HIDE DEF e
  <2>3. JournalOK(Append(j, e))
    BY <2>1, <2>2, NewChangeKeeps
  <2> QED BY <1>2, <2>3 DEF CommittedJournal, e
<1> QED BY <1>1, <1>2

LEMMA OtherChangesKeepKeys ==
  ASSUME NEW j, JournalOK(j), NEW m, NEW state, NEW from, NEW asked
  PROVE  /\ JournalOK(AppendMessageDelivery(j, m, state))
         /\ JournalOK(SetThreadState(j, m, state))
         /\ JournalOK(CommitControl(j, from, asked))
<1>1. JournalOK(AppendMessageDelivery(j, m, state))
  <2> DEFINE e == DeliveryChange(m, state)
  <2>1. e.kind = "delivery"
    BY DEF DeliveryChange
  <2> HIDE DEF e
  <2>2. JournalOK(Append(j, e))
    BY <2>1, NewChangeKeeps
  <2> QED BY <2>2 DEF AppendMessageDelivery, e
<1>2. JournalOK(SetThreadState(j, m, state))
  <2> DEFINE e == ThreadChange(m, state)
  <2>1. e.kind = "thread"
    BY DEF ThreadChange
  <2> HIDE DEF e
  <2>2. JournalOK(Append(j, e))
    BY <2>1, NewChangeKeeps
  <2> QED BY <2>2 DEF SetThreadState, e
<1>3. JournalOK(CommitControl(j, from, asked))
  <2> DEFINE e == ControlChange(from, asked)
  <2>1. e.kind = "control" /\ e.from = from /\ e.request = asked
    BY DEF ControlChange
  <2> HIDE DEF e
  <2>2. CASE \E c \in Controls(j) : j[c].from = from /\ j[c].request = asked
    BY <2>2 DEF CommitControl
  <2>3. CASE ~\E c \in Controls(j) : j[c].from = from /\ j[c].request = asked
    <3>1. \A c \in Controls(j) : j[c] # e
      BY <2>1, <2>3
    <3>2. JournalOK(Append(j, e))
      BY <2>1, <3>1, NewChangeKeeps
    <3> QED BY <2>3, <3>2 DEF CommitControl, e
  <2> QED BY <2>2, <2>3
<1> QED BY <1>1, <1>2, <1>3

\* The tick is a loop over batch, and only it waits for the delivery of reply.
ConversationInv ==
  /\ JournalOK(entries) /\ IsSequence(jobs) /\ IsSequence(batch)
  /\ reply # 0 => batch # <<>>
  /\ NeverStranded

\* Whatever does not touch the bridge leaves the journal to look at.
LEMMA BridgeUntouched ==
  ASSUME ConversationInv, JournalOK(entries'), UNCHANGED bridgeVars, UNCHANGED up
  PROVE  ConversationInv'
BY DEF ConversationInv, NeverStranded, bridgeVars

LEMMA FinishedIs ==
  ASSUME NEW js, IsSequence(js), NEW i, NEW state
  PROVE  IsSequence(Finished(js, i, state))
<1>1. [js EXCEPT ![i].state = state] = [js EXCEPT ![i] = [js[i] EXCEPT !.state = state]]
  OBVIOUS
<1>2. IsSequence([js EXCEPT ![i].state = state])
  BY <1>1, Replaced
<1> QED BY <1>2 DEF Finished

\* A tick with jobs left goes on, and one that ends sets the timer for them.
LEMMA ProceedKeeps ==
  ASSUME ConversationInv, batch # <<>>, NEW js, IsSequence(js), Proceed(js),
         JournalOK(entries'), reply' = 0, UNCHANGED up
  PROVE  ConversationInv'
<1>1. IsSequence(batch') /\ (Len(batch) # 1 => batch' # <<>>)
  BY RestOf DEF ConversationInv, Proceed
<1>2. jobs' = js /\ armed' = (armed \/ (Len(batch) = 1 /\ HasPendingJobs(js)))
  BY DEF Proceed
<1>3. NeverStranded'
  <2> SUFFICES ASSUME HasPendingJobs(js), batch' = <<>> PROVE armed'
    BY <1>2 DEF NeverStranded, HasPendingJobs
  <2> QED BY <1>1, <1>2
<1> QED BY <1>1, <1>2, <1>3 DEF ConversationInv

\* send and its retries.
LEMMA SendKeeps ==
  ASSUME ConversationInv,
         \/ \E k \in Keys : SendCommit(k)
         \/ \E s \in sends : HostTypes(s)
         \/ \E s \in sends, o \in {"accepted", "uncertain", "failed"} : SendRecord(s, o)
  PROVE  ConversationInv'
<1>1. ASSUME NEW k \in Keys, SendCommit(k)
      PROVE  ConversationInv'
  <2>1. JournalOK(entries')
    BY <1>1, CommitKeepsKeys DEF SendCommit, ConversationInv
  <2> QED BY <1>1, <2>1, BridgeUntouched DEF SendCommit, worldVars
<1>2. ASSUME NEW s \in sends, HostTypes(s)
      PROVE  ConversationInv'
  BY <1>2, BridgeUntouched DEF HostTypes, worldVars, ConversationInv
<1>3. ASSUME NEW s \in sends, NEW o \in {"accepted", "uncertain", "failed"}, SendRecord(s, o)
      PROVE  ConversationInv'
  <2>1. JournalOK(entries')
    BY <1>3, OtherChangesKeepKeys DEF SendRecord, ConversationInv
  <2>2. UNCHANGED up
    BY <1>3 DEF SendRecord, worldVars
  <2>3. CASE UNCHANGED bridgeVars
    BY <2>1, <2>2, <2>3, BridgeUntouched
  <2>4. CASE Enqueue(s)
    <3>1. IsSequence(jobs')
      BY <2>4, SequenceGrows DEF Enqueue, ConversationInv
    <3>2. armed' /\ UNCHANGED <<batch, reply>>
      BY <2>4 DEF Enqueue
    <3> QED BY <2>1, <3>1, <3>2 DEF ConversationInv, NeverStranded
  <2> QED BY <1>3, <2>3, <2>4 DEF SendRecord
<1> QED BY <1>1, <1>2, <1>3

\* The provider, the clients and the daemon besides the bridge.
LEMMA AroundKeeps ==
  ASSUME ConversationInv,
         \/ TakeInput
         \/ \E tok \in {"tool", "part", "text"} : Work(tok)
         \/ \E n \in Messages(entries) : Quote(n)
         \/ \E recs \in Closing(setup.adapter) : EndTurn(recs)
         \/ \E to \in {{"op"}, {"lead"}, {"op", "lead"}},
              re \in {0} \union Messages(entries) : OwnMessage(to, re)
         \/ \E m \in Messages(entries), st \in {"open", "resolved"} : SetThread(m, st)
         \/ \E from \in {"op", "lead"}, k \in Keys : Control(from, k)
         \/ LeadMoves
         \/ WorkerEnds
         \/ CloseChannel
  PROVE  ConversationInv'
<1>1. CASE \/ TakeInput
           \/ \E tok \in {"tool", "part", "text"} : Work(tok)
           \/ \E n \in Messages(entries) : Quote(n)
           \/ \E recs \in Closing(setup.adapter) : EndTurn(recs)
           \/ LeadMoves
           \/ WorkerEnds
           \/ CloseChannel
  <2>1. UNCHANGED entries /\ UNCHANGED bridgeVars /\ UNCHANGED up
    BY <1>1 DEF TakeInput, Work, Quote, EndTurn, LeadMoves, WorkerEnds, CloseChannel, worldVars
  <2>2. JournalOK(entries')
    BY <2>1 DEF ConversationInv
  <2> QED BY <2>1, <2>2, BridgeUntouched
<1>2. ASSUME NEW to \in {{"op"}, {"lead"}, {"op", "lead"}}, NEW re \in {0} \union Messages(entries),
             OwnMessage(to, re)
      PROVE  ConversationInv'
  <2>1. entries' = CommittedJournal(entries, "w", to, Cardinality(to) = 1, re, <<>>, 0)
    BY <1>2 DEF OwnMessage
  <2>2. JournalOK(entries')
    BY <2>1, CommitKeepsKeys DEF ConversationInv
  <2> QED BY <1>2, <2>2, BridgeUntouched DEF OwnMessage, worldVars
<1>3. ASSUME NEW m, NEW st, SetThread(m, st)
      PROVE  ConversationInv'
  <2>1. JournalOK(entries')
    BY <1>3, OtherChangesKeepKeys DEF SetThread, ConversationInv
  <2> QED BY <1>3, <2>1, BridgeUntouched DEF SetThread, worldVars
<1>4. ASSUME NEW from, NEW k, Control(from, k)
      PROVE  ConversationInv'
  <2>1. JournalOK(entries')
    BY <1>4, OtherChangesKeepKeys DEF Control, ConversationInv
  <2> QED BY <1>4, <2>1, BridgeUntouched DEF Control, worldVars
<1> QED BY <1>1, <1>2, <1>3, <1>4

\* pendingJobs finds a job if there is one.
LEMMA PendingJobsAre ==
  ASSUME IsSequence(jobs)
  PROVE  IsSequence(PendingJobs) /\ (HasPendingJobs(jobs) => PendingJobs # <<>>)
<1> DEFINE S == {i \in 1 .. Len(jobs) : jobs[i].state = "pending"}
           rows == Ascending(S)
           p == PendingJobs
<1>1. Len(jobs) \in Nat
  BY SequenceGrows
<1>2. Len(rows) \in Nat /\ \A x \in S : \E i \in 1 .. Len(rows) : rows[i] = x
  <2>1. S \in SUBSET (1 .. Len(jobs))
    OBVIOUS
  <2> QED BY <1>1, <2>1, AscendingIs, LenProperties
<1>3. p = [n \in 1 .. Len(rows) |-> [i |-> rows[n], ended |-> ~alive]]
  BY DEF PendingJobs
<1>4. HasPendingJobs(jobs) => S # {}
  BY DEF HasPendingJobs
<1> HIDE DEF S, rows, p
<1>5. p \in [1 .. Len(rows) -> {p[i] : i \in 1 .. Len(rows)}]
  <2>1. p = [n \in 1 .. Len(rows) |-> p[n]]
    BY <1>3
  <2> QED BY <2>1
<1>6. p \in Seq({p[i] : i \in 1 .. Len(rows)}) /\ Len(p) = Len(rows)
  BY <1>2, <1>5
<1>7. HasPendingJobs(jobs) => Len(rows) # 0
  BY <1>2, <1>4
<1>8. IsSequence(p)
  BY <1>6 DEF IsSequence
<1>9. p = <<>> => Len(p) = 0
  BY EmptySeq
<1> QED BY <1>6, <1>7, <1>8, <1>9 DEF p

LEMMA TickKeeps ==
  ASSUME ConversationInv, Tick
  PROVE  ConversationInv'
<1>1. IsSequence(PendingJobs) /\ (HasPendingJobs(jobs) => PendingJobs # <<>>)
  BY PendingJobsAre DEF ConversationInv
<1>2. /\ UNCHANGED <<entries, jobs, reply, up>>
      /\ batch' = IF batch = <<>> THEN PendingJobs ELSE batch
  BY DEF Tick, worldVars
<1>3. IsSequence(batch') /\ (HasPendingJobs(jobs) => batch' # <<>>) /\ (batch # <<>> => batch' # <<>>)
  BY <1>1, <1>2 DEF ConversationInv
<1>4. NeverStranded'
  BY <1>2, <1>3 DEF NeverStranded, HasPendingJobs
<1> QED BY <1>2, <1>3, <1>4 DEF ConversationInv

\* The answer is committed and its delivery waited for, or the job is over.
LEMMA PublishAnswerKeeps ==
  ASSUME ConversationInv, batch # <<>>, reply = 0, UNCHANGED up, NEW i, NEW scan,
         PublishAnswer(i, scan)
  PROVE  ConversationInv'
<1> DEFINE job == jobs[i]
           to == Upstream(job.sender)
           js == [jobs EXCEPT ![i].scan = scan]
           refused == ~CanReply(entries, job.m) \/ (to = "lead" /\ ~leadIn)
<1>1. IsSequence(js)
  <2>1. js = [jobs EXCEPT ![i] = [jobs[i] EXCEPT !.scan = scan]]
    OBVIOUS
  <2> QED BY <2>1, Replaced DEF ConversationInv
<1>2. CASE refused
  <2>1. Proceed(Finished(js, i, "failed")) /\ UNCHANGED <<entries, reply>>
    BY <1>2 DEF PublishAnswer
  <2> HIDE DEF js
  <2>2. IsSequence(Finished(js, i, "failed"))
    BY <1>1, FinishedIs
  <2> QED BY <2>1, <2>2, ProceedKeeps DEF ConversationInv
<1>3. CASE ~refused
  <2>1. /\ entries' = CommittedJournal(entries, "w", {to}, TRUE, job.m, <<"final", job.m>>, scan.cand)
        /\ jobs' = js /\ UNCHANGED <<batch, armed, thrown>>
    BY <1>3 DEF PublishAnswer
  <2>2. JournalOK(entries')
    BY <2>1, CommitKeepsKeys DEF ConversationInv
  <2> QED BY <1>1, <2>1, <2>2 DEF ConversationInv, NeverStranded
<1> QED BY <1>2, <1>3

LEMMA ScanKeeps ==
  ASSUME ConversationInv, batch # <<>>, reply = 0, UNCHANGED up, NEW i, NEW upto, NEW late,
         ScanJob(i, upto, late)
  PROVE  ConversationInv'
<1> DEFINE scan == Scan(setup.adapter, Containing(jobs[i].m), log, upto, jobs[i].scan)
           js == [jobs EXCEPT ![i].scan = scan]
<1>1. IsSequence(js)
  <2>1. js = [jobs EXCEPT ![i] = [jobs[i] EXCEPT !.scan = scan]]
    OBVIOUS
  <2> QED BY <2>1, Replaced DEF ConversationInv
<1>2. \/ Proceed(Finished(js, i, "failed")) /\ UNCHANGED <<entries, reply>>
      \/ Proceed(js) /\ UNCHANGED <<entries, reply>>
      \/ PublishAnswer(i, scan)
  BY DEF ScanJob
<1> HIDE DEF js, scan
<1>3. IsSequence(Finished(js, i, "failed"))
  BY <1>1, FinishedIs
<1>4. CASE Proceed(Finished(js, i, "failed")) /\ UNCHANGED <<entries, reply>>
  BY <1>3, <1>4, ProceedKeeps DEF ConversationInv
<1>5. CASE Proceed(js) /\ UNCHANGED <<entries, reply>>
  BY <1>1, <1>5, ProceedKeeps DEF ConversationInv
<1>6. CASE PublishAnswer(i, scan)
  BY <1>6, PublishAnswerKeeps
<1> QED BY <1>2, <1>4, <1>5, <1>6

LEMMA ProcessKeeps ==
  ASSUME ConversationInv, NEW late, Process(late)
  PROVE  ConversationInv'
<1> DEFINE i == Head(batch).i
           job == jobs[i]
<1>1. batch # <<>> /\ reply = 0 /\ UNCHANGED up
  BY DEF Process, worldVars
<1>2. \/ \E state \in {"failed", "skipped"} : Settle(i, state)
      \/ Throw
      \/ \E upto \in ReadEnds(job.scan.off) : ScanJob(i, upto, late)
  BY Zenon DEF Process
<1> HIDE DEF i, job
<1>3. ASSUME NEW state \in {"failed", "skipped"}, Settle(i, state)
      PROVE  ConversationInv'
  <2>1. Proceed(Finished(jobs, i, state)) /\ UNCHANGED <<entries, reply>>
    BY <1>3 DEF Settle
  <2>2. IsSequence(Finished(jobs, i, state))
    BY FinishedIs DEF ConversationInv
  <2> QED BY <1>1, <2>1, <2>2, ProceedKeeps DEF ConversationInv
<1>4. CASE Throw
  <2>1. batch' = <<>> /\ thrown' /\ UNCHANGED <<jobs, entries, reply>>
    BY <1>4 DEF Throw
  <2>2. IsSequence(batch')
    BY <2>1, EmptySeq DEF IsSequence
  <2> QED BY <1>1, <2>1, <2>2 DEF ConversationInv, NeverStranded
<1>5. ASSUME NEW upto, ScanJob(i, upto, late)
      PROVE  ConversationInv'
  BY <1>1, <1>5, ScanKeeps
<1> QED BY <1>2, <1>3, <1>4, <1>5

LEMMA PublishEndKeeps ==
  ASSUME ConversationInv, NEW ok, PublishEnd(ok)
  PROVE  ConversationInv'
<1> DEFINE js == Finished(jobs, Head(batch).i, IF ok THEN "published" ELSE "failed")
<1>1. batch # <<>> /\ reply' = 0 /\ Proceed(js) /\ UNCHANGED up
  BY DEF PublishEnd, ConversationInv, worldVars
<1>2. IsSequence(js)
  BY FinishedIs DEF ConversationInv
<1>3. JournalOK(entries')
  BY OtherChangesKeepKeys DEF PublishEnd, ConversationInv
<1> HIDE DEF js
<1> QED BY <1>1, <1>2, <1>3, ProceedKeeps

LEMMA ConversationStarts == ConversationInit => ConversationInv
<1> SUFFICES ASSUME ConversationInit PROVE ConversationInv
  OBVIOUS
<1>1. entries = <<>> /\ jobs = <<>> /\ batch = <<>> /\ reply = 0
  BY DEF ConversationInit
<1>2. IsSequence(<<>>) /\ Len(<<>>) = 0
  BY EmptySeq DEF IsSequence
<1>3. Messages(entries) = {} /\ Controls(entries) = {} /\ ~HasPendingJobs(jobs)
  BY <1>1, <1>2 DEF Messages, Controls, CursorsOf, HasPendingJobs
<1> QED BY <1>1, <1>2, <1>3 DEF ConversationInv, JournalOK, UniqueKeys, NeverStranded

LEMMA ConversationSteps ==
  ConversationInv /\ [ConversationNext]_conversationVars => ConversationInv'
<1> SUFFICES ASSUME ConversationInv, [ConversationNext]_conversationVars PROVE ConversationInv'
  OBVIOUS
<1>1. CASE Around
  <2>1. CASE Tick
    BY <2>1, TickKeeps
  <2> QED BY <1>1, <2>1, SendKeeps, AroundKeeps DEF Around
<1>2. ASSUME NEW late \in BOOLEAN, Process(late) PROVE ConversationInv'
  BY <1>2, ProcessKeeps
<1>3. ASSUME NEW ok \in BOOLEAN, PublishEnd(ok) PROVE ConversationInv'
  BY <1>3, PublishEndKeeps
<1>4. CASE DaemonDies
  <2>1. ~up' /\ batch' = <<>> /\ reply' = 0 /\ UNCHANGED <<entries, jobs>>
    BY <1>4 DEF DaemonDies
  <2>2. IsSequence(batch')
    BY <2>1, EmptySeq DEF IsSequence
  <2> QED BY <2>1, <2>2 DEF ConversationInv, NeverStranded
<1>5. CASE Restart
  BY <1>5 DEF Restart, ConversationInv, NeverStranded
<1>6. CASE UNCHANGED conversationVars
  BY <1>6 DEF conversationVars, ConversationInv, NeverStranded
<1> QED BY <1>1, <1>2, <1>3, <1>4, <1>5, <1>6 DEF ConversationNext

LEMMA ConversationHolds == ConversationSpec => []ConversationInv
BY ConversationStarts, ConversationSteps, PTL DEF ConversationSpec

\* commitMessage and commitControl: a request that is repeated and an answer
\* that is published again find what they committed, whatever was lost, timed
\* out or died in between.
THEOREM KeysNeverRepeat == ConversationSpec => []KeysAreUnique
<1>1. ConversationInv => KeysAreUnique
  BY DEF ConversationInv, JournalOK, UniqueKeys, KeysAreUnique
<1> QED BY <1>1, ConversationHolds, PTL

\* tick and enqueue of the bridge: no pending job is left without a timer and
\* without a tick that runs, but by a tick that ended with an exception.
THEOREM JobsNotStranded == ConversationSpec => []NeverStranded
<1>1. ConversationInv => NeverStranded
  BY DEF ConversationInv
<1> QED BY <1>1, ConversationHolds, PTL

-----------------------------------------------------------------------------
(* Pages of the journal.                                                   *)

\* The n newest of a set of positions, by their rank.
LEMMA NewestAre ==
  ASSUME NEW b \in Nat, NEW S \in SUBSET (1 .. b), NEW n \in Nat
  PROVE  /\ Newest(S, n) \subseteq S /\ IsFiniteSet(S) /\ IsFiniteSet(Newest(S, n))
         /\ \A m \in Newest(S, n), k \in S : k > m => k \in Newest(S, n)
         /\ Cardinality(Newest(S, n)) <= n
         /\ Newest(S, n) # S => Cardinality(Newest(S, n)) = n
<1> DEFINE N == Newest(S, n)
           above(m) == {k \in S : k > m}
<1>1. IsFiniteSet(1 .. b)
  BY FS_Interval
<1>2. IsFiniteSet(S)
  BY <1>1, FS_Subset
<1>3. N \subseteq S /\ \A m \in S : m \in N <=> Cardinality(above(m)) < n
  BY DEF Newest
<1> HIDE DEF N
<1>4. IsFiniteSet(N) /\ Cardinality(N) \in Nat
  BY <1>2, <1>3, FS_Subset, FS_CardinalityType
<1>5. \A m \in S : IsFiniteSet(above(m)) /\ Cardinality(above(m)) \in Nat
  <2> SUFFICES ASSUME NEW m \in S PROVE IsFiniteSet(above(m)) /\ Cardinality(above(m)) \in Nat
    OBVIOUS
  <2>1. above(m) \in SUBSET S
    OBVIOUS
  <2> QED BY <1>2, <2>1, FS_Subset, FS_CardinalityType
<1>6. ASSUME NEW m \in N, NEW k \in S, k > m
      PROVE  k \in N
  <2>1. m \in S /\ m \in Int /\ k \in Int
    BY <1>3
  <2>2. above(k) \in SUBSET above(m)
    <3>1. \A x \in above(k) : x \in S /\ x \in Int /\ x > k
      OBVIOUS
    <3>2. \A x \in above(k) : x > m
      BY <1>6, <2>1, <3>1
    <3> QED BY <3>1, <3>2
  <2>3. Cardinality(above(k)) <= Cardinality(above(m))
    BY <1>5, <2>1, <2>2, FS_Subset
  <2> QED BY <1>3, <1>5, <2>1, <2>3
<1>7. Cardinality(N) <= n
  <2>1. CASE N = {}
    BY <2>1, FS_EmptySet
  <2>2. CASE N # {}
    <3>1. N \in SUBSET (1 .. b)
      BY <1>3
    <3> DEFINE m == Min(N)
    <3>2. m \in N /\ \A x \in N : m <= x
      BY <2>2, <3>1, EndsOf
    <3> HIDE DEF m
    <3>3. N = above(m) \cup {m} /\ m \notin above(m)
      <4>1. \A x \in N : x \in S /\ x \in Int
        BY <1>3
      <4>2. above(m) \subseteq N
        BY <1>6, <3>2
      <4>3. \A x \in N : x = m \/ x > m
        BY <3>2, <4>1
      <4> QED BY <3>2, <4>1, <4>2, <4>3
    <3>4. m \in S /\ Cardinality(above(m)) < n
      BY <1>3, <3>2
    <3>5. Cardinality(N) = Cardinality(above(m)) + 1
      BY <1>5, <3>3, <3>4, FS_AddElement
    <3> QED BY <1>5, <3>4, <3>5
  <2> QED BY <2>1, <2>2
<1>8. ASSUME N # S
      PROVE  Cardinality(N) = n
  <2> DEFINE left == S \ N
             x == Max(left)
  <2>1. left # {} /\ left \in SUBSET (1 .. b)
    BY <1>3, <1>8
  <2>2. x \in left /\ \A y \in left : y <= x
    BY <2>1, EndsOf
  <2> HIDE DEF x
  <2>3. above(x) \in SUBSET N
    <3>1. \A y \in above(x) : y \in S /\ y \in Int /\ y > x
      OBVIOUS
    <3>2. x \in Int
      BY <2>1, <2>2
    <3>3. \A y \in above(x) : y \notin left
      BY <2>2, <3>1, <3>2
    <3> QED BY <3>1, <3>3
  <2>4. Cardinality(above(x)) >= n
    BY <1>3, <1>5, <2>2
  <2>5. Cardinality(above(x)) <= Cardinality(N)
    BY <1>4, <2>3, FS_Subset
  <2> QED BY <1>4, <1>5, <1>7, <2>2, <2>4, <2>5
<1> QED BY <1>2, <1>3, <1>4, <1>6, <1>7, <1>8 DEF N

\* A page from a query for one row more than the limit is exact.
LEMMA PageOfIsExact ==
  ASSUME NEW b \in Nat, NEW S \in SUBSET (1 .. b), NEW cursor, \A m \in S : m <= cursor
  PROVE  PageIsExact(S, PageOf(S, PageLimit, cursor))
<1> DEFINE n == PageLimit
           rows == Newest(S, n + 1)
           page == Newest(rows, n)
           p == PageOf(S, n, cursor)
<1>1. n \in Nat \ {0}
  BY ConversationAssumption
<1>2. p.events = page /\ p.more = (Cardinality(rows) > n) /\ p.cursor = cursor
  BY DEF PageOf
<1>3. /\ rows \subseteq S /\ IsFiniteSet(rows) /\ IsFiniteSet(S)
      /\ \A m \in rows, k \in S : k > m => k \in rows
      /\ Cardinality(rows) <= n + 1 /\ (rows # S => Cardinality(rows) = n + 1)
  <2>1. n + 1 \in Nat
    BY <1>1
  <2> HIDE DEF n
  <2> QED BY <2>1, NewestAre
<1> HIDE DEF rows
<1>4. rows \in SUBSET (1 .. b)
  BY <1>3
<1>5. /\ page \subseteq rows /\ IsFiniteSet(page)
      /\ \A m \in page, k \in rows : k > m => k \in page
      /\ Cardinality(page) <= n /\ (page # rows => Cardinality(page) = n)
  BY <1>1, <1>4, NewestAre
<1> HIDE DEF page, p, n
<1>6. Cardinality(page) \in Nat /\ Cardinality(rows) \in Nat
  BY <1>3, <1>5, FS_CardinalityType
<1>7. Cardinality(page) <= Cardinality(rows) /\ (Cardinality(rows) = Cardinality(page) => rows = page)
  BY <1>3, <1>5, FS_Subset
<1>8. Cardinality(rows) > n => page # rows /\ Cardinality(page) = n
  BY <1>1, <1>5, <1>6
<1>9. Cardinality(rows) <= n => page = rows /\ rows = S
  BY <1>1, <1>3, <1>5, <1>6, <1>7
<1>10. p.more = (page # S)
  <2>1. CASE Cardinality(rows) > n
    BY <1>2, <1>3, <1>5, <1>8, <2>1
  <2>2. CASE Cardinality(rows) <= n
    <3>1. ~(Cardinality(rows) > n)
      BY <1>1, <1>6, <2>2
    <3> QED BY <1>2, <1>9, <2>2, <3>1
  <2> QED BY <1>1, <1>6, <2>1, <2>2
<1>11. p.more => Cardinality(page) = n
  BY <1>2, <1>8
<1>12. ASSUME NEW m \in S \ page, NEW k \in page PROVE m < k
  <2>1. m \in Int /\ k \in Int /\ m # k /\ k \in rows
    BY <1>3, <1>4, <1>5
  <2> QED BY <1>3, <1>5, <2>1
<1> QED BY <1>2, <1>3, <1>5, <1>10, <1>11, <1>12 DEF PageIsExact, n, p

\* The place of a number in ascending order is its rank.
LEMMA RankIs ==
  ASSUME NEW b \in Nat, NEW S \in SUBSET (1 .. b), NEW i \in 1 .. Len(Ascending(S))
  PROVE  Cardinality({k \in S : k <= Ascending(S)[i]}) = i
<1> DEFINE a == Ascending(S)
           below == {k \in S : k <= a[i]}
           f == [j \in 1 .. i |-> a[j]]
<1>1. a \in Seq(S) /\ Rising(a) /\ \A x \in S : \E j \in 1 .. Len(a) : a[j] = x
  BY AscendingIs
<1> HIDE DEF a
<1>2. Len(a) \in Nat /\ \A j \in 1 .. Len(a) : a[j] \in S /\ a[j] \in Int
  <2>1. Len(a) \in Nat
    BY <1>1, LenProperties
  <2>2. \A j \in 1 .. Len(a) : a[j] \in S
    BY <1>1, ElementOfSeq
  <2>3. \A x \in S : x \in Int
    OBVIOUS
  <2> QED BY <2>1, <2>2, <2>3
<1>3. i \in 1 .. Len(a)
  BY DEF a
<1>4. \A j, k \in 1 .. Len(a) : j < k => a[j] < a[k]
  BY <1>1 DEF Rising
<1>5. \A j \in 1 .. i : j \in 1 .. Len(a) /\ a[j] \in below
  <2> SUFFICES ASSUME NEW j \in 1 .. i PROVE j \in 1 .. Len(a) /\ a[j] \in below
    OBVIOUS
  <2>1. j \in 1 .. Len(a) /\ (j = i \/ j < i)
    BY <1>2, <1>3
  <2>2. a[j] <= a[i]
    BY <1>2, <1>3, <1>4, <2>1
  <2> QED BY <1>2, <2>1, <2>2
<1>6. \A x \in below : \E j \in 1 .. i : a[j] = x
  <2> SUFFICES ASSUME NEW x \in below PROVE \E j \in 1 .. i : a[j] = x
    OBVIOUS
  <2>1. PICK j \in 1 .. Len(a) : a[j] = x
    BY <1>1
  <2>2. ~(i < j)
    BY <1>2, <1>3, <1>4, <2>1
  <2>3. j \in 1 .. i
    BY <1>2, <1>3, <2>2
  <2> QED BY <2>1, <2>3
<1>7. \A j, k \in 1 .. i : a[j] = a[k] => j = k
  <2> SUFFICES ASSUME NEW j \in 1 .. i, NEW k \in 1 .. i, a[j] = a[k] PROVE j = k
    OBVIOUS
  <2>1. j \in 1 .. Len(a) /\ k \in 1 .. Len(a) /\ a[j] \in Int /\ j \in Int /\ k \in Int
    BY <1>2, <1>3
  <2>2. ~(j < k) /\ ~(k < j)
    BY <1>2, <1>4, <2>1
  <2> QED BY <2>1, <2>2
<1> HIDE DEF below
<1>8. f \in Bijection(1 .. i, below)
  BY <1>5, <1>6, <1>7 DEF Bijection, Injection, Surjection, IsInjective
<1>9. IsFiniteSet(1 .. i) /\ Cardinality(1 .. i) = i
  BY <1>2, <1>3, FS_Interval
<1> HIDE DEF f
<1>10. Cardinality(below) = i
  BY <1>8, <1>9, FS_Bijection DEF ExistsBijection
<1> QED BY <1>10 DEF below, a

\* The oldest n of a set by their rank, and by cutting the replay.
LEMMA OldestAre ==
  ASSUME NEW b \in Nat, NEW S \in SUBSET (1 .. b), NEW n \in Nat \ {0}
  PROVE  LET page == {x \in S : Cardinality({k \in S : k <= x}) <= n}
             found == Ascending(S)
             selected == SubSeq(found, 1, Min({n, Len(found)}))
         IN  /\ ToSet(selected) = page
             /\ selected = <<>> <=> page = {}
             /\ page # {} => Last(selected) = Max(page) /\ S \ page = {k \in S : k > Max(page)}
             /\ page = {} => S = {}
             /\ Len(found) > Len(selected) <=> S # page
             /\ Cardinality(S) > n <=> S # page
<1> DEFINE page == {x \in S : Cardinality({k \in S : k <= x}) <= n}
           a == Ascending(S)
           q == Min({n, Len(a)})
           sel == SubSeq(a, 1, q)
<1>1. /\ a \in Seq(S) /\ Rising(a) /\ Len(a) = Cardinality(S)
      /\ \A x \in S : \E j \in 1 .. Len(a) : a[j] = x
  BY AscendingIs
<1>2. \A i \in 1 .. Len(a) : Cardinality({k \in S : k <= a[i]}) = i
  BY RankIs
<1> HIDE DEF a
<1>3. Len(a) \in Nat /\ \A i \in 1 .. Len(a) : a[i] \in S /\ a[i] \in Int
  <2>1. Len(a) \in Nat
    BY <1>1, LenProperties
  <2>2. \A i \in 1 .. Len(a) : a[i] \in S
    BY <1>1, ElementOfSeq
  <2>3. \A x \in S : x \in Int
    OBVIOUS
  <2> QED BY <2>1, <2>2, <2>3
<1>4. \A i \in 1 .. Len(a) : a[i] \in page <=> i <= n
  BY <1>2, <1>3
<1>5. \A i, j \in 1 .. Len(a) : i < j => a[i] < a[j]
  BY <1>1 DEF Rising
<1>6. q \in {n, Len(a)} /\ q <= n /\ q <= Len(a)
  <2>1. \E x \in {n, Len(a)} : \A y \in {n, Len(a)} : x <= y
    BY <1>3
  <2>2. q \in {n, Len(a)} /\ \A y \in {n, Len(a)} : q <= y
    BY <2>1 DEF Min
  <2> QED BY <2>2
<1> HIDE DEF q, page
<1>7. q \in Nat /\ (q = 0 <=> Len(a) = 0) /\ \A i \in 1 .. Len(a) : i <= n <=> i <= q
  BY <1>3, <1>6
<1>8. sel \in Seq(S) /\ Len(sel) = q /\ \A i \in 1 .. q : sel[i] = a[i]
  <2>1. \A i \in 1 .. q : a[i] \in S
    BY <1>3, <1>6, <1>7
  <2> QED BY <1>7, <2>1, SubSeqProperties
<1> HIDE DEF sel
<1>9. \A i \in 1 .. q : i \in 1 .. Len(a) /\ a[i] \in page
  BY <1>3, <1>4, <1>6, <1>7
<1>10. \A x \in page : x \in S /\ \E i \in 1 .. q : a[i] = x
  <2> SUFFICES ASSUME NEW x \in page PROVE x \in S /\ \E i \in 1 .. q : a[i] = x
    OBVIOUS
  <2>1. x \in S
    BY DEF page
  <2>2. PICK i \in 1 .. Len(a) : a[i] = x
    BY <1>1, <2>1
  <2>3. i <= q
    BY <1>4, <1>7, <2>2
  <2> QED BY <1>3, <1>7, <2>1, <2>2, <2>3
<1>11. ToSet(sel) = page
  <2>1. DOMAIN sel = 1 .. q
    BY <1>8, LenProperties
  <2> QED BY <1>8, <1>9, <1>10, <2>1 DEF ToSet
<1>12. page = {} <=> q = 0
  <2>1. q # 0 => 1 \in 1 .. q
    BY <1>7
  <2>2. q = 0 => 1 .. q = {}
    BY <1>7
  <2> QED BY <1>9, <1>10, <2>1, <2>2
<1>13. sel = <<>> <=> q = 0
  BY <1>8, EmptySeq
<1>14. page = {} => S = {}
  <2>1. Len(a) = 0 => 1 .. Len(a) = {}
    OBVIOUS
  <2> QED BY <1>1, <1>7, <1>12, <2>1
<1>15. S # page <=> Len(a) > n
  <2>1. CASE Len(a) > n
    <3>1. Len(a) \in 1 .. Len(a) /\ ~(Len(a) <= n)
      BY <1>3, <2>1
    <3> QED BY <1>3, <1>4, <2>1, <3>1
  <2>2. CASE ~(Len(a) > n)
    <3>1. \A i \in 1 .. Len(a) : i <= n
      BY <1>3, <2>2
    <3>2. \A x \in S : x \in page
      BY <1>1, <1>4, <3>1
    <3> QED BY <1>10, <2>2, <3>2
  <2> QED BY <2>1, <2>2
<1>16. Len(a) > Len(sel) <=> Len(a) > n
  BY <1>3, <1>6, <1>8
<1>17. ASSUME page # {}
       PROVE  Last(sel) = Max(page) /\ S \ page = {k \in S : k > Max(page)}
  <2>1. q \in 1 .. q /\ q \in 1 .. Len(a)
    BY <1>6, <1>7, <1>12, <1>17
  <2>2. Max(page) \in page /\ \A x \in page : x <= Max(page)
    <3>1. page \in SUBSET (1 .. b)
      BY <1>10
    <3> QED BY <1>17, <3>1, EndsOf
  <2>3. PICK i \in 1 .. q : a[i] = Max(page)
    BY <1>10, <2>2
  <2>4. a[q] = Max(page)
    <3>1. a[q] <= a[i] /\ i \in 1 .. Len(a)
      BY <1>9, <2>1, <2>2, <2>3
    <3>2. i = q \/ a[i] < a[q]
      BY <1>5, <1>7, <2>1, <2>3, <3>1
    <3> QED BY <1>3, <2>1, <2>3, <3>1, <3>2
  <2>5. Last(sel) = a[q]
    BY <1>8, <2>1 DEF Last
  <2>6. \A k \in S : k \notin page <=> k > a[q]
    <3> SUFFICES ASSUME NEW k \in S PROVE k \notin page <=> k > a[q]
      OBVIOUS
    <3>1. PICK j \in 1 .. Len(a) : a[j] = k
      BY <1>1
    <3>2. k \notin page <=> q < j
      BY <1>3, <1>4, <1>7, <3>1
    <3>3. q < j => a[q] < a[j]
      BY <1>5, <2>1
    <3>4. ~(q < j) => j = q \/ a[j] < a[q]
      BY <1>3, <1>5, <2>1
    <3> QED BY <1>3, <2>1, <3>1, <3>2, <3>3, <3>4
  <2> QED BY <2>4, <2>5, <2>6
<1> QED BY <1>1, <1>11, <1>12, <1>13, <1>14, <1>15, <1>16, <1>17 DEF page, a, q, sel

\* channelControlPages and getControls agree on a page of controls, and the
\* next page goes on where it ends.
LEMMA ControlsHold ==
  ASSUME IsSequence(entries), NEW c \in Nat
  PROVE  ControlsAreExact(c)
<1> DEFINE S == {k \in Controls(entries) : k > c}
           page == {x \in S : Cardinality({k \in S : k <= x}) <= PageLimit}
           found == Ascending(S)
           selected == SubSeq(found, 1, Min({PageLimit, Len(found)}))
           P == ChannelControlPage(entries, c, PageLimit)
           G == GetControls(entries, c, PageLimit)
<1>1. Len(entries) \in Nat /\ S \in SUBSET (1 .. Len(entries)) /\ \A k \in S : k > c
  BY SequenceGrows DEF Controls, CursorsOf
<1>2. PageLimit \in Nat \ {0}
  BY ConversationAssumption
<1>3. P = [events |-> page, more |-> page # {} /\ Cardinality(S) > PageLimit,
           cursor |-> IF page = {} THEN c ELSE Max(page)]
  BY DEF ChannelControlPage
<1>4. G = [events |-> ToSet(selected), more |-> Len(found) > Len(selected),
           cursor |-> IF selected = <<>> THEN c ELSE Last(selected)]
  BY DEF GetControls
<1> HIDE DEF S, P, G
<1>5. /\ ToSet(selected) = page
      /\ selected = <<>> <=> page = {}
      /\ page # {} => Last(selected) = Max(page) /\ S \ page = {k \in S : k > Max(page)}
      /\ page = {} => S = {}
      /\ Len(found) > Len(selected) <=> S # page
      /\ Cardinality(S) > PageLimit <=> S # page
  <2>1. PICK b \in Nat : S \in SUBSET (1 .. b)
    BY <1>1
  <2> QED BY <1>2, <2>1, OldestAre
<1> HIDE DEF page, found, selected
<1>6. (page # {} /\ Cardinality(S) > PageLimit) = (S # page)
  BY <1>5
<1>7. (Len(found) > Len(selected)) = (S # page)
  BY <1>5
<1>8. (IF selected = <<>> THEN c ELSE Last(selected)) = (IF page = {} THEN c ELSE Max(page))
  BY <1>5
<1>9. P = G
  BY <1>3, <1>4, <1>5, <1>6, <1>7, <1>8
<1>10. S \ P.events = {k \in S : k > P.cursor}
  BY <1>3, <1>5
<1>11. P.more = (S # P.events)
  BY <1>3, <1>6
<1> QED BY <1>9, <1>10, <1>11 DEF ControlsAreExact, S, P, G

\* A message with one delivery record shows it, whichever end is looked for.
LEMMA FatesHold ==
  ASSUME IsSequence(entries)
  PROVE  FatesAgree
<1> DEFINE listed == ListMessages(entries, "w", 0)
<1> SUFFICES ASSUME NEW m \in DOMAIN listed, Cardinality(Deliveries(entries, m)) <= 1
             PROVE  listed[m] = FoldMessageEvents(entries)[m]
  BY DEF FatesAgree
<1> DEFINE D == Deliveries(entries, m)
<1>1. /\ m \in Messages(entries)
      /\ listed[m] = IF D = {} THEN "none" ELSE entries[Min(D)].status
  BY DEF ListMessages
<1>2. FoldMessageEvents(entries)[m] = IF D = {} THEN "none" ELSE entries[Max(D)].status
  BY <1>1 DEF FoldMessageEvents
<1>3. Len(entries) \in Nat /\ D \in SUBSET (1 .. Len(entries))
  BY SequenceGrows DEF Deliveries, CursorsOf
<1>4. Cardinality(D) <= 1
  OBVIOUS
<1> HIDE DEF D, listed
<1>5. CASE D = {}
  BY <1>1, <1>2, <1>5
<1>6. CASE D # {}
  <2>1. IsFiniteSet(D) /\ Cardinality(D) \in Nat
    <3>1. IsFiniteSet(1 .. Len(entries))
      BY <1>3, FS_Interval
    <3> QED BY <1>3, <3>1, FS_Subset, FS_CardinalityType
  <2>2. Cardinality(D) = 1
    BY <1>4, <1>6, <2>1, FS_EmptySet
  <2>3. \E x : D = {x}
    BY <2>1, <2>2, FS_Singleton
  <2>4. Min(D) \in D /\ Max(D) \in D
    BY <1>3, <1>6, EndsOf
  <2> QED BY <1>1, <1>2, <1>6, <2>3, <2>4
<1> QED BY <1>5, <1>6

LEMMA PagesHold ==
  ASSUME IsSequence(entries)
  PROVE  PagesAreExact
<1>1. Len(entries) \in Nat /\ Messages(entries) \in SUBSET (1 .. Len(entries))
  BY SequenceGrows DEF Messages, CursorsOf
<1>2. ASSUME NEW c \in Messages(entries) \union {0}
      PROVE  ControlsAreExact(c)
  <2>1. c \in Nat
    BY <1>1
  <2> QED BY <2>1, ControlsHold
<1>3. ASSUME NEW c \in Messages(entries) \union {0}
      PROVE  LET S == {m \in Messages(entries) : m > c}
             IN /\ PageIsExact(S, ChannelMessages(entries, c, PageLimit))
                /\ PageIsExact({m \in S : TakesPart(entries, m, "op")},
                               SessionMessages(entries, "op", c, PageLimit))
                /\ c # 0 => PageIsExact({m \in S : entries[m].re = c},
                                        MessageReplies(entries, c, c, PageLimit))
  <2> DEFINE S == {m \in Messages(entries) : m > c}
             mine == {m \in S : TakesPart(entries, m, "op")}
             replies == {m \in S : entries[m].re = c}
             latest == LatestAfter(entries, c)
  <2>1. S \in SUBSET (1 .. Len(entries)) /\ mine \in SUBSET S /\ replies \in SUBSET S
    BY <1>1
  <2>2. c \in Nat
    BY <1>1
  <2>3. \A m \in S : m <= Len(entries) /\ m <= latest
    <3> SUFFICES ASSUME NEW m \in S PROVE m <= Len(entries) /\ m <= latest
      OBVIOUS
    <3>1. m \in 1 .. Len(entries)
      BY <2>1
    <3>2. latest = IF Len(entries) > c THEN Len(entries) ELSE c
      BY DEF LatestAfter
    <3> QED BY <1>1, <2>2, <3>1, <3>2
  <2>4. ChannelMessages(entries, c, PageLimit) = PageOf(S, PageLimit, latest)
    BY DEF ChannelMessages
  <2>5. SessionMessages(entries, "op", c, PageLimit) = PageOf(mine, PageLimit, latest)
    <3>1. mine = {m \in Messages(entries) : m > c /\ TakesPart(entries, m, "op")}
      OBVIOUS
    <3> QED BY <3>1 DEF SessionMessages
  <2>6. MessageReplies(entries, c, c, PageLimit) = PageOf(replies, PageLimit, Len(entries))
    <3>1. replies = {m \in Messages(entries) : m > c /\ entries[m].re = c}
      OBVIOUS
    <3> QED BY <3>1 DEF MessageReplies
  <2> HIDE DEF S, mine, replies, latest
  <2>7. PageIsExact(S, PageOf(S, PageLimit, latest))
    BY <1>1, <2>1, <2>3, PageOfIsExact
  <2>8. PageIsExact(mine, PageOf(mine, PageLimit, latest))
    <3>1. mine \in SUBSET (1 .. Len(entries)) /\ \A m \in mine : m <= latest
      BY <2>1, <2>3
    <3> QED BY <1>1, <3>1, PageOfIsExact
  <2>9. PageIsExact(replies, PageOf(replies, PageLimit, Len(entries)))
    <3>1. replies \in SUBSET (1 .. Len(entries)) /\ \A m \in replies : m <= Len(entries)
      BY <2>1, <2>3
    <3> QED BY <1>1, <3>1, PageOfIsExact
  <2> QED BY <2>4, <2>5, <2>6, <2>7, <2>8, <2>9 DEF S, mine, replies
<1> QED BY <1>2, <1>3, FatesHold DEF PagesAreExact

\* sessionMessages, channelMessages, messageReplies and the readers of
\* controls: a reader that polls with the cursors it is given misses nothing,
\* is told when something was left out, and sees what the others see.
THEOREM PagesMissNothing == ConversationSpec => []PagesAreExact
<1>1. ConversationInv => PagesAreExact
  BY PagesHold DEF ConversationInv, JournalOK
<1> QED BY <1>1, ConversationHolds, PTL

-----------------------------------------------------------------------------
(* The log of the provider and the scans over it.                          *)

LogRecord == [tok : Tokens, m : Nat]

Logs == [AllFiles -> Seq(LogRecord)]

\* The file that shows the prompts.
PromptFile(a) == FileOf(a, "user")

ScanState == [off : [AllFiles -> Nat], seen : BOOLEAN, cand : Nat,
              done : BOOLEAN, failed : BOOLEAN]

\* The turn of x was not over when L, the file of the prompts, showed a text of
\* H behind place b.
Follows(L, b, H, x) ==
  \E p \in (b + 1) .. Len(L), q \in 1 .. Len(L) :
    /\ IsInput(L[p], H) /\ IsPrompt(L[q], x)
    /\ \A k \in 1 .. p : L[k].tok = "user" => k <= q

\* The last prompt up to place i is that of m.
InTurnOf(L, i, m) ==
  \E q \in 1 .. i : IsPrompt(L[q], m) /\ \A k \in 1 .. i : k > q => L[k].tok # "user"

\* A record with an answer was written in the turn of its message.
TurnsIn(lg, a) ==
  /\ \A i \in 1 .. Len(lg[PromptFile(a)]) :
       lg[PromptFile(a)][i].tok \in {"text", "end"} /\ lg[PromptFile(a)][i].m # 0 =>
         InTurnOf(lg[PromptFile(a)], i, lg[PromptFile(a)][i].m)
  /\ a = "grok" => \A i \in 1 .. Len(lg["lifecycle"]) : lg["lifecycle"][i].tok \notin {"user", "text"}

\* What a scan for a text of H, begun at place b of file f, remembers is in the
\* log: the input, and an answer whose turn was not over then.
ScanOK(lg, f, b, H, s) ==
  /\ s \in ScanState /\ \A g \in AllFiles : s.off[g] <= Len(lg[g])
  /\ b \in Nat /\ b <= s.off[f]
  /\ s.seen => \E p \in (b + 1) .. s.off[f] : IsInput(lg[f][p], H)
  /\ s.cand # 0 => s.seen /\ Follows(lg[f], b, H, s.cand)

\* lh is lg with more records behind each file.
LogGrows(lg, lh) ==
  \A g \in AllFiles : Len(lg[g]) <= Len(lh[g]) /\ \A i \in 1 .. Len(lg[g]) : lh[g][i] = lg[g][i]

LEMMA LogsAre ==
  ASSUME NEW lg \in Logs, NEW g \in AllFiles
  PROVE  Len(lg[g]) \in Nat /\ lg[g] \in Seq(LogRecord) /\ \A i \in 1 .. Len(lg[g]) : lg[g][i] \in LogRecord
<1>1. lg[g] \in Seq(LogRecord)
  BY DEF Logs
<1> QED BY <1>1, LenProperties, ElementOfSeq

LEMMA PromptFileIs == \A a \in Adapters :
  PromptFile(a) \in AllFiles /\ PromptFile(a) = (IF a = "grok" THEN "history" ELSE "transcript")
BY DEF PromptFile, FileOf, AllFiles, Adapters

LEMMA FollowsGrows ==
  ASSUME NEW lg \in Logs, NEW lh \in Logs, LogGrows(lg, lh), NEW f \in AllFiles, NEW b \in Nat,
         NEW H, NEW K, H \subseteq K, NEW x, Follows(lg[f], b, H, x)
  PROVE  Follows(lh[f], b, K, x)
<1>1. PICK p \in (b + 1) .. Len(lg[f]), q \in 1 .. Len(lg[f]) :
        /\ IsInput(lg[f][p], H) /\ IsPrompt(lg[f][q], x)
        /\ \A k \in 1 .. p : lg[f][k].tok = "user" => k <= q
  BY DEF Follows
<1>2. Len(lg[f]) \in Nat /\ Len(lh[f]) \in Nat /\ Len(lg[f]) <= Len(lh[f])
  BY LogsAre DEF LogGrows
<1>3. p \in (b + 1) .. Len(lh[f]) /\ q \in 1 .. Len(lh[f]) /\ p \in 1 .. Len(lg[f])
  BY <1>2
<1>4. lh[f][p] = lg[f][p] /\ lh[f][q] = lg[f][q]
  BY <1>3 DEF LogGrows
<1>5. \A k \in 1 .. p : lh[f][k] = lg[f][k]
  <2>1. \A k \in 1 .. p : k \in 1 .. Len(lg[f])
    BY <1>2, <1>3
  <2> QED BY <2>1 DEF LogGrows
<1>6. IsInput(lh[f][p], K) /\ IsPrompt(lh[f][q], x)
  BY <1>1, <1>4 DEF IsInput
<1> QED BY <1>1, <1>3, <1>5, <1>6 DEF Follows

LEMMA ScanGrows ==
  ASSUME NEW lg \in Logs, NEW lh \in Logs, LogGrows(lg, lh), NEW f \in AllFiles, NEW b, NEW H, NEW K,
         H \subseteq K, NEW s, ScanOK(lg, f, b, H, s)
  PROVE  ScanOK(lh, f, b, K, s)
<1>1. s \in ScanState /\ (\A g \in AllFiles : s.off[g] \in Nat) /\ b \in Nat /\ b <= s.off[f]
  BY DEF ScanOK, ScanState
<1>2. \A g \in AllFiles : s.off[g] <= Len(lh[g])
  <2> SUFFICES ASSUME NEW g \in AllFiles PROVE s.off[g] <= Len(lh[g])
    OBVIOUS
  <2>1. Len(lg[g]) \in Nat /\ Len(lh[g]) \in Nat /\ Len(lg[g]) <= Len(lh[g])
    BY LogsAre DEF LogGrows
  <2>2. s.off[g] <= Len(lg[g])
    BY DEF ScanOK
  <2> QED BY <1>1, <2>1, <2>2
<1>3. ASSUME s.seen PROVE \E p \in (b + 1) .. s.off[f] : IsInput(lh[f][p], K)
  <2>1. PICK p \in (b + 1) .. s.off[f] : IsInput(lg[f][p], H)
    BY <1>3 DEF ScanOK
  <2>2. p \in 1 .. Len(lg[f])
    BY <1>1, LogsAre DEF ScanOK
  <2>3. lh[f][p] = lg[f][p]
    BY <2>2 DEF LogGrows
  <2> QED BY <2>1, <2>3 DEF IsInput
<1>4. s.cand # 0 => s.seen /\ Follows(lh[f], b, K, s.cand)
  BY <1>1, FollowsGrows DEF ScanOK
<1> QED BY <1>1, <1>2, <1>3, <1>4 DEF ScanOK

LEMMA ScanStartIs ==
  ASSUME NEW lg \in Logs, NEW f \in AllFiles, NEW H
  PROVE  ScanOK(lg, f, ScanStart(lg).off[f], H, ScanStart(lg))
<1>1. \A g \in AllFiles : Len(lg[g]) \in Nat
  BY LogsAre
<1> QED BY <1>1 DEF ScanOK, ScanStart, ScanState

\* What is taken for an answer is the message of the record.
LEMMA ObserveIs ==
  ASSUME NEW a \in Adapters, NEW r \in LogRecord
  PROVE  /\ Observe(a, r).cand \in {0, r.m}
         /\ Observe(a, r).cand # 0 => r.tok \in {"text", "end"}
         /\ a = "grok" /\ Observe(a, r).cand # 0 => r.tok = "text"
         /\ Observe(a, r).clear \in BOOLEAN /\ Observe(a, r).done \in BOOLEAN
         /\ Observe(a, r).failed \in BOOLEAN
<1> DEFINE Fields(o) == /\ o.cand \in {0, r.m} /\ o.clear \in BOOLEAN /\ o.done \in BOOLEAN
                        /\ o.failed \in BOOLEAN
<1>1. /\ Fields(Nothing) /\ Nothing.cand = 0 /\ Fields(Clears) /\ Clears.cand = 0
      /\ Fields(Fails) /\ Fails.cand = 0 /\ Fields(Says(r.m)) /\ Fields(Completes(r.m))
      /\ Fields(Completes(0)) /\ Completes(0).cand = 0
  BY DEF Nothing, Clears, Fails, Says, Completes
<1> HIDE DEF Fields
<1>2. /\ Observe("codex", r) = ObserveCodex(r) /\ Observe("claude", r) = ObserveClaude(r)
      /\ Observe("grok", r) = ObserveClaude(r) /\ Observe("gemini", r) = ObserveGemini(r)
      /\ Observe("agy", r) = ObserveAgy(r)
  BY DEF Observe, ObserveGrok
<1>3. Fields(ObserveCodex(r)) /\ (ObserveCodex(r).cand # 0 => r.tok = "end")
  BY <1>1 DEF ObserveCodex
<1>4. Fields(ObserveClaude(r)) /\ (ObserveClaude(r).cand # 0 => r.tok = "text")
  BY <1>1 DEF ObserveClaude
<1>5. Fields(ObserveGemini(r)) /\ (ObserveGemini(r).cand # 0 => r.tok = "text")
  BY <1>1 DEF ObserveGemini
<1>6. Fields(ObserveAgy(r)) /\ (ObserveAgy(r).cand # 0 => r.tok = "text")
  BY <1>1 DEF ObserveAgy
<1>7. /\ Fields(Observe(a, r)) /\ (Observe(a, r).cand # 0 => r.tok \in {"text", "end"})
      /\ (a = "grok" /\ Observe(a, r).cand # 0 => r.tok = "text")
  BY <1>2, <1>3, <1>4, <1>5, <1>6 DEF Adapters
<1> QED BY <1>7 DEF Fields

\* One file read: an answer noted comes from a record behind the input, and
\* its turn is the last that began before it.
LEMMA ScanFileKeeps ==
  ASSUME NEW a \in Adapters, NEW lg \in Logs, TurnsIn(lg, a), NEW b, NEW K, NEW s,
         ScanOK(lg, PromptFile(a), b, K, s), NEW f \in AllFiles,
         f = PromptFile(a) \/ (a = "grok" /\ f = "lifecycle" /\ s.seen),
         NEW upto \in [AllFiles -> Nat], s.off[f] <= upto[f], upto[f] <= Len(lg[f])
  PROVE  /\ ScanOK(lg, PromptFile(a), b, K, ScanFile(a, K, lg, upto, s, f))
         /\ ScanFile(a, K, lg, upto, s, f).off = [s.off EXCEPT ![f] = upto[f]]
<1> DEFINE O(i) == Observe(a, lg[f][i])
           prompts == PromptsIn(K, lg, upto, s, f)
           watched == Watched(K, lg, upto, s, f)
           deciding == {i \in watched : O(i).cand # 0 \/ O(i).clear}
           t == ScanFile(a, K, lg, upto, s, f)
           F == PromptFile(a)
<1>1. t = [off |-> [s.off EXCEPT ![f] = upto[f]],
           seen |-> s.seen \/ prompts # {},
           cand |-> IF deciding = {} THEN s.cand ELSE O(Max(deciding)).cand,
           done |-> s.done \/ \E i \in watched : O(i).done,
           failed |-> s.failed \/ \E i \in watched : O(i).failed]
  BY DEF ScanFile
<1>2. /\ s \in ScanState /\ s.off \in [AllFiles -> Nat] /\ s.off[f] \in Nat /\ s.cand \in Nat
      /\ s.seen \in BOOLEAN /\ s.done \in BOOLEAN /\ s.failed \in BOOLEAN
      /\ (\A g \in AllFiles : s.off[g] <= Len(lg[g])) /\ b \in Nat /\ b <= s.off[PromptFile(a)]
  BY DEF ScanOK, ScanState
<1>3. Len(lg[f]) \in Nat /\ upto[f] \in Nat /\ \A i \in 1 .. Len(lg[f]) : lg[f][i] \in LogRecord
  BY LogsAre
<1>4. F \in AllFiles /\ F = (IF a = "grok" THEN "history" ELSE "transcript")
  BY PromptFileIs
<1>5. /\ prompts = {i \in (s.off[f] + 1) .. upto[f] : IsInput(lg[f][i], K)}
      /\ watched = {i \in (s.off[f] + 1) .. upto[f] : s.seen \/ \E k \in prompts : k < i}
  BY DEF PromptsIn, Watched, Unread
<1> HIDE DEF prompts, watched, t, F
<1>6. \A i \in (s.off[f] + 1) .. upto[f] : i \in 1 .. Len(lg[f]) /\ i \in Int
  BY <1>2, <1>3
<1>7. \A i \in watched : i \in 1 .. Len(lg[f]) /\ i \in Int /\ lg[f][i] \in LogRecord
  BY <1>3, <1>5, <1>6
<1>8. \A i \in watched : /\ O(i).cand \in {0, lg[f][i].m} /\ O(i).cand \in Nat
                         /\ O(i).cand # 0 => lg[f][i].tok \in {"text", "end"}
                         /\ a = "grok" /\ O(i).cand # 0 => lg[f][i].tok = "text"
                         /\ O(i).done \in BOOLEAN /\ O(i).failed \in BOOLEAN
  <2> SUFFICES ASSUME NEW i \in watched
               PROVE  /\ O(i).cand \in {0, lg[f][i].m} /\ O(i).cand \in Nat
                      /\ O(i).cand # 0 => lg[f][i].tok \in {"text", "end"}
                      /\ a = "grok" /\ O(i).cand # 0 => lg[f][i].tok = "text"
                      /\ O(i).done \in BOOLEAN /\ O(i).failed \in BOOLEAN
    OBVIOUS
  <2> DEFINE r == lg[f][i]
  <2>1. r \in LogRecord /\ r.m \in Nat
    BY <1>7 DEF LogRecord
  <2> HIDE DEF r
  <2>2. /\ Observe(a, r).cand \in {0, r.m}
        /\ Observe(a, r).cand # 0 => r.tok \in {"text", "end"}
        /\ a = "grok" /\ Observe(a, r).cand # 0 => r.tok = "text"
        /\ Observe(a, r).done \in BOOLEAN /\ Observe(a, r).failed \in BOOLEAN
    BY <2>1, ObserveIs
  <2> QED BY <2>1, <2>2 DEF r
<1>9. deciding # {} => Max(deciding) \in watched
  <2> SUFFICES ASSUME deciding # {} PROVE Max(deciding) \in watched
    OBVIOUS
  <2>1. deciding \in SUBSET (1 .. Len(lg[f]))
    BY <1>7
  <2>2. Max(deciding) \in deciding
    BY <1>3, <2>1, EndsOf
  <2> QED BY <2>2
<1> HIDE DEF deciding
\* The input lies before the offset of the file of the prompts.
<1>15. t.off[F] \in Nat /\ s.off[F] \in Nat /\ s.off[F] <= t.off[F] /\ b <= t.off[F] /\ b <= s.off[F]
  <2>1. s.off[F] \in Nat /\ t.off[F] \in Nat /\ s.off[F] <= t.off[F] /\ b <= s.off[F] /\ b \in Nat
    BY <1>1, <1>2, <1>3, <1>4 DEF F
  <2> QED BY <2>1
<1>10. ASSUME t.seen
       PROVE  \E p \in (b + 1) .. t.off[F] : IsInput(lg[F][p], K)
  <2>1. CASE s.seen
    <3>1. PICK p \in (b + 1) .. s.off[F] : IsInput(lg[F][p], K)
      BY <2>1 DEF ScanOK, F
    <3>3. p \in (b + 1) .. t.off[F]
      BY <1>2, <1>15
    <3> QED BY <3>1, <3>3
  <2>2. CASE ~s.seen
    <3>1. f = F /\ prompts # {}
      BY <1>1, <1>10, <2>2 DEF F
    <3>2. PICK p \in prompts : TRUE
      BY <3>1
    <3>3. p \in (s.off[f] + 1) .. upto[f] /\ IsInput(lg[f][p], K)
      BY <1>5
    <3>4. p \in (b + 1) .. upto[f] /\ t.off[F] = upto[f]
      BY <1>1, <1>2, <1>3, <1>15, <3>1, <3>3
    <3> QED BY <3>1, <3>3, <3>4
  <2> QED BY <2>1, <2>2
<1>11. ASSUME NEW i \in watched, O(i).cand # 0
       PROVE  t.seen /\ Follows(lg[F], b, K, O(i).cand)
  <2> DEFINE x == O(i).cand
  <2>1. x = lg[f][i].m /\ lg[f][i].m # 0 /\ lg[f][i].tok \in {"text", "end"}
    BY <1>8, <1>11
  <2>2. f = F
    <3> SUFFICES ASSUME f # F PROVE FALSE
      OBVIOUS
    <3>1. a = "grok" /\ f = "lifecycle"
      BY DEF F
    <3>2. lg[f][i].tok = "text"
      BY <1>8, <1>11, <3>1
    <3> QED BY <1>7, <3>1, <3>2 DEF TurnsIn
  <2>3. \E p \in (b + 1) .. Len(lg[F]) : p < i /\ IsInput(lg[F][p], K)
    <3>1. i \in (s.off[f] + 1) .. upto[f] /\ (s.seen \/ \E k \in prompts : k < i)
      BY <1>5
    <3>2. CASE s.seen
      <4>1. PICK p \in (b + 1) .. s.off[F] : IsInput(lg[F][p], K)
        BY <3>2 DEF ScanOK, F
      <4>2. p \in (b + 1) .. Len(lg[F]) /\ p < i
        BY <1>2, <1>3, <2>2, <3>1
      <4> QED BY <4>1, <4>2
    <3>3. CASE \E k \in prompts : k < i
      <4>1. PICK k \in prompts : k < i
        BY <3>3
      <4>2. k \in (s.off[F] + 1) .. upto[F] /\ k \in 1 .. Len(lg[F]) /\ IsInput(lg[F][k], K)
        BY <1>5, <1>6, <2>2
      <4>3. k \in (b + 1) .. Len(lg[F])
        BY <1>2, <1>3, <1>15, <2>2, <4>2
      <4> QED BY <4>1, <4>2, <4>3
    <3> QED BY <3>1, <3>2, <3>3
  <2>4. PICK p \in (b + 1) .. Len(lg[F]) : p < i /\ IsInput(lg[F][p], K)
    BY <2>3
  <2>5. InTurnOf(lg[F], i, x)
    BY <1>7, <2>1, <2>2 DEF TurnsIn, F
  <2>6. PICK q \in 1 .. i : IsPrompt(lg[F][q], x) /\ \A k \in 1 .. i : k > q => lg[F][k].tok # "user"
    BY <2>5 DEF InTurnOf
  <2>7. i \in 1 .. Len(lg[F]) /\ Len(lg[F]) \in Nat
    BY <1>3, <1>7, <2>2
  <2>8. \A k \in 1 .. p : lg[F][k].tok = "user" => k <= q
    <3>1. \A k \in 1 .. p : k \in 1 .. i /\ k \in Int /\ (k > q \/ k <= q)
      BY <1>2, <2>4, <2>6, <2>7
    <3> QED BY <2>6, <3>1
  <2>9. q \in 1 .. Len(lg[F])
    BY <2>6, <2>7
  <2>10. Follows(lg[F], b, K, x)
    BY <2>4, <2>6, <2>8, <2>9 DEF Follows
  <2>11. t.seen
    BY <1>1, <1>5
  <2> QED BY <2>10, <2>11
<1>12. t.cand # 0 => t.seen /\ Follows(lg[F], b, K, t.cand)
  <2>1. CASE deciding = {}
    <3>1. t.cand = s.cand /\ (s.seen => t.seen)
      BY <1>1, <2>1
    <3> QED BY <3>1 DEF ScanOK, F
  <2>2. CASE deciding # {}
    <3>1. Max(deciding) \in watched /\ t.cand = O(Max(deciding)).cand
      BY <1>1, <1>9, <2>2
    <3> QED BY <1>11, <3>1
  <2> QED BY <2>1, <2>2
<1>13. t \in ScanState
  <2>1. [s.off EXCEPT ![f] = upto[f]] \in [AllFiles -> Nat]
    BY <1>2, <1>3
  <2>2. (IF deciding = {} THEN s.cand ELSE O(Max(deciding)).cand) \in Nat
    BY <1>2, <1>8, <1>9
  <2>3. (s.seen \/ prompts # {}) \in BOOLEAN /\ (s.done \/ \E i \in watched : O(i).done) \in BOOLEAN
        /\ (s.failed \/ \E i \in watched : O(i).failed) \in BOOLEAN
    OBVIOUS
  <2> QED BY <1>1, <2>1, <2>2, <2>3 DEF ScanState
<1>14. \A g \in AllFiles : t.off[g] <= Len(lg[g])
  BY <1>1, <1>2
<1> QED BY <1>1, <1>2, <1>10, <1>12, <1>13, <1>14, <1>15 DEF ScanOK, t, F

\* A whole scan.
LEMMA ScanIs ==
  ASSUME NEW a \in Adapters, NEW lg \in Logs, TurnsIn(lg, a), NEW b, NEW K, NEW s,
         ScanOK(lg, PromptFile(a), b, K, s), NEW upto \in [AllFiles -> Nat],
         \A g \in AllFiles : s.off[g] <= upto[g] /\ upto[g] <= Len(lg[g])
  PROVE  ScanOK(lg, PromptFile(a), b, K, Scan(a, K, lg, upto, s))
<1>1. PromptFile(a) = (IF a = "grok" THEN "history" ELSE "transcript")
  BY PromptFileIs
<1>2. "transcript" \in AllFiles /\ "history" \in AllFiles /\ "lifecycle" \in AllFiles
  BY DEF AllFiles
<1>3. CASE a # "grok"
  BY <1>1, <1>2, <1>3, ScanFileKeeps DEF Scan
<1>4. CASE a = "grok"
  <2> DEFINE h == ScanFile(a, K, lg, upto, s, "history")
  <2>1. /\ ScanOK(lg, PromptFile(a), b, K, h)
        /\ h.off = [s.off EXCEPT !["history"] = upto["history"]]
    BY <1>1, <1>2, <1>4, ScanFileKeeps
  <2>2. Scan(a, K, lg, upto, s) = IF h.seen THEN ScanFile(a, K, lg, upto, h, "lifecycle") ELSE h
    BY <1>4 DEF Scan
  <2>3. h.off["lifecycle"] = s.off["lifecycle"]
    BY <1>2, <2>1 DEF ScanOK, ScanState
  <2> HIDE DEF h
  <2>4. h.seen => ScanOK(lg, PromptFile(a), b, K, ScanFile(a, K, lg, upto, h, "lifecycle"))
    BY <1>2, <1>4, <2>1, <2>3, ScanFileKeeps
  <2> QED BY <2>1, <2>2, <2>4
<1> QED BY <1>3, <1>4

-----------------------------------------------------------------------------
(* What the provider writes.                                               *)

\* The log with these records behind each file.
Joined(lg, recs) == [g \in AllFiles |-> lg[g] \o recs[g]]

\* Each prompt is taken once, of those typed, and then it waits no more: L is
\* the file of the prompts.
PromptsOK(L, inb, typ) ==
  /\ typ \in SUBSET (Nat \ {0}) /\ inb \in Seq(typ)
  /\ \A i, k \in 1 .. Len(inb) : inb[i] = inb[k] => i = k
  /\ \A i \in 1 .. Len(L) :
       L[i].tok = "user" => L[i].m \in typ /\ \A k \in 1 .. Len(inb) : inb[k] # L[i].m
  /\ \A i, k \in 1 .. Len(L) :
       L[i].tok = "user" /\ L[k].tok = "user" /\ L[i].m = L[k].m => i = k

\* The record that the last turn ended with.
Closers(a) ==
  IF a = "codex" THEN {"end"} ELSE IF a \in {"claude", "grok"} THEN {"end", "fail"} ELSE {"text", "fail"}

ClosedBy(L, a) == Len(L) # 0 => L[Len(L)].tok \in Closers(a)

\* A sequence behind another one.
LEMMA ConcatIs ==
  ASSUME NEW S, NEW s \in Seq(S), NEW r \in Seq(S)
  PROVE  /\ s \o r \in Seq(S) /\ Len(s) \in Nat /\ Len(r) \in Nat
         /\ Len(s \o r) = Len(s) + Len(r)
         /\ \A i \in 1 .. Len(s) : (s \o r)[i] = s[i]
         /\ \A i \in 1 .. Len(r) : (s \o r)[Len(s) + i] = r[i]
         /\ \A i \in 1 .. Len(s \o r) : \/ i \in 1 .. Len(s) /\ (s \o r)[i] = s[i]
                                       \/ \E k \in 1 .. Len(r) : i = Len(s) + k /\ (s \o r)[i] = r[k]
<1> DEFINE c == s \o r
           n == Len(s)
           m == Len(r)
<1>1. n \in Nat /\ m \in Nat
  BY LenProperties
<1>2. /\ c \in Seq(S) /\ Len(c) = n + m
      /\ \A i \in 1 .. n + m : c[i] = IF i <= n THEN s[i] ELSE r[i - n]
  BY ConcatProperties
<1> HIDE DEF c, n, m
<1>3. \A i \in 1 .. n : c[i] = s[i]
  BY <1>1, <1>2
<1>4. \A i \in 1 .. m : c[n + i] = r[i]
  <2> SUFFICES ASSUME NEW i \in 1 .. m PROVE c[n + i] = r[i]
    OBVIOUS
  <2>1. n + i \in 1 .. n + m /\ ~(n + i <= n) /\ (n + i) - n = i
    BY <1>1
  <2> QED BY <1>2, <2>1
<1>5. ASSUME NEW i \in 1 .. Len(c)
      PROVE  (i \in 1 .. n /\ c[i] = s[i]) \/ \E k \in 1 .. m : i = n + k /\ c[i] = r[k]
  <2>1. CASE i <= n
    <3>1. i \in 1 .. n
      BY <1>1, <2>1
    <3> QED BY <1>3, <3>1
  <2>2. CASE ~(i <= n)
    <3>1. i - n \in 1 .. m /\ i = n + (i - n)
      BY <1>1, <1>2, <2>2
    <3>2. c[i] = r[i - n]
      BY <1>2, <2>2
    <3> QED BY <3>1, <3>2
  <2> QED BY <2>1, <2>2
<1> QED BY <1>1, <1>2, <1>3, <1>4, <1>5 DEF c, n, m

LEMMA JoinedIs ==
  ASSUME NEW lg \in Logs, NEW recs \in Logs
  PROVE  /\ Joined(lg, recs) \in Logs /\ LogGrows(lg, Joined(lg, recs))
         /\ \A g \in AllFiles :
              /\ Len(lg[g]) \in Nat /\ Len(recs[g]) \in Nat
              /\ Len(Joined(lg, recs)[g]) = Len(lg[g]) + Len(recs[g])
              /\ \A i \in 1 .. Len(lg[g]) : Joined(lg, recs)[g][i] = lg[g][i]
              /\ \A i \in 1 .. Len(recs[g]) : Joined(lg, recs)[g][Len(lg[g]) + i] = recs[g][i]
              /\ \A i \in 1 .. Len(Joined(lg, recs)[g]) :
                   \/ i \in 1 .. Len(lg[g]) /\ Joined(lg, recs)[g][i] = lg[g][i]
                   \/ \E k \in 1 .. Len(recs[g]) :
                        i = Len(lg[g]) + k /\ Joined(lg, recs)[g][i] = recs[g][k]
<1> DEFINE lh == Joined(lg, recs)
           Behind(s, r, c) ==
             /\ c \in Seq(LogRecord) /\ Len(s) \in Nat /\ Len(r) \in Nat /\ Len(c) = Len(s) + Len(r)
             /\ \A i \in 1 .. Len(s) : c[i] = s[i]
             /\ \A i \in 1 .. Len(r) : c[Len(s) + i] = r[i]
             /\ \A i \in 1 .. Len(c) : \/ i \in 1 .. Len(s) /\ c[i] = s[i]
                                       \/ \E k \in 1 .. Len(r) : i = Len(s) + k /\ c[i] = r[k]
<1>1. ASSUME NEW g \in AllFiles PROVE Behind(lg[g], recs[g], lh[g])
  <2>1. lg[g] \in Seq(LogRecord) /\ recs[g] \in Seq(LogRecord)
    BY LogsAre
  <2>2. lh[g] = lg[g] \o recs[g]
    BY DEF Joined
  <2>3. \A s, r \in Seq(LogRecord) : Behind(s, r, s \o r)
    BY ConcatIs
  <2> HIDE DEF Behind, lh
  <2> QED BY <2>1, <2>2, <2>3
<1>2. lh \in Logs
  BY <1>1 DEF Logs, Joined
<1> HIDE DEF lh
<1>3. \A g \in AllFiles : Len(lg[g]) <= Len(lh[g]) /\ \A i \in 1 .. Len(lg[g]) : lh[g][i] = lg[g][i]
  <2> SUFFICES ASSUME NEW g \in AllFiles
               PROVE  Len(lg[g]) <= Len(lh[g]) /\ \A i \in 1 .. Len(lg[g]) : lh[g][i] = lg[g][i]
    OBVIOUS
  <2>1. Behind(lg[g], recs[g], lh[g])
    BY <1>1
  <2>2. Len(lg[g]) \in Nat /\ Len(recs[g]) \in Nat /\ Len(lh[g]) = Len(lg[g]) + Len(recs[g])
    BY <2>1, Zenon
  <2>3. \A i \in 1 .. Len(lg[g]) : lh[g][i] = lg[g][i]
    BY <2>1, Zenon
  <2>4. \A k, n \in Nat : k <= k + n
    OBVIOUS
  <2>5. Len(lg[g]) <= Len(lh[g])
    BY <2>2, <2>4, Zenon
  <2> QED BY <2>3, <2>5
<1> QED BY <1>1, <1>2, <1>3, Zenon DEF LogGrows, lh

\* Records of the running turn, none of them a prompt.
LEMMA RecordsOfTurnKeep ==
  ASSUME NEW a \in Adapters, NEW lg \in Logs, NEW recs \in Logs, NEW t \in Nat, TurnsIn(lg, a),
         InTurnOf(lg[PromptFile(a)], Len(lg[PromptFile(a)]), t),
         \A i \in 1 .. Len(recs[PromptFile(a)]) :
           /\ recs[PromptFile(a)][i].tok # "user"
           /\ recs[PromptFile(a)][i].tok \in {"text", "end"} => recs[PromptFile(a)][i].m \in {0, t},
         a = "grok" => \A i \in 1 .. Len(recs["lifecycle"]) : recs["lifecycle"][i].tok \notin {"user", "text"}
  PROVE  /\ TurnsIn(Joined(lg, recs), a)
         /\ InTurnOf(Joined(lg, recs)[PromptFile(a)], Len(Joined(lg, recs)[PromptFile(a)]), t)
         /\ \A inb, typ : PromptsOK(lg[PromptFile(a)], inb, typ) =>
              PromptsOK(Joined(lg, recs)[PromptFile(a)], inb, typ)
<1> DEFINE lh == Joined(lg, recs)
           F == PromptFile(a)
           L == lg[F]
           R == recs[F]
           H == lh[F]
<1>1. F \in AllFiles /\ "lifecycle" \in AllFiles
  BY PromptFileIs DEF AllFiles
<1>2. /\ Len(L) \in Nat /\ Len(R) \in Nat /\ Len(H) = Len(L) + Len(R)
      /\ \A i \in 1 .. Len(L) : H[i] = L[i]
      /\ \A i \in 1 .. Len(H) : \/ i \in 1 .. Len(L) /\ H[i] = L[i]
                               \/ \E k \in 1 .. Len(R) : i = Len(L) + k /\ H[i] = R[k]
  BY <1>1, JoinedIs, Zenon
<1>3. \A i \in 1 .. Len(lh["lifecycle"]) :
        \/ i \in 1 .. Len(lg["lifecycle"]) /\ lh["lifecycle"][i] = lg["lifecycle"][i]
        \/ \E k \in 1 .. Len(recs["lifecycle"]) : i = Len(lg["lifecycle"]) + k /\ lh["lifecycle"][i] = recs["lifecycle"][k]
  BY <1>1, JoinedIs, Zenon
<1> HIDE DEF lh, F, L, R, H
<1> DEFINE Later(r) == r.tok # "user" /\ (r.tok \in {"text", "end"} => r.m \in {0, t})
<1>4. \A i \in 1 .. Len(H) : i \in Nat /\ (~(i \in 1 .. Len(L)) => Later(H[i]))
  <2>1. \A k \in 1 .. Len(R) : Later(R[k])
    BY DEF F, R
  <2> HIDE DEF Later
  <2> SUFFICES ASSUME NEW i \in 1 .. Len(H)
               PROVE  i \in Nat /\ (~(i \in 1 .. Len(L)) => Later(H[i]))
    OBVIOUS
  <2>2. i \in Nat
    BY <1>2
  <2>3. \/ i \in 1 .. Len(L) /\ H[i] = L[i]
        \/ \E k \in 1 .. Len(R) : i = Len(L) + k /\ H[i] = R[k]
    BY <1>2
  <2> QED BY <2>1, <2>2, <2>3
<1>5. ASSUME NEW i \in 1 .. Len(L), NEW m, InTurnOf(L, i, m)
      PROVE  InTurnOf(H, i, m)
  <2>1. PICK q \in 1 .. i : IsPrompt(L[q], m) /\ \A k \in 1 .. i : k > q => L[k].tok # "user"
    BY <1>5 DEF InTurnOf
  <2>2. \A k \in 1 .. i : H[k] = L[k]
    BY <1>2
  <2> QED BY <2>1, <2>2 DEF InTurnOf
<1>6. ASSUME NEW i \in 1 .. Len(H), ~(i \in 1 .. Len(L)) \/ i = Len(L)
      PROVE  InTurnOf(H, i, t)
  <2>1. PICK q \in 1 .. Len(L) : IsPrompt(L[q], t) /\ \A k \in 1 .. Len(L) : k > q => L[k].tok # "user"
    BY DEF InTurnOf, F, L
  <2>2. q \in 1 .. i /\ H[q] = L[q]
    <3>1. Len(L) \in Nat /\ i \in 1 .. Len(H) /\ q \in 1 .. Len(L) /\ H[q] = L[q]
      BY <1>2
    <3>2. ~(i \in 1 .. Len(L)) \/ i = Len(L)
      BY <1>6
    <3> QED BY <1>2, <3>1, <3>2
  <2>3. \A k \in 1 .. i : k > q => H[k].tok # "user"
    <3> SUFFICES ASSUME NEW k \in 1 .. i, k > q PROVE H[k].tok # "user"
      OBVIOUS
    <3>1. k \in 1 .. Len(H)
      BY <1>2, <1>6
    <3>2. CASE k \in 1 .. Len(L)
      BY <1>2, <2>1, <3>2
    <3>3. CASE ~(k \in 1 .. Len(L))
      BY <1>4, <3>1, <3>3
    <3> QED BY <3>2, <3>3
  <2> QED BY <2>1, <2>2, <2>3 DEF InTurnOf
<1>7. InTurnOf(H, Len(H), t)
  <2>1. PICK q \in 1 .. Len(L) : TRUE
    BY DEF InTurnOf, F, L
  <2>2. Len(H) \in 1 .. Len(H) /\ (Len(H) \in 1 .. Len(L) => Len(H) = Len(L))
    BY <1>2, <2>1
  <2> QED BY <1>6, <2>2
<1>8. TurnsIn(lh, a)
  <2>1. ASSUME NEW i \in 1 .. Len(H), H[i].tok \in {"text", "end"}, H[i].m # 0
        PROVE  InTurnOf(H, i, H[i].m)
    <3>1. CASE i \in 1 .. Len(L)
      <4>1. H[i] = L[i]
        BY <1>2, <3>1
      <4>2. InTurnOf(L, i, L[i].m)
        BY <2>1, <3>1, <4>1 DEF TurnsIn, F, L
      <4> QED BY <1>5, <3>1, <4>1, <4>2
    <3>2. CASE ~(i \in 1 .. Len(L))
      BY <1>4, <1>6, <2>1, <3>2
    <3> QED BY <3>1, <3>2
  <2>2. a = "grok" => \A i \in 1 .. Len(lh["lifecycle"]) : lh["lifecycle"][i].tok \notin {"user", "text"}
    BY <1>3 DEF TurnsIn
  <2> QED BY <2>1, <2>2 DEF TurnsIn, F, H
<1>9. ASSUME NEW inb, NEW typ, PromptsOK(L, inb, typ)
      PROVE  PromptsOK(H, inb, typ)
  <2>1. \A i \in 1 .. Len(H) : H[i].tok = "user" => i \in 1 .. Len(L) /\ H[i] = L[i]
    BY <1>2, <1>4
  <2>2. \A i \in 1 .. Len(H) :
          H[i].tok = "user" => H[i].m \in typ /\ \A k \in 1 .. Len(inb) : inb[k] # H[i].m
    BY <1>9, <2>1 DEF PromptsOK
  <2>3. \A i, k \in 1 .. Len(H) : H[i].tok = "user" /\ H[k].tok = "user" /\ H[i].m = H[k].m => i = k
    BY <1>9, <2>1 DEF PromptsOK
  <2> QED BY <1>9, <2>2, <2>3 DEF PromptsOK
<1> QED BY <1>7, <1>8, <1>9 DEF F, L, H, lh

\* A prompt is the last record that opens a turn.
LEMMA OpeningIs ==
  ASSUME NEW a \in Adapters, NEW m \in Nat
  PROVE  LET R == Opening(a, m)[PromptFile(a)]
         IN /\ Opening(a, m) \in Logs /\ Len(R) \in {1, 2} /\ R[Len(R)] = Record("user", m)
            /\ Len(R) = 2 => R[1] = Record("start", m)
            /\ a = "grok" => \A i \in 1 .. Len(Opening(a, m)["lifecycle"]) :
                 Opening(a, m)["lifecycle"][i].tok \notin {"user", "text"}
<1> DEFINE u == Record("user", m)
           s == Record("start", m)
<1>1. u \in LogRecord /\ s \in LogRecord /\ s.tok = "start"
  BY DEF Record, LogRecord, Tokens
<1>2. /\ <<>> \in Seq(LogRecord) /\ Len(<<>>) = 0
      /\ <<u>> \in Seq(LogRecord) /\ Len(<<u>>) = 1 /\ <<u>>[1] = u
      /\ <<s>> \in Seq(LogRecord) /\ Len(<<s>>) = 1 /\ <<s>>[1] = s
      /\ <<s, u>> \in Seq(LogRecord) /\ Len(<<s, u>>) = 2 /\ <<s, u>>[1] = s /\ <<s, u>>[2] = u
  <2> HIDE DEF u, s
  <2> QED BY <1>1
<1>3. PromptFile(a) = (IF a = "grok" THEN "history" ELSE "transcript")
  BY PromptFileIs
<1>4. CASE a = "grok"
  <2>1. Opening(a, m) = [Unwritten EXCEPT !["history"] = <<u>>, !["lifecycle"] = <<s>>]
    BY <1>4 DEF Opening
  <2> HIDE DEF u, s
  <2>2. Opening(a, m) = [g \in AllFiles |-> IF g = "lifecycle" THEN <<s>> ELSE IF g = "history" THEN <<u>> ELSE <<>>]
    BY <2>1 DEF Unwritten
  <2>3. Opening(a, m) \in Logs
    BY <1>2, <2>2 DEF Logs
  <2>4. Opening(a, m)["history"] = <<u>> /\ Opening(a, m)["lifecycle"] = <<s>>
    BY <2>2 DEF AllFiles
  <2>5. \A i \in 1 .. Len(<<s>>) : <<s>>[i].tok = "start"
    BY <1>1, <1>2
  <2>6. Opening(a, m)[PromptFile(a)] = <<u>>
    BY <1>3, <1>4, <2>4
  <2> QED BY <1>2, <2>3, <2>4, <2>5, <2>6 DEF u
<1>5. CASE a = "codex"
  <2>1. Opening(a, m) = [Unwritten EXCEPT !["transcript"] = <<s, u>>]
    BY <1>5 DEF Opening
  <2> HIDE DEF u, s
  <2>2. Opening(a, m) = [g \in AllFiles |-> IF g = "transcript" THEN <<s, u>> ELSE <<>>]
    BY <2>1 DEF Unwritten
  <2>3. Opening(a, m) \in Logs
    BY <1>2, <2>2 DEF Logs
  <2>4. Opening(a, m)["transcript"] = <<s, u>>
    BY <2>2 DEF AllFiles
  <2> QED BY <1>1, <1>2, <1>3, <1>5, <2>3, <2>4 DEF u, s
<1>6. CASE a \notin {"grok", "codex"}
  <2>1. Opening(a, m) = [Unwritten EXCEPT !["transcript"] = <<u>>]
    BY <1>6 DEF Opening
  <2> HIDE DEF u, s
  <2>2. Opening(a, m) = [g \in AllFiles |-> IF g = "transcript" THEN <<u>> ELSE <<>>]
    BY <2>1 DEF Unwritten
  <2>3. Opening(a, m) \in Logs
    BY <1>2, <2>2 DEF Logs
  <2>4. Opening(a, m)["transcript"] = <<u>>
    BY <2>2 DEF AllFiles
  <2> QED BY <1>1, <1>2, <1>3, <1>6, <2>3, <2>4 DEF u, s
<1> QED BY <1>4, <1>5, <1>6

\* TakeInput: the next turn begins with its prompt.
LEMMA OpeningKeeps ==
  ASSUME NEW a \in Adapters, NEW lg \in Logs, TurnsIn(lg, a), NEW inb, NEW typ, inb # <<>>,
         PromptsOK(lg[PromptFile(a)], inb, typ)
  PROVE  LET lh == Joined(lg, Opening(a, Head(inb)))
         IN /\ Head(inb) \in Nat \ {0} /\ lh \in Logs /\ LogGrows(lg, lh) /\ TurnsIn(lh, a)
            /\ InTurnOf(lh[PromptFile(a)], Len(lh[PromptFile(a)]), Head(inb))
            /\ PromptsOK(lh[PromptFile(a)], Tail(inb), typ)
<1> DEFINE m == Head(inb)
           recs == Opening(a, m)
           lh == Joined(lg, recs)
           F == PromptFile(a)
           L == lg[F]
           R == recs[F]
           H == lh[F]
           n == Len(H)
           rest == Tail(inb)
<1>1. /\ typ \in SUBSET (Nat \ {0}) /\ inb \in Seq(typ)
      /\ \A i, k \in 1 .. Len(inb) : inb[i] = inb[k] => i = k
      /\ \A i \in 1 .. Len(L) :
           L[i].tok = "user" => L[i].m \in typ /\ \A k \in 1 .. Len(inb) : inb[k] # L[i].m
      /\ \A i, k \in 1 .. Len(L) :
           L[i].tok = "user" /\ L[k].tok = "user" /\ L[i].m = L[k].m => i = k
  BY DEF PromptsOK, F, L
<1>2. /\ m \in typ /\ Len(inb) \in Nat /\ Len(inb) # 0 /\ inb[1] = m
      /\ rest \in Seq(typ) /\ Len(rest) = Len(inb) - 1
      /\ \A i \in 1 .. Len(rest) : rest[i] = inb[i + 1]
  BY <1>1, HeadTailProperties, LenProperties, EmptySeq
<1>3. F \in AllFiles /\ "lifecycle" \in AllFiles
  BY PromptFileIs DEF AllFiles
<1>4. m \in Nat \ {0}
  BY <1>1, <1>2
<1> HIDE DEF m, rest
<1>5. /\ recs \in Logs /\ Len(R) \in {1, 2} /\ R[Len(R)] = Record("user", m)
      /\ Len(R) = 2 => R[1] = Record("start", m)
      /\ a = "grok" => \A i \in 1 .. Len(recs["lifecycle"]) : recs["lifecycle"][i].tok \notin {"user", "text"}
  BY <1>4, OpeningIs, Zenon DEF R, recs, F
<1> HIDE DEF recs
<1>6. lh \in Logs /\ LogGrows(lg, lh)
  BY <1>5, JoinedIs
<1>7. /\ Len(L) \in Nat /\ Len(R) \in Nat /\ n = Len(L) + Len(R)
      /\ \A i \in 1 .. Len(L) : H[i] = L[i]
      /\ \A i \in 1 .. Len(R) : H[Len(L) + i] = R[i]
      /\ \A i \in 1 .. n : \/ i \in 1 .. Len(L) /\ H[i] = L[i]
                           \/ \E k \in 1 .. Len(R) : i = Len(L) + k /\ H[i] = R[k]
  BY <1>3, <1>5, JoinedIs, Zenon
<1>8. \A i \in 1 .. Len(lh["lifecycle"]) :
        \/ i \in 1 .. Len(lg["lifecycle"]) /\ lh["lifecycle"][i] = lg["lifecycle"][i]
        \/ \E k \in 1 .. Len(recs["lifecycle"]) :
             i = Len(lg["lifecycle"]) + k /\ lh["lifecycle"][i] = recs["lifecycle"][k]
  BY <1>3, <1>5, JoinedIs, Zenon
<1> HIDE DEF lh, F, L, R, H, n
<1>9. n \in Nat /\ n > Len(L) /\ n \in 1 .. n /\ H[n] = Record("user", m)
  <2>1. Len(R) \in 1 .. Len(R)
    BY <1>5
  <2>2. H[Len(L) + Len(R)] = R[Len(R)]
    BY <1>7, <2>1
  <2>3. Len(L) \in Nat /\ n = Len(L) + Len(R)
    BY <1>7
  <2>4. H[n] = Record("user", m)
    BY <1>5, <2>2, <2>3, Zenon
  <2>5. n \in Nat /\ n > Len(L) /\ n \in 1 .. n
    <3>1. \A k \in Nat, r \in {1, 2} : k + r \in Nat /\ k + r > k /\ k + r \in 1 .. k + r
      OBVIOUS
    <3>2. Len(R) \in {1, 2}
      BY <1>5
    <3> QED BY <2>3, <3>1, <3>2, Zenon
  <2> QED BY <2>4, <2>5
<1>10. \A i \in 1 .. n : i \in Nat /\ (\/ i \in 1 .. Len(L) /\ H[i] = L[i]
                                       \/ i = n
                                       \/ ~(i \in 1 .. Len(L)) /\ H[i] = Record("start", m))
  <2>1. ASSUME NEW i \in 1 .. n, ~(i \in 1 .. Len(L)), i # n
        PROVE  H[i] = Record("start", m)
    <3>1. PICK k \in 1 .. Len(R) : i = Len(L) + k /\ H[i] = R[k]
      BY <1>7, <2>1
    <3>2. Len(R) \in {1, 2} /\ n = Len(L) + Len(R)
      BY <1>5, <1>7
    <3>3. k # Len(R)
      BY <2>1, <3>1, <3>2
    <3>4. \A r \in {1, 2} : \A x \in 1 .. r : x # r => x = 1 /\ r = 2
      OBVIOUS
    <3>5. k = 1 /\ Len(R) = 2
      BY <3>2, <3>3, <3>4, Zenon
    <3> QED BY <1>5, <3>1, <3>5
  <2>2. \A i \in 1 .. n : i \in Nat
    BY <1>9
  <2>3. \A i \in 1 .. Len(L) : H[i] = L[i]
    BY <1>7
  <2>4. ASSUME NEW i \in 1 .. n
        PROVE  \/ i \in 1 .. Len(L) /\ H[i] = L[i]
               \/ i = n
               \/ ~(i \in 1 .. Len(L)) /\ H[i] = Record("start", m)
    <3>1. CASE i \in 1 .. Len(L)
      BY <2>3, <3>1
    <3>2. CASE i = n
      BY <3>2
    <3>3. CASE ~(i \in 1 .. Len(L)) /\ i # n
      BY <2>1, <3>3
    <3> QED BY <3>1, <3>2, <3>3
  <2> QED BY <2>2, <2>4
<1>11. /\ H[n].tok = "user" /\ H[n].m = m
       /\ Record("start", m).tok = "start"
  BY <1>9 DEF Record
<1>12. InTurnOf(H, n, m)
  <2>1. IsPrompt(H[n], m)
    BY <1>11 DEF IsPrompt
  <2>2. \A k \in 1 .. n : ~(k > n)
    BY <1>9
  <2> QED BY <1>9, <2>1, <2>2 DEF InTurnOf
<1>13. TurnsIn(lh, a)
  <2>1. ASSUME NEW i \in 1 .. n, H[i].tok \in {"text", "end"}, H[i].m # 0
        PROVE  InTurnOf(H, i, H[i].m)
    <3>1. i \in 1 .. Len(L) /\ H[i] = L[i]
      BY <1>10, <1>11, <2>1
    <3>2. InTurnOf(L, i, L[i].m)
      BY <2>1, <3>1 DEF TurnsIn, F, L
    <3>3. PICK q \in 1 .. i : IsPrompt(L[q], L[i].m) /\ \A k \in 1 .. i : k > q => L[k].tok # "user"
      BY <3>2 DEF InTurnOf
    <3>4. \A k \in 1 .. i : H[k] = L[k]
      BY <1>7, <3>1
    <3> QED BY <3>1, <3>3, <3>4 DEF InTurnOf
  <2>2. a = "grok" => \A i \in 1 .. Len(lh["lifecycle"]) : lh["lifecycle"][i].tok \notin {"user", "text"}
    BY <1>5, <1>8 DEF TurnsIn
  <2> QED BY <2>1, <2>2 DEF TurnsIn, F, H, n
<1>14. PromptsOK(H, rest, typ)
  <2>1. \A i \in 1 .. n : H[i].tok = "user" => (i \in 1 .. Len(L) /\ H[i] = L[i]) \/ i = n
    BY <1>10, <1>11
  <2>2. \A i \in 1 .. Len(rest) : i + 1 \in 1 .. Len(inb) /\ i + 1 # 1 /\ rest[i] = inb[i + 1]
    BY <1>2
  <2>3. 1 \in 1 .. Len(inb)
    BY <1>2
  <2>4. \A i \in 1 .. Len(rest) : rest[i] # m
    BY <1>1, <1>2, <2>2, <2>3
  <2>5. \A i, k \in 1 .. Len(rest) : rest[i] = rest[k] => i = k
    <3> SUFFICES ASSUME NEW i \in 1 .. Len(rest), NEW k \in 1 .. Len(rest), rest[i] = rest[k]
                 PROVE  i = k
      OBVIOUS
    <3>1. i + 1 = k + 1
      BY <1>1, <2>2
    <3> QED BY <3>1
  <2>6. \A i \in 1 .. n : H[i].tok = "user" => H[i].m \in typ /\ \A k \in 1 .. Len(rest) : rest[k] # H[i].m
    <3> SUFFICES ASSUME NEW i \in 1 .. n, H[i].tok = "user"
                 PROVE  H[i].m \in typ /\ \A k \in 1 .. Len(rest) : rest[k] # H[i].m
      OBVIOUS
    <3>1. CASE i \in 1 .. Len(L) /\ H[i] = L[i]
      BY <1>1, <2>2, <3>1
    <3>2. CASE i = n
      BY <1>2, <1>11, <2>4, <3>2
    <3> QED BY <2>1, <3>1, <3>2
  <2>7. \A i, k \in 1 .. n : H[i].tok = "user" /\ H[k].tok = "user" /\ H[i].m = H[k].m => i = k
    <3>1. \A i \in 1 .. Len(L) : L[i].tok = "user" => L[i].m # m
      BY <1>1, <1>2, <2>3
    <3> QED BY <1>1, <1>11, <2>1, <3>1
  <2> QED BY <1>1, <1>2, <2>5, <2>6, <2>7 DEF PromptsOK, n
<1> QED BY <1>4, <1>6, <1>12, <1>13, <1>14 DEF recs, lh, F, H, n, m, rest

\* A write to one file.
LEMMA WrittenIs ==
  ASSUME NEW f \in AllFiles, NEW s \in Seq(LogRecord)
  PROVE  /\ [Unwritten EXCEPT ![f] = s] \in Logs
         /\ [Unwritten EXCEPT ![f] = s][f] = s
         /\ \A h \in AllFiles : h # f => [Unwritten EXCEPT ![f] = s][h] = <<>>
<1>1. [Unwritten EXCEPT ![f] = s] = [h \in AllFiles |-> IF h = f THEN s ELSE <<>>]
  BY DEF Unwritten
<1>2. <<>> \in Seq(LogRecord)
  OBVIOUS
<1>3. [h \in AllFiles |-> IF h = f THEN s ELSE <<>>] \in Logs
  BY <1>2 DEF Logs
<1> QED BY <1>1, <1>3

\* Records of the turn t that are no prompts.
TurnRecords(a, t, recs) ==
  /\ recs \in Logs
  /\ \A i \in 1 .. Len(recs[PromptFile(a)]) :
       /\ recs[PromptFile(a)][i].tok # "user"
       /\ recs[PromptFile(a)][i].tok \in {"text", "end"} => recs[PromptFile(a)][i].m \in {0, t}
  /\ a = "grok" => \A i \in 1 .. Len(recs["lifecycle"]) : recs["lifecycle"][i].tok \notin {"user", "text"}

LEMMA WorkIs ==
  ASSUME NEW a \in Adapters, NEW t \in Nat, NEW tok \in {"tool", "part", "text", "result"},
         NEW m \in Nat, tok = "text" => m = t
  PROVE  TurnRecords(a, t, [Unwritten EXCEPT ![FileOf(a, tok)] = <<Record(tok, m)>>])
<1> DEFINE r == Record(tok, m)
           s == <<r>>
           f == FileOf(a, tok)
           recs == [Unwritten EXCEPT ![f] = s]
<1>1. r \in LogRecord /\ r.tok = tok /\ r.m = m /\ tok \notin {"user", "end"}
  BY DEF Record, LogRecord, Tokens
<1> HIDE DEF r
<1>2. s \in Seq(LogRecord) /\ Len(s) = 1 /\ s[1] = r
  BY <1>1
<1>3. f \in AllFiles /\ (a = "grok" /\ f = "lifecycle" => tok \notin {"user", "text"})
  BY DEF FileOf, AllFiles
<1> HIDE DEF s, f
<1>5. recs \in Logs /\ recs[f] = s /\ \A h \in AllFiles : h # f => recs[h] = <<>>
  BY <1>2, <1>3, WrittenIs
<1>6. Len(<<>>) = 0
  BY EmptySeq
<1> HIDE DEF recs
<1>7. \A h \in AllFiles : \A i \in 1 .. Len(recs[h]) : h = f /\ recs[h][i] = r
  <2> SUFFICES ASSUME NEW h \in AllFiles, NEW i \in 1 .. Len(recs[h]) PROVE h = f /\ recs[h][i] = r
    OBVIOUS
  <2>1. h = f
    BY <1>5, <1>6
  <2>2. Len(recs[h]) = 1
    BY <1>2, <1>5, <2>1
  <2>3. i = 1
    BY <2>2
  <2> QED BY <1>2, <1>5, <2>1, <2>3
<1>8. PromptFile(a) \in AllFiles /\ "lifecycle" \in AllFiles
  BY PromptFileIs DEF AllFiles
<1> QED BY <1>1, <1>3, <1>5, <1>7, <1>8 DEF TurnRecords, recs, s, r, f

\* EndTurn: the last record closes the turn.
LEMMA ClosingIs ==
  ASSUME NEW a \in Adapters, turn \in Nat, NEW recs \in Closing(a)
  PROVE  /\ TurnRecords(a, turn, recs) /\ Len(recs[TurnFile(a)]) \in {1, 2}
         /\ recs[TurnFile(a)][Len(recs[TurnFile(a)])].tok \in Closers(a)
<1> DEFINE Ends(s) ==
             /\ s \in Seq(LogRecord) /\ Len(s) \in {1, 2} /\ s[Len(s)].tok \in Closers(a)
             /\ \A i \in 1 .. Len(s) : s[i].tok # "user" /\ s[i].m \in {0, turn}
<1>1. ASSUME NEW tok \in Closers(a), NEW m \in {0, turn}
      PROVE  Ends(<<Record(tok, m)>>)
  <2> DEFINE r == Record(tok, m)
  <2>1. r \in LogRecord /\ r.tok = tok /\ r.m = m /\ tok # "user"
    BY DEF Record, LogRecord, Tokens, Closers
  <2> HIDE DEF r
  <2>2. <<r>> \in Seq(LogRecord) /\ Len(<<r>>) = 1 /\ <<r>>[1] = r
    BY <2>1
  <2>3. \A i \in 1 .. Len(<<r>>) : <<r>>[i] = r
    BY <2>2
  <2> QED BY <2>1, <2>2, <2>3 DEF r
<1>2. ASSUME a # "grok", NEW s, Ends(s), recs = [Unwritten EXCEPT !["transcript"] = s]
      PROVE  /\ TurnRecords(a, turn, recs) /\ Len(recs[TurnFile(a)]) \in {1, 2}
             /\ recs[TurnFile(a)][Len(recs[TurnFile(a)])].tok \in Closers(a)
  <2>1. PromptFile(a) = "transcript" /\ TurnFile(a) = "transcript" /\ "transcript" \in AllFiles
    BY <1>2, PromptFileIs DEF TurnFile, AllFiles
  <2>2. recs \in Logs /\ recs["transcript"] = s
    BY <1>2, <2>1, WrittenIs
  <2> QED BY <1>2, <2>1, <2>2 DEF TurnRecords
<1>3. CASE a = "codex"
  <2>1. PICK m \in {0, turn} : recs = [Unwritten EXCEPT !["transcript"] = <<Record("end", m)>>]
    BY <1>3 DEF Closing
  <2>2. Ends(<<Record("end", m)>>)
    BY <1>1, <1>3 DEF Closers
  <2> HIDE DEF Ends
  <2> QED BY <1>2, <1>3, <2>1, <2>2
<1>4. CASE a = "claude"
  <2> DEFINE r == Record("text", turn)
             e == Record("end", turn)
             s == <<r, e>>
  <2>1. r \in LogRecord /\ e \in LogRecord /\ r.tok = "text" /\ e.tok = "end" /\ r.m = turn /\ e.m = turn
    BY DEF Record, LogRecord, Tokens
  <2>2. Ends(s)
    <3> HIDE DEF r, e
    <3>1. s \in Seq(LogRecord) /\ Len(s) = 2 /\ s[1] = r /\ s[2] = e
      BY <2>1
    <3>2. \A i \in 1 .. Len(s) : i = 1 \/ i = 2
      BY <3>1
    <3>3. "end" \in Closers(a)
      BY <1>4 DEF Closers
    <3> HIDE DEF s
    <3>4. \A i \in 1 .. Len(s) : s[i].tok # "user" /\ s[i].m \in {0, turn}
      BY <2>1, <3>1, <3>2
    <3> QED BY <2>1, <3>1, <3>3, <3>4
  <2>3. Ends(<<Record("fail", turn)>>)
    BY <1>1, <1>4 DEF Closers
  <2>4. recs = [Unwritten EXCEPT !["transcript"] = s]
        \/ recs = [Unwritten EXCEPT !["transcript"] = <<Record("fail", turn)>>]
    BY <1>4 DEF Closing
  <2> HIDE DEF Ends, s
  <2> QED BY <1>2, <1>4, <2>2, <2>3, <2>4
<1>5. CASE a \in {"gemini", "agy"}
  <2>1. PICK tok \in {"text", "fail"} : recs = [Unwritten EXCEPT !["transcript"] = <<Record(tok, turn)>>]
    BY <1>5 DEF Closing
  <2>2. Ends(<<Record(tok, turn)>>)
    BY <1>1, <1>5 DEF Closers
  <2> HIDE DEF Ends
  <2> QED BY <1>2, <1>5, <2>1, <2>2
<1>6. CASE a = "grok"
  <2> DEFINE s == <<Record("text", turn)>>
             e == <<Record("end", turn)>>
             x == <<Record("fail", turn)>>
  <2>1. PromptFile(a) = "history" /\ TurnFile(a) = "lifecycle" /\ "history" \in AllFiles /\ "lifecycle" \in AllFiles
    BY <1>6, PromptFileIs DEF TurnFile, AllFiles
  <2>2. Ends(e) /\ Ends(x)
    BY <1>1, <1>6 DEF Closers
  <2>3. /\ Record("text", turn).tok = "text" /\ Record("text", turn).m = turn
        /\ Record("end", turn).tok = "end" /\ Record("fail", turn).tok = "fail"
        /\ Record("text", turn) \in LogRecord
    BY DEF Record, LogRecord, Tokens
  <2>4. /\ s \in Seq(LogRecord) /\ \A i \in 1 .. Len(s) : s[i].tok # "user" /\ s[i].m \in {0, turn}
        /\ \A i \in 1 .. Len(e) : e[i].tok \notin {"user", "text"}
        /\ \A i \in 1 .. Len(x) : x[i].tok \notin {"user", "text"}
    BY <2>3
  <2>5. recs = [Unwritten EXCEPT !["history"] = s, !["lifecycle"] = e]
        \/ recs = [Unwritten EXCEPT !["lifecycle"] = x]
    BY <1>6 DEF Closing
  <2> HIDE DEF s, e, x
  <2>8. e \in Seq(LogRecord) /\ x \in Seq(LogRecord) /\ "history" # "lifecycle"
    BY <2>2
  <2>9. s \in Seq(LogRecord) /\ "history" \in AllFiles /\ "lifecycle" \in AllFiles
    BY <2>1, <2>4
  <2>6. CASE recs = [Unwritten EXCEPT !["history"] = s, !["lifecycle"] = e]
    <3>1. recs \in Logs /\ recs["history"] = s /\ recs["lifecycle"] = e
      <4> DEFINE w == [Unwritten EXCEPT !["history"] = s, !["lifecycle"] = e]
      <4>1. w \in Logs /\ w["history"] = s /\ w["lifecycle"] = e
        <5>1. w = [h \in AllFiles |-> IF h = "lifecycle" THEN e ELSE IF h = "history" THEN s ELSE <<>>]
          BY DEF Unwritten
        <5>2. <<>> \in Seq(LogRecord)
          OBVIOUS
        <5> QED BY <2>8, <2>9, <5>1, <5>2 DEF Logs
      <4> HIDE DEF w
      <4> QED BY <2>6, <4>1 DEF w
    <3> QED BY <2>1, <2>2, <2>4, <3>1 DEF TurnRecords
  <2>7. CASE recs = [Unwritten EXCEPT !["lifecycle"] = x]
    <3>1. recs \in Logs /\ recs["lifecycle"] = x /\ recs["history"] = <<>>
      <4> DEFINE w == [Unwritten EXCEPT !["lifecycle"] = x]
      <4>1. w \in Logs /\ w["lifecycle"] = x /\ w["history"] = <<>>
        BY <2>1, <2>8, WrittenIs
      <4> HIDE DEF w
      <4> QED BY <2>7, <4>1 DEF w
    <3>2. \A i \in 1 .. Len(recs["history"]) : FALSE
      <4>1. Len(<<>>) = 0
        BY EmptySeq
      <4> QED BY <3>1, <4>1
    <3> QED BY <2>1, <2>2, <2>4, <3>1, <3>2 DEF TurnRecords
  <2> QED BY <2>5, <2>6, <2>7
<1> QED BY <1>3, <1>4, <1>5, <1>6 DEF Adapters

-----------------------------------------------------------------------------
(* Answers and the log they were taken from.                               *)

\* since is a place in the log.
SinceOK(lg, s) ==
  \/ s = Never
  \/ s \in [AllFiles -> Nat] /\ \A f \in AllFiles : s[f] <= Len(lg[f])

\* The messages whose text contains that of another one: H below.
Hits == [m \in Nat |-> Containing(m)]

\* x answers question q: one of the jobs js read so in L, file f of the log.
Answers(L, f, H, js, q, x) ==
  \E i \in 1 .. Len(js) : js[i].m = q /\ Follows(L, js[i].start[f], H[q], x)

\* Every answer in the journal j was read so.
Answered(j, L, f, H, js) ==
  \A r \in Messages(j) :
    j[r].from = "w" /\ j[r].key # <<>> => Answers(L, f, H, js, j[r].re, j[r].text)

SendOK(lg, a, H, s) ==
  /\ s = [n |-> s.n, m |-> s.m, sender |-> s.sender, scan |-> s.scan, typed |-> s.typed]
  /\ s.m \in Nat \ {0}
  /\ ScanOK(lg, PromptFile(a), s.scan.off[PromptFile(a)], H[s.m], s.scan)

JobOK(lg, a, H, job) ==
  /\ job = [m |-> job.m, sender |-> job.sender, state |-> job.state, scan |-> job.scan,
            start |-> job.start]
  /\ job.m \in Nat
  /\ ScanOK(lg, PromptFile(a), job.start[PromptFile(a)], H[job.m], job.scan)

JobsOK(lg, a, H, js) == IsSequence(js) /\ \A i \in 1 .. Len(js) : JobOK(lg, a, H, js[i])

\* js is jt with its scans and states, and more jobs behind.
JobsGrow(js, jt) ==
  \A i \in 1 .. Len(js) : i \in 1 .. Len(jt) /\ jt[i].m = js[i].m /\ jt[i].start = js[i].start

JournalGrows(j, k) == \A m \in Messages(j) : m \in Messages(k) /\ k[m] = j[m]

BatchOK(b, js) == \A n \in 1 .. Len(b) : b[n].i \in 1 .. Len(js)

\* The provider and its log: each prompt is taken once, a record with an answer
\* stands in the turn it belongs to, a turn that is over was closed.
ProviderInv ==
  /\ setup \in Setups /\ log \in Logs /\ turn \in Nat /\ SinceOK(log, since)
  /\ PromptsOK(log[PromptFile(setup.adapter)], inbox, typed)
  /\ TurnsIn(log, setup.adapter)
  /\ turn # 0 => InTurnOf(log[PromptFile(setup.adapter)], Len(log[PromptFile(setup.adapter)]), turn)
  /\ turn = 0 /\ alive => ClosedBy(log[TurnFile(setup.adapter)], setup.adapter)

\* What Rooms remembers of the log, in requests, jobs and messages.
AnswerInv ==
  /\ \A s \in sends : SendOK(log, setup.adapter, Hits, s)
  /\ JobsOK(log, setup.adapter, Hits, jobs) /\ BatchOK(batch, jobs)
  /\ Answered(entries, log[PromptFile(setup.adapter)], PromptFile(setup.adapter), Hits, jobs)

LEMMA NewChangeAnswers ==
  ASSUME NEW j, IsSequence(j), NEW L, NEW f, NEW H, NEW js, Answered(j, L, f, H, js), NEW e,
         e.kind = "sent" /\ e.from = "w" /\ e.key # <<>> => Answers(L, f, H, js, e.re, e.text)
  PROVE  Answered(Append(j, e), L, f, H, js) /\ JournalGrows(j, Append(j, e))
<1> DEFINE t == Append(j, e)
           n == Len(j)
<1>1. n \in Nat /\ Len(t) = n + 1 /\ t[n + 1] = e /\ \A i \in 1 .. n : t[i] = j[i]
  BY SequenceGrows
<1> HIDE DEF t, n
<1>2. \A i \in 1 .. n + 1 : i \in 1 .. n \/ i = n + 1
  BY <1>1
<1>3. \A m \in Messages(t) : (m \in Messages(j) /\ t[m] = j[m]) \/ (t[m] = e /\ e.kind = "sent")
  BY <1>1, <1>2 DEF Messages, CursorsOf, n
<1>4. ASSUME NEW r \in Messages(t), t[r].from = "w", t[r].key # <<>>
      PROVE  Answers(L, f, H, js, t[r].re, t[r].text)
  BY <1>3, <1>4 DEF Answered
<1>5. JournalGrows(j, t)
  BY <1>1 DEF JournalGrows, Messages, CursorsOf, n
<1> QED BY <1>4, <1>5 DEF Answered, t

LEMMA CommitAnswers ==
  ASSUME NEW j, IsSequence(j), NEW L, NEW f, NEW H, NEW js, Answered(j, L, f, H, js),
         NEW from, NEW to, NEW direct, NEW re, NEW key, NEW text,
         from = "w" /\ key # <<>> => Answers(L, f, H, js, re, text)
  PROVE  LET k == CommittedJournal(j, from, to, direct, re, key, text)
         IN Answered(k, L, f, H, js) /\ JournalGrows(j, k)
<1> DEFINE e == SentChange(from, to, direct, re, RootOfReply(j, re), key, text)
<1>1. e.from = from /\ e.key = key /\ e.re = re /\ e.text = text
  BY DEF SentChange
<1> HIDE DEF e
<1>2. Answered(Append(j, e), L, f, H, js) /\ JournalGrows(j, Append(j, e))
  BY <1>1, NewChangeAnswers
<1> QED BY <1>2 DEF CommittedJournal, JournalGrows, e

LEMMA OtherChangesAnswer ==
  ASSUME NEW j, IsSequence(j), NEW L, NEW f, NEW H, NEW js, Answered(j, L, f, H, js),
         NEW m, NEW state, NEW from, NEW asked
  PROVE  \A k \in {AppendMessageDelivery(j, m, state), SetThreadState(j, m, state),
                    CommitControl(j, from, asked)} :
           Answered(k, L, f, H, js) /\ JournalGrows(j, k)
<1> DEFINE d == DeliveryChange(m, state)
           h == ThreadChange(m, state)
           c == ControlChange(from, asked)
<1>1. d.kind # "sent" /\ h.kind # "sent" /\ c.kind # "sent"
  BY DEF DeliveryChange, ThreadChange, ControlChange
<1> HIDE DEF d, h, c
<1>2. \A k \in {Append(j, d), Append(j, h), Append(j, c)} :
        Answered(k, L, f, H, js) /\ JournalGrows(j, k)
  BY <1>1, NewChangeAnswers
<1>3. JournalGrows(j, j)
  BY DEF JournalGrows
<1> QED BY <1>2, <1>3 DEF AppendMessageDelivery, SetThreadState, CommitControl, d, h, c

LEMMA CommittedMessageIs ==
  ASSUME NEW j, IsSequence(j), NEW key
  PROVE  CommittedMessage(j, key) \in Nat \ {0}
<1> DEFINE hits == {m \in Messages(j) : j[m].key = key}
<1>1. Len(j) \in Nat /\ hits \in SUBSET (1 .. Len(j))
  BY SequenceGrows DEF Messages, CursorsOf
<1>2. hits # {} => Min(hits) \in 1 .. Len(j)
  BY <1>1, EndsOf
<1>3. MessageWithKey(j, key) = 0 \/ (hits # {} /\ MessageWithKey(j, key) = Min(hits))
  BY DEF MessageWithKey
<1> HIDE DEF hits
<1> QED BY <1>1, <1>2, <1>3 DEF CommittedMessage

\* A text that is contained in another one stays so while the journal grows.
LEMMA HitsGrow ==
  ASSUME JournalGrows(entries, entries'), setup' = setup
  PROVE  \A m \in Nat : Hits[m] \subseteq Hits'[m]
<1> SUFFICES ASSUME NEW m \in Nat PROVE Containing(m) \subseteq Containing(m)'
  BY DEF Hits
<1> SUFFICES ASSUME NEW n \in Containing(m), n # m PROVE n \in Containing(m)'
  BY DEF Containing
<1>1. /\ n \in Messages(entries) /\ m \in Messages(entries)
      /\ \E pair \in setup.contains :
           entries[n].key = <<"client", pair[1]>> /\ entries[m].key = <<"client", pair[2]>>
  BY DEF Containing
<1>2. /\ n \in Messages(entries') /\ m \in Messages(entries')
      /\ entries'[n] = entries[n] /\ entries'[m] = entries[m]
  BY <1>1 DEF JournalGrows
<1> QED BY <1>1, <1>2 DEF Containing

LEMMA AnsweredByMore ==
  ASSUME NEW j, NEW L, NEW f, NEW H, NEW js, NEW jt, Answered(j, L, f, H, js), JobsGrow(js, jt)
  PROVE  Answered(j, L, f, H, jt)
BY DEF Answered, Answers, JobsGrow

\* What was read of the log and answered stays true while the log and the
\* journal grow.
LEMMA AnswersGrow ==
  ASSUME ProviderInv, log' \in Logs, LogGrows(log, log'), setup' = setup,
         JournalGrows(entries, entries'),
         \A s \in sends' : SendOK(log, setup.adapter, Hits, s),
         JobsOK(log, setup.adapter, Hits, jobs'), BatchOK(batch', jobs'),
         Answered(entries', log[PromptFile(setup.adapter)], PromptFile(setup.adapter), Hits, jobs')
  PROVE  AnswerInv'
<1> DEFINE a == setup.adapter
           F == PromptFile(a)
           H == Hits
           K == Hits'
           lg == log
           lh == log'
           js == jobs'
           j == entries'
<1>1. a \in Adapters /\ lg \in Logs /\ lh \in Logs /\ LogGrows(lg, lh)
  BY ConversationAssumption DEF ProviderInv
<1>2. F \in AllFiles
  BY <1>1, PromptFileIs
<1>3. \A m \in Nat : H[m] \subseteq K[m]
  BY HitsGrow
<1>4. /\ \A s \in sends' : SendOK(lg, a, H, s)
      /\ JobsOK(lg, a, H, js) /\ BatchOK(batch', js) /\ Answered(j, lg[F], F, H, js)
  OBVIOUS
<1> HIDE DEF H, K, lg, lh, js, j, a, F
<1>5. \A m \in Nat : \A b, s : ScanOK(lg, F, b, H[m], s) => ScanOK(lh, F, b, K[m], s)
  BY <1>1, <1>2, <1>3, ScanGrows
<1>6. \A b \in Nat : \A X, Y, x : X \subseteq Y /\ Follows(lg[F], b, X, x) => Follows(lh[F], b, Y, x)
  BY <1>1, <1>2, FollowsGrows
<1>7. \A s \in sends' : SendOK(lh, a, K, s)
  BY <1>4, <1>5 DEF SendOK, F
<1>8. JobsOK(lh, a, K, js)
  BY <1>4, <1>5 DEF JobsOK, JobOK, F
<1>9. Answered(j, lh[F], F, K, js)
  <2>1. ASSUME NEW i \in 1 .. Len(js), NEW x, Follows(lg[F], js[i].start[F], H[js[i].m], x)
        PROVE  Follows(lh[F], js[i].start[F], K[js[i].m], x)
    <3>1. js[i].m \in Nat /\ js[i].start[F] \in Nat
      BY <1>4 DEF JobsOK, JobOK, ScanOK, F
    <3>2. H[js[i].m] \subseteq K[js[i].m]
      BY <1>3, <3>1
    <3> QED BY <1>6, <2>1, <3>1, <3>2, Zenon
  <2> QED BY <1>4, <2>1 DEF Answered, Answers
<1> QED BY <1>4, <1>7, <1>8, <1>9 DEF AnswerInv, H, K, lg, lh, js, j, a, F

LEMMA NothingGrows ==
  /\ \A lg \in Logs : LogGrows(lg, lg)
  /\ \A j : JournalGrows(j, j)
  /\ \A js : JobsGrow(js, js)
BY LogsAre DEF LogGrows, JournalGrows, JobsGrow

\* The journal and what waits for answers, with the log as it is.
LEMMA JournalMoves ==
  ASSUME ProviderInv, UNCHANGED <<setup, log>>, JournalGrows(entries, entries'),
         \A s \in sends' : SendOK(log, setup.adapter, Hits, s),
         JobsOK(log, setup.adapter, Hits, jobs'), BatchOK(batch', jobs'),
         Answered(entries', log[PromptFile(setup.adapter)], PromptFile(setup.adapter), Hits, jobs')
  PROVE  AnswerInv'
BY AnswersGrow, NothingGrows DEF ProviderInv

LEMMA SinceGrows ==
  ASSUME NEW lg \in Logs, NEW lh \in Logs, LogGrows(lg, lh), NEW s, SinceOK(lg, s)
  PROVE  SinceOK(lh, s)
<1>1. \A f \in AllFiles : Len(lg[f]) \in Nat /\ Len(lh[f]) \in Nat /\ Len(lg[f]) <= Len(lh[f])
  BY LogsAre DEF LogGrows
<1> QED BY <1>1 DEF SinceOK

LEMMA ProviderUntouched ==
  ASSUME ProviderInv, UNCHANGED <<setup, log, inbox, typed, turn, since>>, alive' => alive
  PROVE  ProviderInv'
BY DEF ProviderInv

LEMMA TakeInputAnswers ==
  ASSUME ProviderInv, AnswerInv, TakeInput
  PROVE  ProviderInv' /\ AnswerInv'
<1> DEFINE a == setup.adapter
           lh == Joined(log, Opening(a, Head(inbox)))
           F == PromptFile(a)
<1>1. a \in Adapters /\ log \in Logs /\ setup' = setup /\ inbox # <<>>
  BY ConversationAssumption DEF ProviderInv, TakeInput
<1>2. log' = lh /\ turn' = Head(inbox) /\ inbox' = Tail(inbox) /\ UNCHANGED <<typed, since>>
  BY DEF TakeInput, Write, Joined
<1>3. /\ Head(inbox) \in Nat \ {0} /\ lh \in Logs /\ LogGrows(log, lh) /\ TurnsIn(lh, a)
      /\ InTurnOf(lh[F], Len(lh[F]), Head(inbox)) /\ PromptsOK(lh[F], Tail(inbox), typed)
  BY <1>1, OpeningKeeps DEF ProviderInv
<1>4. SinceOK(lh, since)
  BY <1>1, <1>3, SinceGrows DEF ProviderInv
<1> HIDE DEF lh
<1>5. ProviderInv'
  BY <1>1, <1>2, <1>3, <1>4 DEF ProviderInv
<1>6. UNCHANGED <<setup, entries, sends, jobs, batch>>
  BY DEF TakeInput, bridgeVars
<1>7. AnswerInv'
  BY <1>2, <1>3, <1>6, AnswersGrow, NothingGrows DEF AnswerInv
<1> QED BY <1>5, <1>7

LEMMA RecordsAnswer ==
  ASSUME ProviderInv, AnswerInv, turn # 0, NEW recs, TurnRecords(setup.adapter, turn, recs), Write(recs),
         UNCHANGED <<setup, entries, inbox, typed, since, sends, bridgeVars>>,
         \/ turn' = turn
         \/ /\ turn' = 0 /\ Len(recs[TurnFile(setup.adapter)]) \in {1, 2}
            /\ recs[TurnFile(setup.adapter)][Len(recs[TurnFile(setup.adapter)])].tok
                 \in Closers(setup.adapter)
  PROVE  ProviderInv' /\ AnswerInv'
<1> DEFINE a == setup.adapter
           lh == Joined(log, recs)
           F == PromptFile(a)
           T == TurnFile(a)
<1>1. a \in Adapters /\ log \in Logs /\ setup' = setup /\ recs \in Logs /\ log' = lh
  BY ConversationAssumption DEF ProviderInv, TurnRecords, Write, Joined
<1>2. /\ TurnsIn(lh, a) /\ InTurnOf(lh[F], Len(lh[F]), turn) /\ PromptsOK(lh[F], inbox, typed)
  BY <1>1, RecordsOfTurnKeep DEF ProviderInv, TurnRecords
<1>3. lh \in Logs /\ LogGrows(log, lh)
  BY <1>1, JoinedIs
<1>4. turn' = 0 => ClosedBy(lh[T], a)
  <2> SUFFICES ASSUME turn' = 0 PROVE ClosedBy(lh[T], a)
    OBVIOUS
  <2>1. T \in AllFiles
    BY DEF TurnFile, AllFiles
  <2>2. Len(recs[T]) \in {1, 2} /\ recs[T][Len(recs[T])].tok \in Closers(a)
    OBVIOUS
  <2>3. /\ Len(lh[T]) = Len(log[T]) + Len(recs[T])
        /\ \A i \in 1 .. Len(recs[T]) : lh[T][Len(log[T]) + i] = recs[T][i]
    BY <1>1, <2>1, JoinedIs, Zenon
  <2>4. Len(recs[T]) \in 1 .. Len(recs[T])
    <3>1. \A n \in {1, 2} : n \in 1 .. n
      OBVIOUS
    <3> QED BY <2>2, <3>1, Zenon
  <2>5. lh[T][Len(lh[T])] = recs[T][Len(recs[T])]
    BY <2>3, <2>4, Zenon
  <2> QED BY <2>2, <2>5 DEF ClosedBy
<1>5. SinceOK(lh, since)
  BY <1>1, <1>3, SinceGrows DEF ProviderInv
<1> HIDE DEF lh
<1>6. ProviderInv'
  <2>1. turn' \in Nat /\ (turn' # 0 => turn' = turn)
    BY DEF ProviderInv
  <2> QED BY <1>1, <1>2, <1>3, <1>4, <1>5, <2>1 DEF ProviderInv
<1>7. UNCHANGED <<setup, entries, sends, jobs, batch>>
  BY DEF bridgeVars
<1>8. AnswerInv'
  BY <1>1, <1>3, <1>7, AnswersGrow, NothingGrows DEF AnswerInv
<1> QED BY <1>6, <1>8

\* send and its retries.
LEMMA SendAnswers ==
  ASSUME ConversationInv, ProviderInv, AnswerInv,
         \/ \E k \in Keys : SendCommit(k)
         \/ \E s \in sends : HostTypes(s)
         \/ \E s \in sends, o \in {"accepted", "uncertain", "failed"} : SendRecord(s, o)
  PROVE  ProviderInv' /\ AnswerInv'
<1> DEFINE a == setup.adapter
           F == PromptFile(a)
<1>1. /\ IsSequence(entries) /\ IsSequence(jobs) /\ IsSequence(batch)
      /\ a \in Adapters /\ log \in Logs /\ setup.asker \in {"op", "lead"} /\ F \in AllFiles
  BY ConversationAssumption, PromptFileIs DEF ConversationInv, JournalOK, ProviderInv
<1>2. ASSUME NEW k \in Keys, SendCommit(k)
      PROVE  ProviderInv' /\ AnswerInv'
  <2> DEFINE key == <<"client", k>>
             m == CommittedMessage(entries, key)
             new == [n |-> counts.sends, m |-> m, sender |-> setup.asker, scan |-> ScanStart(log),
                     typed |-> FALSE]
  <2>1. /\ entries' = CommittedJournal(entries, setup.asker, {"w"}, TRUE, 0, key, 0)
        /\ sends' = sends \union {new}
        /\ UNCHANGED <<setup, log, inbox, typed, turn, since, jobs, batch, alive>>
    BY <1>2 DEF SendCommit, providerVars, bridgeVars, worldVars
  <2>2. m \in Nat \ {0}
    BY <1>1, CommittedMessageIs
  <2>3. ScanOK(log, F, ScanStart(log).off[F], Hits[m], ScanStart(log))
    BY <1>1, ScanStartIs
  <2>4. SendOK(log, a, Hits, new)
    BY <2>2, <2>3 DEF SendOK
  <2> HIDE DEF key, new
  <2>5. Answered(entries', log[F], F, Hits, jobs) /\ JournalGrows(entries, entries')
    BY <1>1, <2>1, CommitAnswers DEF AnswerInv
  <2>6. \A s \in sends' : SendOK(log, a, Hits, s)
    BY <2>1, <2>4 DEF AnswerInv
  <2>7. ProviderInv'
    BY <2>1, ProviderUntouched
  <2> QED BY <2>1, <2>5, <2>6, <2>7, JournalMoves DEF AnswerInv
<1>3. ASSUME NEW s \in sends, HostTypes(s)
      PROVE  ProviderInv' /\ AnswerInv'
  <2> DEFINE L == log[F]
             new == [s EXCEPT !.typed = TRUE]
  <2>1. /\ sends' = (sends \ {s}) \union {new}
        /\ typed' = typed \union {s.m}
        /\ inbox' = IF s.m \in typed THEN inbox ELSE Append(inbox, s.m)
        /\ UNCHANGED <<setup, entries, log, turn, since, jobs, batch, alive>>
    BY <1>3 DEF HostTypes, bridgeVars, worldVars
  <2>2. SendOK(log, a, Hits, s)
    BY DEF AnswerInv
  <2>3. SendOK(log, a, Hits, new)
    <3>1. new = [n |-> s.n, m |-> s.m, sender |-> s.sender, scan |-> s.scan, typed |-> TRUE]
      <4> DEFINE old == [n |-> s.n, m |-> s.m, sender |-> s.sender, scan |-> s.scan, typed |-> s.typed]
      <4>1. s = old
        BY <2>2 DEF SendOK
      <4>2. \A x : [old EXCEPT !.typed = x]
                    = [n |-> s.n, m |-> s.m, sender |-> s.sender, scan |-> s.scan, typed |-> x]
        OBVIOUS
      <4> HIDE DEF old
      <4> QED BY <4>1, <4>2
    <3> HIDE DEF new
    <3> QED BY <2>2, <3>1 DEF SendOK
  <2> HIDE DEF new
  <2>4. AnswerInv'
    BY <2>1, <2>3, JournalMoves, NothingGrows DEF AnswerInv
  <2>5. PromptsOK(L, inbox, typed)
    BY DEF ProviderInv
  <2>6. PromptsOK(L, inbox', typed')
    <3>1. typed' \in SUBSET (Nat \ {0}) /\ typed \subseteq typed'
      BY <2>1, <2>2, <2>5 DEF PromptsOK, SendOK
    <3>2. CASE s.m \in typed
      BY <2>1, <2>5, <3>2 DEF PromptsOK
    <3>3. CASE s.m \notin typed
      <4> DEFINE n == Len(inbox)
                 b == Append(inbox, s.m)
      <4>1. inbox \in Seq(typed') /\ s.m \in typed' /\ inbox \in Seq(typed)
        BY <2>1, <2>5, <3>1, SeqMonotonic DEF PromptsOK
      <4>2. n \in Nat /\ \A i \in 1 .. n : inbox[i] \in typed
        BY <4>1, LenProperties, ElementOfSeq
      <4>3. b \in Seq(typed') /\ Len(b) = n + 1 /\ b[n + 1] = s.m /\ \A i \in 1 .. n : b[i] = inbox[i]
        BY <4>1, <4>2, AppendProperties
      <4> HIDE DEF b, n
      <4>4. \A i \in 1 .. n + 1 : i \in 1 .. n \/ i = n + 1
        BY <4>2
      <4>5. \A i, k \in 1 .. n : inbox[i] = inbox[k] => i = k
        BY <2>5 DEF PromptsOK, n
      <4>6. \A i \in 1 .. n : b[i] = inbox[i] /\ b[i] # s.m
        BY <3>3, <4>2, <4>3
      <4>7. \A i, k \in 1 .. n + 1 : b[i] = b[k] => i = k
        BY <4>3, <4>4, <4>5, <4>6
      <4>8. \A i \in 1 .. Len(L) :
              L[i].tok = "user" => L[i].m \in typed' /\ \A k \in 1 .. n + 1 : b[k] # L[i].m
        <5>1. \A i \in 1 .. Len(L) :
                L[i].tok = "user" => L[i].m \in typed /\ \A k \in 1 .. n : inbox[k] # L[i].m
          BY <2>5 DEF PromptsOK, n
        <5> QED BY <3>1, <3>3, <4>3, <4>4, <4>6, <5>1
      <4>9. inbox' = b
        BY <2>1, <3>3 DEF b
      <4> QED BY <2>5, <3>1, <4>3, <4>7, <4>8, <4>9 DEF PromptsOK
    <3> QED BY <3>2, <3>3
  <2>7. ProviderInv'
    BY <2>1, <2>6 DEF ProviderInv
  <2> QED BY <2>4, <2>7
<1>4. ASSUME NEW s \in sends, NEW o \in {"accepted", "uncertain", "failed"}, SendRecord(s, o)
      PROVE  ProviderInv' /\ AnswerInv'
  <2>1. /\ sends' = sends \ {s}
        /\ \E st : entries' = AppendMessageDelivery(entries, s.m, st)
        /\ since' = IF o = "accepted" THEN Lengths ELSE since
        /\ Enqueue(s) \/ UNCHANGED bridgeVars
        /\ UNCHANGED <<setup, log, inbox, turn, typed, alive>>
    BY <1>4 DEF SendRecord, providerVars, worldVars
  <2>2. SinceOK(log, Lengths)
    BY <1>1, LogsAre DEF Lengths, SinceOK
  <2>3. ProviderInv'
    BY <2>1, <2>2 DEF ProviderInv
  <2>4. Answered(entries', log[F], F, Hits, jobs) /\ JournalGrows(entries, entries')
    BY <1>1, <2>1, OtherChangesAnswer DEF AnswerInv
  <2>5. JobsOK(log, a, Hits, jobs') /\ BatchOK(batch', jobs') /\ JobsGrow(jobs, jobs')
    <3>1. CASE UNCHANGED bridgeVars
      BY <3>1, NothingGrows DEF bridgeVars, AnswerInv
    <3>2. CASE Enqueue(s)
      <4> DEFINE new == NewJob(s)
      <4>1. (jobs' = jobs \/ jobs' = Append(jobs, new)) /\ batch' = batch
        BY <3>2 DEF Enqueue
      <4>2. JobOK(log, a, Hits, new)
        BY DEF AnswerInv, SendOK, JobOK, NewJob
      <4> HIDE DEF new
      <4>3. CASE jobs' = jobs
        BY <4>1, <4>3, NothingGrows DEF AnswerInv
      <4>4. CASE jobs' = Append(jobs, new)
        <5>1. /\ IsSequence(jobs') /\ Len(jobs) \in Nat /\ Len(jobs') = Len(jobs) + 1
              /\ jobs'[Len(jobs) + 1] = new /\ \A i \in 1 .. Len(jobs) : jobs'[i] = jobs[i]
          BY <1>1, <4>4, SequenceGrows
        <5>2. \A i \in 1 .. Len(jobs') : i \in 1 .. Len(jobs) \/ i = Len(jobs) + 1
          BY <5>1
        <5>3. \A i \in 1 .. Len(jobs) : i \in 1 .. Len(jobs')
          BY <5>1
        <5>4. \A i \in 1 .. Len(jobs') : JobOK(log, a, Hits, jobs'[i])
          BY <4>2, <5>1, <5>2 DEF AnswerInv, JobsOK
        <5>5. JobsGrow(jobs, jobs')
          BY <5>1, <5>3 DEF JobsGrow
        <5> QED BY <4>1, <5>1, <5>3, <5>4, <5>5 DEF AnswerInv, JobsOK, BatchOK
      <4> QED BY <4>1, <4>3, <4>4
    <3> QED BY <2>1, <3>1, <3>2
  <2>6. Answered(entries', log[F], F, Hits, jobs')
    BY <2>4, <2>5, AnsweredByMore
  <2> QED BY <2>1, <2>3, <2>4, <2>5, <2>6, JournalMoves DEF AnswerInv
<1> QED BY <1>2, <1>3, <1>4

\* The provider, the clients and the daemon besides the bridge.
LEMMA AroundAnswers ==
  ASSUME ConversationInv, ProviderInv, AnswerInv,
         \/ TakeInput
         \/ \E tok \in {"tool", "part", "text"} : Work(tok)
         \/ \E n \in Messages(entries) : Quote(n)
         \/ \E recs \in Closing(setup.adapter) : EndTurn(recs)
         \/ \E to \in {{"op"}, {"lead"}, {"op", "lead"}},
              re \in {0} \union Messages(entries) : OwnMessage(to, re)
         \/ \E m \in Messages(entries), st \in {"open", "resolved"} : SetThread(m, st)
         \/ \E from \in {"op", "lead"}, k \in Keys : Control(from, k)
         \/ LeadMoves
         \/ WorkerEnds
         \/ CloseChannel
         \/ DaemonDies
         \/ Restart
  PROVE  ProviderInv' /\ AnswerInv'
<1> DEFINE a == setup.adapter
           F == PromptFile(a)
<1>1. IsSequence(entries) /\ a \in Adapters /\ turn \in Nat
  BY ConversationAssumption DEF ConversationInv, JournalOK, ProviderInv
<1>2. ASSUME NEW tok \in {"tool", "part", "text"}, Work(tok)
      PROVE  ProviderInv' /\ AnswerInv'
  <2> DEFINE recs == [Unwritten EXCEPT ![FileOf(a, tok)] = <<Record(tok, turn)>>]
  <2>1. TurnRecords(a, turn, recs)
    BY <1>1, WorkIs
  <2>2. turn # 0 /\ Write(recs)
        /\ UNCHANGED <<setup, entries, inbox, typed, turn, since, sends, bridgeVars>>
    BY <1>2 DEF Work
  <2> HIDE DEF recs
  <2> QED BY <2>1, <2>2, RecordsAnswer
<1>3. ASSUME NEW recs \in Closing(a), EndTurn(recs)
      PROVE  ProviderInv' /\ AnswerInv'
  BY <1>1, <1>3, ClosingIs, RecordsAnswer DEF EndTurn
<1>11. ASSUME NEW n \in Messages(entries), Quote(n)
       PROVE  ProviderInv' /\ AnswerInv'
  <2> DEFINE recs == [Unwritten EXCEPT !["transcript"] = <<Record("result", n)>>]
  <2>1. a = "claude" /\ n \in Nat
    BY <1>1, <1>11, SequenceGrows DEF Quote, Messages, CursorsOf
  <2>2. FileOf(a, "result") = "transcript"
    BY <2>1 DEF FileOf
  <2>3. TurnRecords(a, turn, recs)
    BY <1>1, <2>1, <2>2, WorkIs
  <2>4. turn # 0 /\ Write(recs)
        /\ UNCHANGED <<setup, entries, inbox, typed, turn, since, sends, bridgeVars>>
    BY <1>11 DEF Quote
  <2> HIDE DEF recs
  <2> QED BY <2>3, <2>4, RecordsAnswer
<1>4. ASSUME Answered(entries', log[F], F, Hits, jobs), JournalGrows(entries, entries'),
             UNCHANGED <<setup, log, inbox, typed, turn, since, sends, jobs, batch, alive>>
      PROVE  ProviderInv' /\ AnswerInv'
  BY <1>4, ProviderUntouched, JournalMoves DEF AnswerInv
<1>5. ASSUME NEW to, NEW re, OwnMessage(to, re)
      PROVE  ProviderInv' /\ AnswerInv'
  <2>1. entries' = CommittedJournal(entries, "w", to, Cardinality(to) = 1, re, <<>>, 0)
    BY <1>5 DEF OwnMessage
  <2>2. Answered(entries', log[F], F, Hits, jobs) /\ JournalGrows(entries, entries')
    BY <1>1, <2>1, CommitAnswers DEF AnswerInv
  <2> QED BY <1>4, <1>5, <2>2 DEF OwnMessage, providerVars, bridgeVars, worldVars
<1>6. ASSUME NEW m, NEW st, SetThread(m, st)
      PROVE  ProviderInv' /\ AnswerInv'
  <2>1. Answered(entries', log[F], F, Hits, jobs) /\ JournalGrows(entries, entries')
    BY <1>1, <1>6, OtherChangesAnswer DEF SetThread, AnswerInv
  <2> QED BY <1>4, <1>6, <2>1 DEF SetThread, providerVars, bridgeVars, worldVars
<1>7. ASSUME NEW from, NEW k, Control(from, k)
      PROVE  ProviderInv' /\ AnswerInv'
  <2>1. Answered(entries', log[F], F, Hits, jobs) /\ JournalGrows(entries, entries')
    BY <1>1, <1>7, OtherChangesAnswer DEF Control, AnswerInv
  <2> QED BY <1>4, <1>7, <2>1 DEF Control, providerVars, bridgeVars, worldVars
<1>8. CASE LeadMoves \/ CloseChannel \/ Restart
  <2>1. UNCHANGED <<setup, entries, log, inbox, typed, turn, since, sends, jobs, batch, alive>>
    BY <1>8 DEF LeadMoves, CloseChannel, Restart, providerVars, bridgeVars
  <2> QED BY <1>4, <2>1, NothingGrows DEF AnswerInv
<1>9. CASE WorkerEnds
  <2>1. UNCHANGED <<setup, entries, log, typed, since, sends, jobs, batch>> /\ inbox' = <<>> /\ turn' = 0 /\ ~alive'
    BY <1>9 DEF WorkerEnds, bridgeVars
  <2>2. PromptsOK(log[F], <<>>, typed)
    <3>1. Len(<<>>) = 0 /\ <<>> \in Seq(typed)
      BY EmptySeq
    <3> QED BY <3>1 DEF ProviderInv, PromptsOK
  <2>3. ProviderInv'
    BY <1>1, <2>1, <2>2 DEF ProviderInv
  <2> QED BY <2>1, <2>3, JournalMoves, NothingGrows DEF AnswerInv
<1>10. CASE DaemonDies
  <2>1. UNCHANGED <<setup, entries, log, inbox, typed, turn, since, jobs, alive>> /\ sends' = {} /\ batch' = <<>>
    BY <1>10 DEF DaemonDies, providerVars
  <2>2. BatchOK(<<>>, jobs)
    BY EmptySeq DEF BatchOK
  <2>3. ProviderInv'
    BY <2>1, ProviderUntouched
  <2> QED BY <2>1, <2>2, <2>3, JournalMoves, NothingGrows DEF AnswerInv
<1> QED BY <1>2, <1>3, <1>5, <1>6, <1>7, <1>8, <1>9, <1>10, <1>11, TakeInputAnswers

\* The rest of the batch names jobs.
LEMMA RestOfBatch ==
  ASSUME IsSequence(batch), batch # <<>>, NEW js, BatchOK(batch, js)
  PROVE  BatchOK(Tail(batch), js) /\ Head(batch).i \in 1 .. Len(js)
<1> DEFINE S == {batch[i] : i \in 1 .. Len(batch)}
           t == Tail(batch)
<1>1. batch \in Seq(S)
  BY DEF IsSequence
<1> HIDE DEF S
<1>2. /\ Len(batch) \in Nat /\ Len(batch) # 0 /\ Len(t) = Len(batch) - 1 /\ Head(batch) = batch[1]
      /\ \A i \in 1 .. Len(t) : t[i] = batch[i + 1]
  BY <1>1, HeadTailProperties, LenProperties, EmptySeq
<1> HIDE DEF t
<1>3. 1 \in 1 .. Len(batch) /\ \A i \in 1 .. Len(t) : i + 1 \in 1 .. Len(batch)
  BY <1>2
<1> QED BY <1>2, <1>3 DEF BatchOK, t

\* finish touches the state of a job, and a scan is stored with it.
LEMMA JobReplaced ==
  ASSUME NEW a, NEW lg, NEW H, NEW js, JobsOK(lg, a, H, js), NEW i \in 1 .. Len(js), NEW x,
         JobOK(lg, a, H, x), x.m = js[i].m, x.start = js[i].start
  PROVE  /\ JobsOK(lg, a, H, [js EXCEPT ![i] = x]) /\ Len([js EXCEPT ![i] = x]) = Len(js)
         /\ JobsGrow(js, [js EXCEPT ![i] = x])
<1> DEFINE t == [js EXCEPT ![i] = x]
<1>1. IsSequence(t) /\ Len(t) = Len(js)
  BY Replaced DEF JobsOK
<1>2. Len(js) \in Nat /\ js \in [1 .. Len(js) -> {js[k] : k \in 1 .. Len(js)}]
  BY LenProperties DEF IsSequence, JobsOK
<1>3. \A k \in 1 .. Len(js) : (k = i /\ t[k] = x) \/ t[k] = js[k]
  BY <1>2
<1> HIDE DEF t
<1>4. \A k \in 1 .. Len(t) : JobOK(lg, a, H, t[k])
  BY <1>1, <1>3 DEF JobsOK
<1>5. JobsGrow(js, t)
  BY <1>1, <1>3 DEF JobsGrow
<1> QED BY <1>1, <1>4, <1>5 DEF JobsOK, t

LEMMA FinishedStays ==
  ASSUME NEW a, NEW lg, NEW H, NEW js, JobsOK(lg, a, H, js), NEW i \in 1 .. Len(js), NEW state
  PROVE  /\ JobsOK(lg, a, H, Finished(js, i, state)) /\ Len(Finished(js, i, state)) = Len(js)
         /\ JobsGrow(js, Finished(js, i, state))
<1> DEFINE job(st) == [m |-> js[i].m, sender |-> js[i].sender, state |-> st, scan |-> js[i].scan,
                       start |-> js[i].start]
           e == [js[i] EXCEPT !.state = state]
<1>1. JobOK(lg, a, H, js[i]) /\ js[i] = job(js[i].state)
  BY DEF JobsOK, JobOK
<1>2. \A st : [job(st) EXCEPT !.state = state] = job(state)
  OBVIOUS
<1> HIDE DEF job
<1>3. e = job(state)
  BY <1>1, <1>2
<1>4. [js EXCEPT ![i].state = state] = [js EXCEPT ![i] = e]
  OBVIOUS
<1> HIDE DEF e
<1>5. JobOK(lg, a, H, e) /\ e.m = js[i].m /\ e.start = js[i].start
  BY <1>1, <1>3 DEF JobOK, job
<1>6. /\ JobsOK(lg, a, H, [js EXCEPT ![i] = e]) /\ Len([js EXCEPT ![i] = e]) = Len(js)
      /\ JobsGrow(js, [js EXCEPT ![i] = e])
  BY <1>5, JobReplaced
<1> QED BY <1>4, <1>6, NothingGrows DEF Finished

LEMMA ScannedStays ==
  ASSUME NEW a, NEW lg, NEW H, NEW js, JobsOK(lg, a, H, js), NEW i \in 1 .. Len(js), NEW scan,
         ScanOK(lg, PromptFile(a), js[i].start[PromptFile(a)], H[js[i].m], scan)
  PROVE  /\ JobsOK(lg, a, H, [js EXCEPT ![i].scan = scan]) /\ Len([js EXCEPT ![i].scan = scan]) = Len(js)
         /\ JobsGrow(js, [js EXCEPT ![i].scan = scan])
<1> DEFINE job(s) == [m |-> js[i].m, sender |-> js[i].sender, state |-> js[i].state, scan |-> s,
                      start |-> js[i].start]
           e == [js[i] EXCEPT !.scan = scan]
<1>1. js[i] = job(js[i].scan) /\ js[i].m \in Nat
  BY DEF JobsOK, JobOK
<1>2. \A s : [job(s) EXCEPT !.scan = scan] = job(scan)
  OBVIOUS
<1> HIDE DEF job
<1>3. e = job(scan)
  BY <1>1, <1>2
<1>4. [js EXCEPT ![i].scan = scan] = [js EXCEPT ![i] = e]
  OBVIOUS
<1> HIDE DEF e
<1>5. JobOK(lg, a, H, e) /\ e.m = js[i].m /\ e.start = js[i].start
  BY <1>1, <1>3 DEF JobOK, job
<1>6. /\ JobsOK(lg, a, H, [js EXCEPT ![i] = e]) /\ Len([js EXCEPT ![i] = e]) = Len(js)
      /\ JobsGrow(js, [js EXCEPT ![i] = e])
  BY <1>5, JobReplaced
<1> QED BY <1>4, <1>6

\* Everything but the jobs, the batch and the journal.
LogUntouched == UNCHANGED <<setup, log, inbox, typed, turn, since, sends, alive>>

LEMMA ProceedAnswers ==
  ASSUME ConversationInv, ProviderInv, AnswerInv, batch # <<>>, NEW js,
         JobsOK(log, setup.adapter, Hits, js), Len(js) = Len(jobs), Proceed(js), LogUntouched,
         JournalGrows(entries, entries'), JobsGrow(jobs, js),
         Answered(entries', log[PromptFile(setup.adapter)], PromptFile(setup.adapter), Hits, jobs)
  PROVE  ProviderInv' /\ AnswerInv'
<1>1. jobs' = js /\ batch' = Tail(batch)
  BY DEF Proceed
<1>2. BatchOK(Tail(batch), jobs)
  BY RestOfBatch DEF ConversationInv, AnswerInv
<1>3. BatchOK(Tail(batch), js)
  BY <1>2 DEF BatchOK
<1>4. ProviderInv'
  BY ProviderUntouched DEF LogUntouched
<1>5. Answered(entries', log[PromptFile(setup.adapter)], PromptFile(setup.adapter), Hits, js)
  BY AnsweredByMore
<1> QED BY <1>1, <1>3, <1>4, <1>5, JournalMoves DEF AnswerInv, LogUntouched

LEMMA TickAnswers ==
  ASSUME ConversationInv, ProviderInv, AnswerInv, Tick
  PROVE  ProviderInv' /\ AnswerInv'
<1> DEFINE S == {i \in 1 .. Len(jobs) : jobs[i].state = "pending"}
           rows == Ascending(S)
           p == PendingJobs
<1>1. /\ batch' = (IF batch = <<>> THEN PendingJobs ELSE batch)
      /\ LogUntouched /\ UNCHANGED <<entries, jobs>>
  BY DEF Tick, LogUntouched, providerVars, worldVars
<1>2. ProviderInv'
  BY <1>1, ProviderUntouched DEF LogUntouched
<1>3. BatchOK(PendingJobs, jobs)
  <2>1. Len(jobs) \in Nat
    BY SequenceGrows DEF ConversationInv
  <2>2. rows \in Seq(S) /\ Len(rows) \in Nat
    <3>1. S \in SUBSET (1 .. Len(jobs))
      OBVIOUS
    <3> QED BY <2>1, <3>1, AscendingIs, LenProperties
  <2>3. \A n \in 1 .. Len(rows) : rows[n] \in 1 .. Len(jobs)
    <3>1. \A n \in 1 .. Len(rows) : rows[n] \in S
      BY <2>2, ElementOfSeq
    <3> QED BY <3>1
  <2>4. p = [n \in 1 .. Len(rows) |-> [i |-> rows[n], ended |-> ~alive]]
    BY DEF PendingJobs
  <2> HIDE DEF p, rows
  <2>5. Len(p) = Len(rows) /\ \A n \in 1 .. Len(rows) : p[n].i = rows[n]
    BY <2>2, <2>4
  <2> QED BY <2>3, <2>5 DEF BatchOK, p
<1> QED BY <1>1, <1>2, <1>3, JournalMoves, NothingGrows DEF AnswerInv, LogUntouched

LEMMA PublishEndAnswers ==
  ASSUME ConversationInv, ProviderInv, AnswerInv, NEW ok, PublishEnd(ok)
  PROVE  ProviderInv' /\ AnswerInv'
<1> DEFINE state == IF ok THEN "published" ELSE "failed"
           js == Finished(jobs, Head(batch).i, state)
<1>1. batch # <<>> /\ Proceed(js) /\ LogUntouched
      /\ \E st : entries' = AppendMessageDelivery(entries, reply, st)
  BY DEF PublishEnd, ConversationInv, worldVars, providerVars, LogUntouched
<1>2. Head(batch).i \in 1 .. Len(jobs)
  BY <1>1, RestOfBatch DEF ConversationInv, AnswerInv
<1>3. JobsOK(log, setup.adapter, Hits, js) /\ Len(js) = Len(jobs) /\ JobsGrow(jobs, js)
  BY <1>2, FinishedStays DEF AnswerInv
<1>4. /\ Answered(entries', log[PromptFile(setup.adapter)], PromptFile(setup.adapter), Hits, jobs)
      /\ JournalGrows(entries, entries')
  BY <1>1, OtherChangesAnswer DEF AnswerInv, ConversationInv, JournalOK
<1> HIDE DEF js
<1> QED BY <1>1, <1>3, <1>4, ProceedAnswers

\* The answer of a complete scan is what is published.
LEMMA ScanAnswers ==
  ASSUME ConversationInv, ProviderInv, AnswerInv, batch # <<>>, LogUntouched, NEW i \in 1 .. Len(jobs),
         NEW upto \in ReadEnds(jobs[i].scan.off), NEW late, ScanJob(i, upto, late)
  PROVE  ProviderInv' /\ AnswerInv'
<1> DEFINE a == setup.adapter
           F == PromptFile(a)
           job == jobs[i]
           b == job.start[F]
           K == Hits[job.m]
           scan == Scan(a, Containing(job.m), log, upto, job.scan)
           js == [jobs EXCEPT ![i].scan = scan]
           to == Upstream(job.sender)
<1>1. /\ a \in Adapters /\ log \in Logs /\ TurnsIn(log, a) /\ JobsOK(log, a, Hits, jobs)
      /\ IsSequence(entries) /\ Answered(entries, log[F], F, Hits, jobs) /\ BatchOK(batch, jobs)
  BY ConversationAssumption DEF ProviderInv, AnswerInv, ConversationInv, JournalOK
<1>2. ScanOK(log, F, b, K, job.scan) /\ Containing(job.m) = K
  BY <1>1 DEF JobsOK, JobOK, Hits
<1>3. /\ upto \in [AllFiles -> Nat]
      /\ \A g \in AllFiles : job.scan.off[g] <= upto[g] /\ upto[g] <= Len(log[g])
  <2>1. PICK n \in job.scan.off["history"] .. Len(log["history"]) : upto = [Lengths EXCEPT !["history"] = n]
    BY DEF ReadEnds
  <2>2. /\ job.scan.off \in [AllFiles -> Nat] /\ \A g \in AllFiles : job.scan.off[g] <= Len(log[g])
    BY <1>2 DEF ScanOK, ScanState
  <2>3. \A g \in AllFiles : Len(log[g]) \in Nat
    BY <1>1, LogsAre
  <2>4. "history" \in AllFiles
    BY DEF AllFiles
  <2>5. n \in Nat /\ job.scan.off["history"] <= n /\ n <= Len(log["history"])
    BY <2>1, <2>2, <2>3, <2>4
  <2>6. upto = [g \in AllFiles |-> IF g = "history" THEN n ELSE Len(log[g])]
    BY <2>1 DEF Lengths
  <2> QED BY <2>2, <2>3, <2>5, <2>6
<1>4. ScanOK(log, F, b, K, scan)
  BY <1>1, <1>2, <1>3, ScanIs
<1>5. /\ \/ Proceed(Finished(js, i, "failed")) /\ UNCHANGED <<entries, reply>>
         \/ Proceed(js) /\ UNCHANGED <<entries, reply>>
         \/ ScanStatus(scan) = "complete" /\ PublishAnswer(i, scan)
  BY DEF ScanJob, ScanStatus
<1> HIDE DEF scan
<1>6. JobsOK(log, a, Hits, js) /\ Len(js) = Len(jobs) /\ JobsGrow(jobs, js)
  BY <1>1, <1>4, ScannedStays
<1> HIDE DEF js
<1>7. /\ JobsOK(log, a, Hits, Finished(js, i, "failed")) /\ Len(Finished(js, i, "failed")) = Len(jobs)
      /\ JobsGrow(jobs, Finished(js, i, "failed"))
  <2>1. /\ JobsOK(log, a, Hits, Finished(js, i, "failed"))
        /\ Len(Finished(js, i, "failed")) = Len(jobs) /\ JobsGrow(js, Finished(js, i, "failed"))
    BY <1>6, FinishedStays
  <2> QED BY <1>6, <2>1 DEF JobsGrow
<1>8. CASE Proceed(Finished(js, i, "failed")) /\ UNCHANGED <<entries, reply>>
  BY <1>1, <1>7, <1>8, ProceedAnswers, NothingGrows
<1>9. CASE Proceed(js) /\ UNCHANGED <<entries, reply>>
  BY <1>1, <1>6, <1>9, ProceedAnswers, NothingGrows
<1>10. CASE ScanStatus(scan) = "complete" /\ PublishAnswer(i, scan)
  <2>1. Answers(log[F], F, Hits, js, job.m, scan.cand)
    <3>1. Follows(log[F], b, K, scan.cand)
      BY <1>4, <1>10 DEF ScanStatus, ScanOK
    <3>2. i \in 1 .. Len(js) /\ js[i].m = job.m /\ js[i].start = job.start
      BY <1>6 DEF JobsGrow
    <3> QED BY <3>1, <3>2 DEF Answers
  <2>2. \/ Proceed(Finished(js, i, "failed")) /\ UNCHANGED <<entries, reply>>
        \/ /\ entries' = CommittedJournal(entries, "w", {to}, TRUE, job.m, <<"final", job.m>>, scan.cand)
           /\ jobs' = js /\ batch' = batch
    BY <1>10 DEF PublishAnswer, js
  <2>3. CASE jobs' = js /\ batch' = batch
             /\ entries' = CommittedJournal(entries, "w", {to}, TRUE, job.m, <<"final", job.m>>, scan.cand)
    <3>1. Answered(entries, log[F], F, Hits, js)
      BY <1>1, <1>6, AnsweredByMore
    <3>2. Answered(entries', log[F], F, Hits, js) /\ JournalGrows(entries, entries')
      BY <1>1, <2>1, <2>3, <3>1, CommitAnswers
    <3>3. BatchOK(batch, js)
      BY <1>1, <1>6 DEF BatchOK
    <3>4. ProviderInv'
      BY ProviderUntouched DEF LogUntouched
    <3> QED BY <1>6, <2>3, <3>2, <3>3, <3>4, JournalMoves DEF AnswerInv, LogUntouched
  <2> QED BY <1>8, <2>2, <2>3
<1> QED BY <1>5, <1>8, <1>9, <1>10

LEMMA ProcessAnswers ==
  ASSUME ConversationInv, ProviderInv, AnswerInv, NEW late, Process(late)
  PROVE  ProviderInv' /\ AnswerInv'
<1> DEFINE i == Head(batch).i
           job == jobs[i]
<1>1. batch # <<>> /\ LogUntouched
  BY DEF Process, worldVars, providerVars, LogUntouched
<1>2. \/ \E state \in {"failed", "skipped"} : Settle(i, state)
      \/ Throw
      \/ \E upto \in ReadEnds(job.scan.off) : ScanJob(i, upto, late)
  BY Zenon DEF Process
<1>3. i \in 1 .. Len(jobs)
  BY <1>1, RestOfBatch DEF ConversationInv, AnswerInv
<1> HIDE DEF i
<1>4. ASSUME NEW state \in {"failed", "skipped"}, Settle(i, state)
      PROVE  ProviderInv' /\ AnswerInv'
  <2>1. Proceed(Finished(jobs, i, state)) /\ UNCHANGED entries
    BY <1>4 DEF Settle
  <2>2. /\ JobsOK(log, setup.adapter, Hits, Finished(jobs, i, state))
        /\ Len(Finished(jobs, i, state)) = Len(jobs) /\ JobsGrow(jobs, Finished(jobs, i, state))
    BY <1>3, FinishedStays DEF AnswerInv
  <2> QED BY <1>1, <2>1, <2>2, ProceedAnswers, NothingGrows DEF AnswerInv
<1>5. CASE Throw
  <2>1. batch' = <<>> /\ UNCHANGED <<jobs, entries>>
    BY <1>5 DEF Throw
  <2>2. BatchOK(<<>>, jobs)
    BY EmptySeq DEF BatchOK
  <2>3. ProviderInv'
    BY <1>1, ProviderUntouched DEF LogUntouched
  <2> QED BY <1>1, <2>1, <2>2, <2>3, JournalMoves, NothingGrows DEF AnswerInv, LogUntouched
<1>6. ASSUME NEW upto \in ReadEnds(job.scan.off), ScanJob(i, upto, late)
      PROVE  ProviderInv' /\ AnswerInv'
  BY <1>1, <1>3, <1>6, ScanAnswers
<1> QED BY <1>2, <1>4, <1>5, <1>6

LEMMA AnswersStart == ConversationInit => ProviderInv /\ AnswerInv
<1> SUFFICES ASSUME ConversationInit PROVE ProviderInv /\ AnswerInv
  OBVIOUS
<1> DEFINE a == setup.adapter
           F == PromptFile(a)
           T == TurnFile(a)
<1>1. /\ setup \in Setups /\ entries = <<>> /\ log = [f \in AllFiles |-> <<>>] /\ inbox = <<>>
      /\ typed = {} /\ turn = 0 /\ since = Never /\ sends = {} /\ jobs = <<>> /\ batch = <<>>
  BY DEF ConversationInit
<1>2. Len(<<>>) = 0 /\ <<>> \in Seq(LogRecord) /\ <<>> \in Seq(typed)
  BY EmptySeq
<1>3. F \in AllFiles /\ T \in AllFiles /\ "lifecycle" \in AllFiles
  BY <1>1, ConversationAssumption, PromptFileIs DEF TurnFile, AllFiles
<1>4. log \in Logs /\ \A f \in AllFiles : log[f] = <<>>
  BY <1>1, <1>2 DEF Logs
<1>5. PromptsOK(log[F], inbox, typed)
  BY <1>1, <1>2, <1>3, <1>4 DEF PromptsOK
<1>6. TurnsIn(log, a) /\ ClosedBy(log[T], a)
  BY <1>2, <1>3, <1>4 DEF TurnsIn, ClosedBy
<1>7. ProviderInv
  BY <1>1, <1>4, <1>5, <1>6 DEF ProviderInv, SinceOK
<1>8. JobsOK(log, a, Hits, jobs) /\ BatchOK(batch, jobs)
  BY <1>1, <1>2, ConversationStarts DEF JobsOK, BatchOK, ConversationInv
<1>9. Messages(entries) = {}
  BY <1>1, <1>2 DEF Messages, CursorsOf
<1> QED BY <1>1, <1>7, <1>8, <1>9 DEF AnswerInv, Answered

LEMMA AnswersStep ==
  ConversationInv /\ ProviderInv /\ AnswerInv /\ [ConversationNext]_conversationVars
    => ProviderInv' /\ AnswerInv'
<1> SUFFICES ASSUME ConversationInv, ProviderInv, AnswerInv, [ConversationNext]_conversationVars
             PROVE  ProviderInv' /\ AnswerInv'
  OBVIOUS
<1>1. CASE Around
  <2>1. CASE Tick
    BY <2>1, TickAnswers
  <2> QED BY <1>1, <2>1, SendAnswers, AroundAnswers DEF Around
<1>2. ASSUME NEW late \in BOOLEAN, Process(late) PROVE ProviderInv' /\ AnswerInv'
  BY <1>2, ProcessAnswers
<1>3. ASSUME NEW ok \in BOOLEAN, PublishEnd(ok) PROVE ProviderInv' /\ AnswerInv'
  BY <1>3, PublishEndAnswers
<1>4. CASE DaemonDies \/ Restart
  BY <1>4, AroundAnswers
<1>5. CASE UNCHANGED conversationVars
  <2>1. UNCHANGED <<setup, entries, log, inbox, typed, turn, since, sends, jobs, batch, alive>>
    BY <1>5 DEF conversationVars
  <2>2. ProviderInv'
    BY <2>1, ProviderUntouched
  <2> QED BY <2>1, <2>2, JournalMoves, NothingGrows DEF AnswerInv
<1> QED BY <1>1, <1>2, <1>3, <1>4, <1>5 DEF ConversationNext

LEMMA AnswersHold == ConversationSpec => [](ProviderInv /\ AnswerInv)
BY AnswersStart, AnswersStep, ConversationHolds, PTL DEF ConversationSpec

\* scanProviderFinalReply and the bridge: what is published as the answer to a
\* question is of a turn that was not over when the log first showed the text of
\* the question behind the offsets of its job, for every adapter and all
\* containments among the texts, however much of a file a scan saw, and whether
\* or not the daemon died in between.
THEOREM AnswersFollow == ConversationSpec => []AnswerFollowsQuestion
<1>1. ProviderInv /\ AnswerInv => AnswerFollowsQuestion
  <2> SUFFICES ASSUME ProviderInv, AnswerInv, NEW r \in Messages(entries), entries[r].from = "w",
                      entries[r].key # <<>>
               PROVE  \E i \in JobOf(jobs, entries[r].re) :
                        /\ Shown(jobs[i]) # {} /\ TurnOrder(entries[r].text) # 0
                        /\ \A k \in 1 .. Min(Shown(jobs[i])) :
                             PromptLog[k].tok = "user" => k <= TurnOrder(entries[r].text)
    BY DEF AnswerFollowsQuestion
  <2> DEFINE a == setup.adapter
             F == PromptFile(a)
             L == log[F]
             x == entries[r].text
             places == {i \in 1 .. Len(L) : IsPrompt(L[i], x)}
  <2>1. PICK i \in 1 .. Len(jobs) :
          jobs[i].m = entries[r].re /\ Follows(L, jobs[i].start[F], Hits[jobs[i].m], x)
    BY DEF AnswerInv, Answered, Answers
  <2> DEFINE b == jobs[i].start[F]
             K == Containing(jobs[i].m)
             shown == {k \in (b + 1) .. Len(L) : IsInput(L[k], K)}
  <2>2. Len(L) \in Nat
    <3>1. a \in Adapters
      BY ConversationAssumption DEF ProviderInv
    <3> QED BY <3>1, PromptFileIs, LogsAre DEF ProviderInv
  <2>3. \A j, k \in 1 .. Len(L) : IsPrompt(L[j], x) /\ IsPrompt(L[k], x) => j = k
    BY DEF ProviderInv, PromptsOK, IsPrompt
  <2>4. b \in Nat /\ Hits[jobs[i].m] = K
    BY DEF AnswerInv, JobsOK, JobOK, ScanOK, Hits
  <2>5. /\ PromptLog = L /\ Shown(jobs[i]) = shown
        /\ TurnOrder(x) = IF places = {} THEN 0 ELSE Min(places)
    BY DEF PromptLog, Shown, TurnOrder, PromptFile
  <2>6. Follows(L, b, K, x)
    BY <2>1, <2>4
  <2> HIDE DEF L, x, b, K
  <2>7. PICK p \in (b + 1) .. Len(L), q \in 1 .. Len(L) :
          /\ IsInput(L[p], K) /\ IsPrompt(L[q], x)
          /\ \A k \in 1 .. p : L[k].tok = "user" => k <= q
    BY <2>6 DEF Follows
  <2>8. shown \in SUBSET (1 .. Len(L)) /\ p \in shown /\ places \in SUBSET (1 .. Len(L)) /\ q \in places
    BY <2>2, <2>4, <2>7
  <2>9. Min(shown) \in 1 .. Len(L) /\ Min(shown) <= p /\ Min(places) \in places
    BY <2>2, <2>8, EndsOf
  <2>10. TurnOrder(x) = q
    BY <2>3, <2>5, <2>8, <2>9
  <2>11. shown # {}
    BY <2>8
  <2> HIDE DEF shown, places
  <2>12. \A k \in 1 .. Min(shown) : L[k].tok = "user" => k <= q
    <3>1. p \in Nat /\ Min(shown) \in Nat
      BY <2>2, <2>4, <2>7, <2>9
    <3>2. \A k \in 1 .. Min(shown) : k \in 1 .. p
      BY <2>9, <3>1
    <3> QED BY <2>7, <3>2
  <2>13. q # 0
    BY <2>7
  <2>14. i \in JobOf(jobs, entries[r].re)
    BY <2>1 DEF JobOf
  <2> QED BY <2>5, <2>10, <2>11, <2>12, <2>13, <2>14 DEF x
<1> QED BY <1>1, AnswersHold, PTL

\* The last record of one of these kinds is the last one.
LEMMA LastOfIs ==
  ASSUME NEW recs \in Seq(LogRecord), NEW from \in Nat, NEW toks, from < Len(recs),
         recs[Len(recs)].tok \in toks
  PROVE  LastOf(recs, from, toks) = Len(recs) /\ Len(recs) # 0
<1> DEFINE n == Len(recs)
           hits == {i \in (from + 1) .. n : recs[i].tok \in toks}
<1>1. n \in Nat
  BY LenProperties
<1>2. from < n /\ recs[n].tok \in toks
  OBVIOUS
<1>3. LastOf(recs, from, toks) = IF hits = {} THEN 0 ELSE Max(hits)
  BY DEF LastOf
<1> HIDE DEF n
<1>4. n \in hits /\ hits \in SUBSET (1 .. n)
  BY <1>1, <1>2
<1>5. Max(hits) \in hits /\ n <= Max(hits)
  BY <1>1, <1>4, EndsOf
<1> HIDE DEF hits
<1>6. Max(hits) = n
  <2>1. Max(hits) \in 1 .. n
    BY <1>4, <1>5
  <2> QED BY <1>1, <1>5, <2>1
<1> QED BY <1>1, <1>2, <1>3, <1>4, <1>6 DEF n

\* resolveProviderTurn: a session whose provider has closed its last turn, well
\* or badly, is shown as idle, unless the turn was closed before the delivery was
\* recorded, or is one that claude ended with is_error.
THEOREM OverReadsIdle == ConversationSpec => []EndedReadsIdle
<1>1. ProviderInv => EndedReadsIdle
  <2> SUFFICES ASSUME ProviderInv, alive, TurnIsOver, ~NothingSince, ~FailedUnread, since # Never
               PROVE  TurnPhase(setup.adapter, log, since) = "idle"
    BY DEF EndedReadsIdle, TurnPhase
  <2> DEFINE a == setup.adapter
             T == TurnFile(a)
             L == log[T]
             n == Len(L)
  <2>1. a \in Adapters /\ T \in AllFiles
    BY ConversationAssumption DEF ProviderInv, TurnFile, AllFiles
  <2>2. L \in Seq(LogRecord) /\ n \in Nat /\ since[T] \in Nat /\ since[T] <= n
    BY <2>1, LogsAre DEF ProviderInv, SinceOK
  <2>3. turn = 0 /\ since[T] < n /\ (a = "claude" => L[n].tok # "fail")
    <3>1. turn = 0 /\ n # since[T] /\ (a = "claude" => L[n].tok # "fail")
      BY DEF TurnIsOver, NothingSince, FailedUnread, TurnLog
    <3> QED BY <2>2, <3>1
  <2>4. n # 0 /\ L[n].tok \in Closers(a)
    <3>1. n # 0
      BY <2>2, <2>3
    <3> QED BY <2>3, <3>1 DEF ProviderInv, ClosedBy
  <2>5. TurnPhase(a, log, since) =
          CASE a = "codex" -> CodexTurn(L, since[T])
            [] a = "claude" -> ClaudeTurn(L, since[T])
            [] a = "grok" -> GrokTurn(L, since[T])
            [] a = "gemini" -> GeminiTurn(L, since[T])
            [] OTHER -> AgyTurn(L, since[T])
    BY DEF TurnPhase
  <2>6. \A toks : L[n].tok \in toks => LastOf(L, since[T], toks) = n
    BY <2>2, <2>3, LastOfIs
  <2> HIDE DEF n, L, T
  <2>7. CASE a = "codex"
    <3>1. L[n].tok = "end"
      BY <2>4, <2>7 DEF Closers
    <3>2. CodexTurn(L, since[T]) = "idle"
      BY <2>4, <2>6, <3>1 DEF CodexTurn
    <3> QED BY <2>5, <2>7, <3>2
  <2>8. CASE a = "claude"
    <3>1. L[n].tok = "end"
      BY <2>3, <2>4, <2>8 DEF Closers
    <3>2. ClaudeTurn(L, since[T]) = "idle"
      BY <2>4, <2>6, <3>1 DEF ClaudeTurn
    <3> QED BY <2>5, <2>8, <3>2
  <2>9. CASE a = "grok"
    <3>1. L[n].tok \in {"end", "fail"}
      BY <2>4, <2>9 DEF Closers
    <3>2. GrokTurn(L, since[T]) = "idle"
      BY <2>4, <2>6, <3>1 DEF GrokTurn, LastPhase, PhaseAfter
    <3> QED BY <2>5, <2>9, <3>2
  <2>10. CASE a \in {"gemini", "agy"}
    <3>1. L[n].tok \in {"text", "fail"}
      BY <2>4, <2>10 DEF Closers
    <3>2. GeminiTurn(L, since[T]) = "idle" /\ AgyTurn(L, since[T]) = "idle"
      BY <2>4, <2>6, <3>1 DEF GeminiTurn, AgyTurn, LastPhase, PhaseAfter
    <3> QED BY <2>5, <2>10, <3>2
  <2> QED BY <2>1, <2>7, <2>8, <2>9, <2>10 DEF Adapters
<1> QED BY <1>1, AnswersHold, PTL
=============================================================================
