--------------------------- MODULE DesignJobs_proofs ---------------------------
(***************************************************************************)
(* Proofs about DesignJobs, for any finite set of variations, either store *)
(* and gateway, and any bounds: that everything keeps its type while tasks *)
(* overlap, that with PostgreSQL the automatic repairs are bounded, and    *)
(* that in memory the job has an end when all its tasks have.              *)
(***************************************************************************)
EXTENDS DesignJobs, FiniteSetTheorems, TLAPS

-----------------------------------------------------------------------------
(* The invariant.                                                          *)

\* A consumer at work has an event of its own scope; what it stores is a page.
Shape(p, c) ==
    /\ c.at \in {"handling", "making", "applying"} => c.v \in Scope(p)
    /\ c.at = "making" => c.content \in Content
    /\ c.at = "applying" => c.version \in 1 .. MaxPages
    /\ c.at \in {"stopping", "releasing"} => p \in Repair

ConsumersShaped == \A p \in Consumer : Shape(p, consumer[p])

\* A consumer that has received a page and not stored it yet.
Stores(c) == c.at \in {"handling", "making"} /\ c.content # "none"

Storing(v) == {p \in Consumer : consumer[p].v = v /\ Stores(consumer[p])}

PagesBounded == \A v \in Variation : Len(pages[v]) + Cardinality(Storing(v)) <= MaxPages

\* The versions of a variation are 1 .. k, and a page that is being made has the next
\* one or one that was taken meanwhile; PostgreSQL takes them in order.
VersionsTo(v, k) ==
    /\ \A i \in DOMAIN pages[v] : pages[v][i].version \in 1 .. k
    /\ \A n \in 1 .. k : \E i \in DOMAIN pages[v] : pages[v][i].version = n
    /\ \A p \in Consumer : consumer[p].at = "making" /\ consumer[p].v = v =>
            consumer[p].version \in 1 .. k + 1
    /\ Store = "postgres" =>
            k = Len(pages[v]) /\ \A i \in DOMAIN pages[v] : pages[v][i].version = i

VersionsKnown == \A v \in Variation : \E k \in 0 .. Len(pages[v]) : VersionsTo(v, k)

\* A page under review was stored, and is no placeholder.
ReviewsKnown == \A r \in reviews :
    r[3] \in DOMAIN pages[r[2]] /\ pages[r[2]][r[3]].content # "bare"

PagesKnown == PagesBounded /\ VersionsKnown /\ ReviewsKnown

\* What was concluded is an end.
FinalsKnown == \A f \in finals : f.at = "concluding" => f.status # "none"

TypeInvariant == TypeOK /\ ConsumersShaped /\ PagesKnown /\ FinalsKnown

-----------------------------------------------------------------------------
(* Tasks.                                                                  *)

LEMMA Bounds ==
    /\ MaxRepairs \in Nat /\ MaxEvents \in Nat /\ MaxPages \in Nat
    /\ MaxConfirms \in Nat /\ MaxBusy \in Nat /\ MaxUpsets \in Nat
BY BoundAssumption

LEMMA RepairParts ==
    /\ \A p \in Repair : p = <<"repair", p[2], p[3]>> /\ p[2] \in Variation /\ p[3] \in 1 .. MaxPages
    /\ \A v \in Variation, n \in 1 .. MaxPages : <<"repair", v, n>> \in Repair
    /\ Worker \notin Repair
BY DEF Repair, Worker

LEMMA PageParts ==
    /\ \A r \in Page : r = <<"page", r[2], r[3]>> /\ r[2] \in Variation /\ r[3] \in 1 .. MaxPages
    /\ \A v \in Variation, n \in 1 .. MaxPages : <<"page", v, n>> \in Page
BY DEF Page

LEMMA Tasks ==
    /\ Worker \in Consumer /\ Repair \subseteq Consumer /\ Consumer \subseteq Task
    /\ Page \subseteq Task /\ Canceller \in Task
    /\ \A p \in {Worker} \cup Repair \cup Page : Final(p) \in Task
<1>1. Final(Worker) \in Task BY DEF Task
<1>2. ASSUME NEW p \in Repair \cup Page PROVE Final(p) \in Task
  <2>1. p[2] \in Variation /\ p[3] \in 1 .. MaxPages BY RepairParts, PageParts
  <2>2. QED BY <2>1 DEF Final, Task
<1>3. Worker \in Consumer /\ Repair \subseteq Consumer BY DEF Consumer
<1>4. Consumer \subseteq Task /\ Page \subseteq Task /\ Canceller \in Task BY DEF Task
<1>5. QED BY <1>1, <1>2, <1>3, <1>4

LEMMA Scopes == \A p \in Consumer : Scope(p) \subseteq Variation
BY RepairParts DEF Consumer, Scope

LEMMA ConsumersFinite == IsFiniteSet(Consumer)
<1>. DEFINE Pairs == Variation \X (1 .. MaxPages)
            f == [pair \in Pairs |-> <<"repair", pair[1], pair[2]>>]
<1>1. IsFiniteSet(Pairs)
  <2>1. IsFiniteSet(1 .. MaxPages) BY Bounds, FS_Interval
  <2>2. QED BY <2>1, VariationAssumption, FS_Product
<1>2. f \in Surjection(Pairs, Repair)
  <2>1. f \in [Pairs -> Repair] BY RepairParts
  <2>2. ASSUME NEW p \in Repair PROVE \E pair \in Pairs : f[pair] = p
    <3>1. <<p[2], p[3]>> \in Pairs BY RepairParts
    <3>2. f[<<p[2], p[3]>>] = p BY <3>1, RepairParts
    <3>3. QED BY <3>1, <3>2
  <2>3. QED BY <2>1, <2>2 DEF Surjection
<1>3. IsFiniteSet(Repair)
  <2>. HIDE DEF f, Pairs
  <2>1. QED BY <1>1, <1>2, FS_Surjection
<1>4. Consumer = Repair \cup {Worker} BY DEF Consumer
<1>5. QED BY <1>3, <1>4, FS_AddElement

LEMMA StoringFinite ==
    \A v : IsFiniteSet(Storing(v)) /\ Cardinality(Storing(v)) \in Nat
<1>1. SUFFICES ASSUME NEW v PROVE IsFiniteSet(Storing(v)) /\ Cardinality(Storing(v)) \in Nat
  OBVIOUS
<1>2. Storing(v) \subseteq Consumer BY DEF Storing
<1>3. QED BY <1>2, ConsumersFinite, FS_Subset, FS_CardinalityType

LEMMA NoneIsNoContent == "none" \notin Content /\ Content \ {"pass", "bare"} = Flaw
BY ContentAssumption DEF Content

-----------------------------------------------------------------------------
(* Progress records.                                                       *)

Place == {"absent", "created", "prepared", "abandoned", "queued", "streaming", "handling", "making",
          "applying", "stopping", "releasing", "failing", "marking", "done"}

EventKind == {"none", "queued", "streaming", "lane", "updated", "completed", "failed", "unfinished"}
Status == Unfinished \cup Terminal

Statuses == Status \cup {"absent"}
Contents == Content \cup {"none"}
Someone == Variation \cup {None}
Versions == 0 .. MaxPages + 1
Budgets == 0 .. MaxEvents
Variations == SUBSET Variation

LEMMA ProgressIs ==
    Progress = [at : Place, v : Someone, kind : EventKind, content : Contents, seen : Statuses,
                version : Versions, left : Budgets, results : Variations, todo : Variations]
BY DEF Progress, Place, EventKind, Status, Statuses, Contents, Someone, Versions, Budgets, Variations

\* An event is taken up or left, in the ways the actions do it.
LEMMA FieldsTyped ==
    ASSUME NEW c \in Progress, NEW at \in Place, NEW v \in Someone, NEW kind \in EventKind,
           NEW content \in Contents, NEW seen \in Statuses, NEW version \in Versions
    PROVE  [c EXCEPT !.at = at, !.v = v, !.kind = kind, !.content = content, !.seen = seen,
                     !.version = version] \in Progress
BY ProgressIs

LEMMA EventTyped ==
    ASSUME NEW c \in Progress, NEW at \in Place, NEW v \in Someone, NEW kind \in EventKind,
           NEW content \in Contents, NEW seen \in Statuses, NEW left \in Budgets,
           NEW results \in Variations
    PROVE  [c EXCEPT !.at = at, !.v = v, !.kind = kind, !.content = content, !.seen = seen,
                     !.left = left, !.results = results] \in Progress
BY ProgressIs

LEMMA UnfinishedTyped ==
    ASSUME NEW c \in Progress, NEW at \in Place, NEW v \in Someone, NEW kind \in EventKind,
           NEW content \in Contents, NEW seen \in Statuses, NEW todo \in Variations
    PROVE  [c EXCEPT !.at = at, !.kind = kind, !.content = content, !.v = v, !.seen = seen,
                     !.todo = todo] \in Progress
BY ProgressIs

LEMMA TodoTyped ==
    ASSUME NEW c \in Progress, NEW at \in Place, NEW todo \in Variations
    PROVE  [c EXCEPT !.at = at, !.todo = todo] \in Progress
BY ProgressIs

LEMMA VersionTyped ==
    ASSUME NEW c \in Progress, NEW at \in Place, NEW version \in Versions
    PROVE  [c EXCEPT !.at = at, !.version = version] \in Progress
BY ProgressIs

LEMMA ProgressParts ==
    ASSUME NEW c \in Progress
    PROVE  /\ c.at \in Place /\ c.v \in Someone /\ c.kind \in EventKind
           /\ c.content \in Contents /\ c.seen \in Statuses
           /\ c.version \in Versions /\ c.left \in Budgets
           /\ c.results \in Variations /\ c.todo \in Variations
BY ProgressIs

LEMMA IdleTyped == ASSUME NEW at \in Place PROVE [Idle EXCEPT !.at = at] \in Progress /\ [Idle EXCEPT !.at = at].at = at
BY Bounds DEF Idle, Progress, Place

LEMMA AtTyped ==
    ASSUME NEW c \in Progress, NEW at \in Place
    PROVE  /\ [c EXCEPT !.at = at] \in Progress
           /\ [c EXCEPT !.at = at].at = at
BY DEF Progress, Place

-----------------------------------------------------------------------------
(* Moves of a consumer.                                                    *)

ConsumersTyped == consumer \in [Consumer -> Progress] /\ ConsumersShaped

LEMMA Moves ==
    ASSUME ConsumersTyped, NEW p \in Consumer, NEW c \in Progress, Shape(p, c), Move(p, c)
    PROVE  /\ ConsumersTyped' /\ consumer'[p] = c
           /\ \A q \in Consumer \ {p} : consumer'[q] = consumer[q]
<1>1. consumer' = [consumer EXCEPT ![p] = c] BY DEF Move
<1>2. consumer' \in [Consumer -> Progress] BY <1>1 DEF ConsumersTyped
<1>3. consumer'[p] = c /\ \A q \in Consumer \ {p} : consumer'[q] = consumer[q]
  BY <1>1 DEF ConsumersTyped
<1>4. \A q \in Consumer : Shape(q, consumer'[q])
  BY <1>3 DEF ConsumersTyped, ConsumersShaped
<1>5. ConsumersShaped' BY <1>4 DEF ConsumersShaped, Shape
<1>6. QED BY <1>2, <1>3, <1>5 DEF ConsumersTyped

PagesTyped ==
    /\ pages \in [Variation -> Seq([version : 1 .. MaxPages + 1, content : Content])]
    /\ reviews \subseteq Page

LEMMA SequenceDomain ==
    ASSUME PagesTyped, NEW v \in Variation
    PROVE  /\ Len(pages[v]) \in Nat /\ DOMAIN pages[v] = 1 .. Len(pages[v])
           /\ \A i \in DOMAIN pages[v] :
                pages[v][i] \in [version : 1 .. MaxPages + 1, content : Content]
<1>. DEFINE S == [version : 1 .. MaxPages + 1, content : Content]
<1>1. pages[v] \in Seq(S) BY DEF PagesTyped
<1>. HIDE DEF S
<1>2. Len(pages[v]) \in Nat /\ DOMAIN pages[v] = 1 .. Len(pages[v]) BY <1>1
<1>3. \A i \in 1 .. Len(pages[v]) : pages[v][i] \in S BY <1>1
<1>4. QED BY <1>2, <1>3 DEF S

\* Consumers that go on without a page.
LEMMA RoomKept ==
    ASSUME ConsumersTyped, PagesTyped, PagesKnown, UNCHANGED pages, reviews' \subseteq reviews,
           \A q \in Consumer : consumer'[q] = consumer[q] \/
                (~Stores(consumer'[q]) /\ consumer'[q].at # "making")
    PROVE  PagesTyped' /\ PagesKnown'
<1>1. PagesTyped' BY DEF PagesTyped
<1>2. PagesBounded'
  <2>1. SUFFICES ASSUME NEW v \in Variation
                 PROVE  Len(pages[v]) + Cardinality(Storing(v)') <= MaxPages
    BY DEF PagesBounded
  <2>2. Storing(v)' \subseteq Storing(v) BY DEF Storing
  <2>3. Cardinality(Storing(v)') <= Cardinality(Storing(v)) BY <2>2, StoringFinite, FS_Subset
  <2>4. Cardinality(Storing(v)') \in Nat BY <2>2, StoringFinite, FS_Subset, FS_CardinalityType
  <2>5. Len(pages[v]) + Cardinality(Storing(v)) <= MaxPages BY DEF PagesKnown, PagesBounded
  <2>6. QED BY <2>3, <2>4, <2>5, StoringFinite, SequenceDomain, Bounds
<1>3. VersionsKnown'
  <2>1. ASSUME NEW v \in Variation, NEW k \in 0 .. Len(pages[v]), VersionsTo(v, k)
        PROVE  VersionsTo(v, k)'
    BY <2>1 DEF VersionsTo
  <2>2. QED BY <2>1 DEF PagesKnown, VersionsKnown
<1>4. ReviewsKnown' BY DEF PagesKnown, ReviewsKnown
<1>5. QED BY <1>1, <1>2, <1>3, <1>4 DEF PagesKnown

\* A page is received while there is room.
LEMMA PageReceived ==
    ASSUME ConsumersTyped, PagesTyped, PagesKnown, UNCHANGED <<pages, reviews>>,
           NEW p \in Consumer, NEW v \in Variation, PageCount(v) < MaxPages,
           consumer'[p].v = v, consumer'[p].at # "making",
           \A q \in Consumer \ {p} : consumer'[q] = consumer[q]
    PROVE  PagesTyped' /\ PagesKnown'
<1>1. PagesTyped' BY DEF PagesTyped
<1>2. PagesBounded'
  <2>1. SUFFICES ASSUME NEW u \in Variation
                 PROVE  Len(pages[u]) + Cardinality(Storing(u)') <= MaxPages
    BY DEF PagesBounded
  <2>2. Len(pages[u]) + Cardinality(Storing(u)) <= MaxPages BY DEF PagesKnown, PagesBounded
  <2>3. CASE u = v
    <3>1. Storing(v)' \subseteq Storing(v) \cup {p} BY DEF Storing
    <3>2. /\ IsFiniteSet(Storing(v) \cup {p})
          /\ Cardinality(Storing(v) \cup {p}) <= Cardinality(Storing(v)) + 1
      <4>1. IsFiniteSet(Storing(v)) /\ Cardinality(Storing(v)) \in Nat BY StoringFinite
      <4>2. /\ IsFiniteSet(Storing(v) \cup {p})
            /\ Cardinality(Storing(v) \cup {p}) =
                 IF p \in Storing(v) THEN Cardinality(Storing(v)) ELSE Cardinality(Storing(v)) + 1
        BY <4>1, FS_AddElement
      <4>3. QED BY <4>1, <4>2
    <3>3. /\ Cardinality(Storing(v)') <= Cardinality(Storing(v) \cup {p})
          /\ IsFiniteSet(Storing(v)')
      BY <3>1, <3>2, FS_Subset
    <3>4. Cardinality(Storing(v)') \in Nat /\ Cardinality(Storing(v) \cup {p}) \in Nat
      BY <3>2, <3>3, FS_CardinalityType
    <3>5. PageCount(v) = Len(pages[v]) + Cardinality(Storing(v))
      <4>1. Storing(v) = {q \in Consumer : consumer[q].v = v /\ consumer[q].at \in {"handling", "making"}
                                            /\ consumer[q].content # "none"}
        BY DEF Storing, Stores
      <4>2. QED BY <4>1 DEF PageCount
    <3>6. QED BY <2>3, <3>2, <3>3, <3>4, <3>5, StoringFinite, SequenceDomain, Bounds
  <2>4. CASE u # v
    <3>1. Storing(u)' \subseteq Storing(u) BY <2>4 DEF Storing
    <3>2. Cardinality(Storing(u)') <= Cardinality(Storing(u)) /\ Cardinality(Storing(u)') \in Nat
      BY <3>1, StoringFinite, FS_Subset, FS_CardinalityType
    <3>3. QED BY <2>2, <3>2, StoringFinite, SequenceDomain, Bounds
  <2>5. QED BY <2>3, <2>4
<1>3. VersionsKnown'
  <2>1. ASSUME NEW u \in Variation, NEW k \in 0 .. Len(pages[u]), VersionsTo(u, k)
        PROVE  VersionsTo(u, k)'
    BY <2>1 DEF VersionsTo
  <2>2. QED BY <2>1 DEF PagesKnown, VersionsKnown
<1>4. ReviewsKnown' BY DEF PagesKnown, ReviewsKnown
<1>5. QED BY <1>1, <1>2, <1>3, <1>4 DEF PagesKnown

\* The next version is the one after the last.
LEMMA NextVersionIs ==
    ASSUME PagesTyped, NEW v \in Variation, NEW k \in 0 .. Len(pages[v]), VersionsTo(v, k),
           Len(pages[v]) <= MaxPages
    PROVE  NextVersion(v) = k + 1
<1>. DEFINE taken == {pages[v][i].version : i \in DOMAIN pages[v]}
            Next1(n) == (\A m \in taken : m < n) /\ (n = 1 \/ n - 1 \in taken)
<1>1. taken = 1 .. k BY SequenceDomain DEF VersionsTo
<1>2. k \in Nat /\ k + 1 \in 1 .. MaxPages + 1 BY SequenceDomain, Bounds
<1>5. NextVersion(v) = CHOOSE n \in 1 .. MaxPages + 1 : Next1(n)
  BY DEF NextVersion
<1>. HIDE DEF taken
<1>3. Next1(k + 1)
  <2>1. \A m \in 1 .. k : m < k + 1 BY <1>2
  <2>2. k + 1 = 1 \/ (k + 1) - 1 \in 1 .. k BY <1>2
  <2>3. QED BY <1>1, <2>1, <2>2
<1>4. ASSUME NEW n \in 1 .. MaxPages + 1, Next1(n) PROVE n = k + 1
  <2>1. n \in Nat BY Bounds
  <2>2. k < n
    <3>1. CASE k = 0 BY <3>1, <2>1
    <3>2. CASE k # 0
      <4>1. k \in taken BY <1>1, <1>2, <3>2
      <4>2. QED BY <1>4, <4>1
    <3>3. QED BY <3>1, <3>2
  <2>3. n = 1 \/ n - 1 <= k BY <1>1, <1>4
  <2>4. QED BY <1>2, <2>1, <2>2, <2>3
<1>. HIDE DEF Next1
<1>6. QED BY <1>2, <1>3, <1>4, <1>5

LEMMA PageRoom ==
    ASSUME PagesTyped, PagesKnown, NEW p \in Consumer, Stores(consumer[p]), consumer[p].v \in Variation
    PROVE  /\ Len(pages[consumer[p].v]) + 1 <= MaxPages
           /\ Cardinality(Storing(consumer[p].v) \ {p}) + 1 = Cardinality(Storing(consumer[p].v))
           /\ Cardinality(Storing(consumer[p].v) \ {p}) \in Nat
<1>. DEFINE v == consumer[p].v
<1>1. p \in Storing(v) BY DEF Storing
<1>2. IsFiniteSet(Storing(v)) /\ Cardinality(Storing(v)) \in Nat BY StoringFinite
<1>3. /\ IsFiniteSet(Storing(v) \ {p})
      /\ Cardinality(Storing(v) \ {p}) = Cardinality(Storing(v)) - 1
  BY <1>1, <1>2, FS_RemoveElement
<1>4. Cardinality(Storing(v) \ {p}) \in Nat BY <1>3, FS_CardinalityType
<1>5. Len(pages[v]) + Cardinality(Storing(v)) <= MaxPages BY DEF PagesKnown, PagesBounded
<1>6. QED BY <1>2, <1>3, <1>4, <1>5, SequenceDomain, Bounds

\* A page gets the version that is next when it is asked for.
LEMMA PageMaking ==
    ASSUME ConsumersTyped, PagesTyped, PagesKnown, UNCHANGED <<pages, reviews>>,
           NEW p \in Consumer, NEW v \in Variation, consumer[p].v = v, Stores(consumer[p]),
           consumer'[p].v = v, consumer'[p].version = NextVersion(v),
           \A q \in Consumer \ {p} : consumer'[q] = consumer[q]
    PROVE  PagesTyped' /\ PagesKnown'
<1>1. PagesTyped' BY DEF PagesTyped
<1>2. Len(pages[v]) <= MaxPages
  <2>1. Len(pages[v]) + 1 <= MaxPages BY PageRoom
  <2>2. QED BY <2>1, SequenceDomain, Bounds
<1>3. PagesBounded'
  <2>1. SUFFICES ASSUME NEW u \in Variation
                 PROVE  Len(pages[u]) + Cardinality(Storing(u)') <= MaxPages
    BY DEF PagesBounded
  <2>2. Storing(u)' \subseteq Storing(u) BY DEF Storing
  <2>3. Cardinality(Storing(u)') <= Cardinality(Storing(u)) /\ Cardinality(Storing(u)') \in Nat
    BY <2>2, StoringFinite, FS_Subset, FS_CardinalityType
  <2>4. Len(pages[u]) + Cardinality(Storing(u)) <= MaxPages BY DEF PagesKnown, PagesBounded
  <2>5. QED BY <2>3, <2>4, StoringFinite, SequenceDomain, Bounds
<1>4. VersionsKnown'
  <2>1. ASSUME NEW u \in Variation, NEW k \in 0 .. Len(pages[u]), VersionsTo(u, k)
        PROVE  VersionsTo(u, k)'
    <3>1. u = v => NextVersion(v) = k + 1 BY <1>2, <2>1, NextVersionIs
    <3>2. k \in Nat BY SequenceDomain
    <3>3. ASSUME NEW q \in Consumer, consumer'[q].at = "making", consumer'[q].v = u
          PROVE  consumer'[q].version \in 1 .. k + 1
      BY <2>1, <3>1, <3>2, <3>3 DEF VersionsTo
    <3>4. QED BY <2>1, <3>3 DEF VersionsTo
  <2>2. QED BY <2>1 DEF PagesKnown, VersionsKnown
<1>5. ReviewsKnown' BY DEF PagesKnown, ReviewsKnown
<1>6. QED BY <1>1, <1>3, <1>4, <1>5 DEF PagesKnown

PagesGrow == \A v \in Variation :
    /\ Len(pages[v]) <= Len(pages'[v])
    /\ \A n \in DOMAIN pages[v] : pages'[v][n] = pages[v][n]

\* A page is stored.
LEMMA PageStored ==
    ASSUME ConsumersTyped, PagesTyped, PagesKnown, NEW p \in Consumer, NEW v \in Variation,
           consumer[p].v = v, consumer[p].at = "making", NEW page,
           page = [version |-> consumer[p].version, content |-> consumer[p].content],
           pages' = [pages EXCEPT ![v] = Append(@, page)],
           Store = "memory" \/ \A i \in DOMAIN pages[v] : pages[v][i].version # consumer[p].version,
           ~Stores(consumer'[p]), consumer'[p].at # "making",
           \A q \in Consumer \ {p} : consumer'[q] = consumer[q],
           reviews' = IF consumer[p].content = "bare" THEN reviews
                      ELSE reviews \cup {<<"page", v, Len(pages[v]) + 1>>}
    PROVE  /\ PagesTyped' /\ PagesKnown' /\ PagesGrow
           /\ Len(pages[v]) + 1 \in 1 .. MaxPages
<1>0. consumer[p].content \in Content /\ Stores(consumer[p])
  BY NoneIsNoContent DEF ConsumersTyped, ConsumersShaped, Shape, Stores
<1>1. Len(pages[v]) + 1 \in 1 .. MaxPages /\ Len(pages[v]) \in Nat
  <2>1. Len(pages[v]) + 1 <= MaxPages BY <1>0, PageRoom
  <2>2. QED BY <2>1, SequenceDomain, Bounds
<1>2. PICK k \in 0 .. Len(pages[v]) : VersionsTo(v, k) BY DEF PagesKnown, VersionsKnown
<1>3. k \in Nat /\ consumer[p].version \in 1 .. k + 1 BY <1>1, <1>2 DEF VersionsTo
<1>4. page \in [version : 1 .. MaxPages + 1, content : Content]
  <2>1. consumer[p].version \in 1 .. MaxPages + 1 BY <1>1, <1>3, Bounds
  <2>2. QED BY <1>0, <2>1
<1>5. page.version = consumer[p].version /\ page.content = consumer[p].content OBVIOUS
<1>. DEFINE S == [version : 1 .. MaxPages + 1, content : Content]
<1>6. /\ pages' \in [Variation -> Seq(S)]
      /\ Len(pages'[v]) = Len(pages[v]) + 1 /\ pages'[v][Len(pages[v]) + 1] = page
      /\ DOMAIN pages'[v] = 1 .. Len(pages[v]) + 1
      /\ \A i \in DOMAIN pages[v] : pages'[v][i] = pages[v][i]
      /\ \A u \in Variation \ {v} : pages'[u] = pages[u]
  <2>1. pages \in [Variation -> Seq(S)] BY DEF PagesTyped
  <2>2. page \in S BY <1>4
  <2>. HIDE DEF S
  <2>3. pages[v] \in Seq(S) BY <2>1
  <2>4. pages'[v] = Append(pages[v], page) /\ \A u \in Variation \ {v} : pages'[u] = pages[u]
    BY <2>1
  <2>5. Append(pages[v], page) \in Seq(S) BY <2>2, <2>3
  <2>6. pages' \in [Variation -> Seq(S)] BY <2>1, <2>5
  <2>7. QED BY <2>2, <2>3, <2>4, <2>6
<1>. HIDE DEF S
<1>7. PagesGrow BY <1>1, <1>6, SequenceDomain DEF PagesGrow
<1>8. PagesTyped'
  <2>1. <<"page", v, Len(pages[v]) + 1>> \in Page BY <1>1, PageParts
  <2>2. reviews' \subseteq Page BY <2>1 DEF PagesTyped
  <2>3. QED BY <1>6, <2>2 DEF PagesTyped, S
<1>9. PagesBounded'
  <2>1. SUFFICES ASSUME NEW u \in Variation
                 PROVE  Len(pages'[u]) + Cardinality(Storing(u)') <= MaxPages
    BY DEF PagesBounded
  <2>2. Len(pages[u]) + Cardinality(Storing(u)) <= MaxPages BY DEF PagesKnown, PagesBounded
  <2>3. CASE u = v
    <3>1. Storing(v)' \subseteq Storing(v) \ {p} BY DEF Storing
    <3>2. IsFiniteSet(Storing(v) \ {p}) BY StoringFinite, FS_RemoveElement
    <3>3. Cardinality(Storing(v)') <= Cardinality(Storing(v) \ {p}) /\ Cardinality(Storing(v)') \in Nat
      BY <3>1, <3>2, FS_Subset, FS_CardinalityType
    <3>4. /\ Cardinality(Storing(v) \ {p}) + 1 = Cardinality(Storing(v))
          /\ Cardinality(Storing(v) \ {p}) \in Nat
      BY <1>0, PageRoom
    <3>5. QED BY <1>1, <1>6, <2>2, <2>3, <3>3, <3>4, Bounds
  <2>4. CASE u # v
    <3>1. Storing(u)' \subseteq Storing(u) BY DEF Storing
    <3>2. Cardinality(Storing(u)') <= Cardinality(Storing(u)) /\ Cardinality(Storing(u)') \in Nat
      BY <3>1, StoringFinite, FS_Subset, FS_CardinalityType
    <3>3. QED BY <1>6, <2>2, <2>4, <3>2, StoringFinite, SequenceDomain, Bounds
  <2>5. QED BY <2>3, <2>4
<1>10. VersionsKnown'
  <2>1. ASSUME NEW u \in Variation, u # v
        PROVE  \E j \in 0 .. Len(pages'[u]) : VersionsTo(u, j)'
    <3>1. PICK j \in 0 .. Len(pages[u]) : VersionsTo(u, j) BY DEF PagesKnown, VersionsKnown
    <3>2. pages'[u] = pages[u] BY <1>6, <2>1
    <3>3. \A q \in Consumer : consumer'[q].at = "making" /\ consumer'[q].v = u =>
                consumer'[q].version \in 1 .. j + 1
      BY <3>1 DEF VersionsTo
    <3>4. VersionsTo(u, j)'
      <4>1. \A n \in 1 .. j : \E i \in DOMAIN pages'[u] : pages'[u][i].version = n
        <5>1. \A n \in 1 .. j : \E i \in DOMAIN pages[u] : pages[u][i].version = n
          BY <3>1, Zenon DEF VersionsTo
        <5>2. QED BY ONLY <3>2, <5>1
      <4>2. \A i \in DOMAIN pages'[u] : pages'[u][i].version \in 1 .. j
        BY <3>1, <3>2 DEF VersionsTo
      <4>3. Store = "postgres" =>
                j = Len(pages'[u]) /\ \A i \in DOMAIN pages'[u] : pages'[u][i].version = i
        BY <3>1, <3>2 DEF VersionsTo
      <4>4. QED BY <3>3, <4>1, <4>2, <4>3 DEF VersionsTo
    <3>5. QED BY <3>2, <3>4
  <2>2. ASSUME consumer[p].version \in 1 .. k
        PROVE  \E j \in 0 .. Len(pages'[v]) : VersionsTo(v, j)'
    <3>0. Store # "postgres"
      <4>1. \E i \in DOMAIN pages[v] : pages[v][i].version = consumer[p].version
        BY <1>2, <2>2 DEF VersionsTo
      <4>2. QED BY <4>1
    <3>1. \A i \in DOMAIN pages'[v] : pages'[v][i].version \in 1 .. k
      <4>1. \A i \in DOMAIN pages[v] : pages'[v][i].version \in 1 .. k BY <1>2, <1>6 DEF VersionsTo
      <4>2. \A i \in DOMAIN pages'[v] : i \in DOMAIN pages[v] \/ i = Len(pages[v]) + 1
        BY <1>1, <1>6, SequenceDomain
      <4>3. QED BY <1>5, <1>6, <2>2, <4>1, <4>2
    <3>2. \A n \in 1 .. k : \E i \in DOMAIN pages'[v] : pages'[v][i].version = n
      <4>1. \A i \in DOMAIN pages[v] : i \in DOMAIN pages'[v] BY <1>1, <1>6, SequenceDomain
      <4>2. QED BY <1>2, <1>6, <4>1 DEF VersionsTo
    <3>3. VersionsTo(v, k)'
      <4>1. \A q \in Consumer : consumer'[q].at = "making" /\ consumer'[q].v = v =>
                consumer'[q].version \in 1 .. k + 1
        BY <1>2 DEF VersionsTo
      <4>2. QED BY <3>0, <3>1, <3>2, <4>1 DEF VersionsTo
    <3>4. k \in 0 .. Len(pages'[v]) BY <1>1, <1>3, <1>6
    <3>5. QED BY <3>3, <3>4
  <2>3. ASSUME consumer[p].version = k + 1
        PROVE  \E j \in 0 .. Len(pages'[v]) : VersionsTo(v, j)'
    <3>1. \A i \in DOMAIN pages'[v] : i \in DOMAIN pages[v] \/ i = Len(pages[v]) + 1
      BY <1>1, <1>6, SequenceDomain
    <3>2. \A i \in DOMAIN pages'[v] : pages'[v][i].version \in 1 .. k + 1
      <4>1. \A i \in DOMAIN pages[v] : pages'[v][i].version \in 1 .. k + 1
        BY <1>2, <1>3, <1>6 DEF VersionsTo
      <4>2. QED BY <1>3, <1>5, <1>6, <2>3, <3>1, <4>1
    <3>3. \A n \in 1 .. k + 1 : \E i \in DOMAIN pages'[v] : pages'[v][i].version = n
      <4>1. \A i \in DOMAIN pages[v] : i \in DOMAIN pages'[v] BY <1>1, <1>6, SequenceDomain
      <4>2. \A n \in 1 .. k : \E i \in DOMAIN pages'[v] : pages'[v][i].version = n
        BY <1>2, <1>6, <4>1 DEF VersionsTo
      <4>3. Len(pages[v]) + 1 \in DOMAIN pages'[v] BY <1>1, <1>6
      <4>4. \A n \in 1 .. k + 1 : n \in 1 .. k \/ n = k + 1 BY <1>3
      <4>5. pages'[v][Len(pages[v]) + 1].version = k + 1 BY <1>5, <1>6, <2>3
      <4>6. QED BY <4>2, <4>3, <4>4, <4>5
    <3>4. \A q \in Consumer : consumer'[q].at = "making" /\ consumer'[q].v = v =>
                consumer'[q].version \in 1 .. (k + 1) + 1
      <4>1. \A n : n \in 1 .. k + 1 => n \in 1 .. (k + 1) + 1 BY <1>3
      <4>2. QED BY <1>2, <4>1 DEF VersionsTo
    <3>5. Store = "postgres" =>
              k + 1 = Len(pages'[v]) /\ \A i \in DOMAIN pages'[v] : pages'[v][i].version = i
      BY <1>2, <1>5, <1>6, <2>3, <3>1 DEF VersionsTo
    <3>6. VersionsTo(v, k + 1)' BY <3>2, <3>3, <3>4, <3>5 DEF VersionsTo
    <3>7. k + 1 \in 0 .. Len(pages'[v]) BY <1>1, <1>3, <1>6
    <3>8. QED BY <3>6, <3>7
  <2>4. consumer[p].version \in 1 .. k \/ consumer[p].version = k + 1 BY <1>3
  <2>5. QED BY <2>1, <2>2, <2>3, <2>4 DEF VersionsKnown
<1>11. ReviewsKnown'
  <2>1. SUFFICES ASSUME NEW r \in reviews'
                 PROVE  r[3] \in DOMAIN pages'[r[2]] /\ pages'[r[2]][r[3]].content # "bare"
    BY DEF ReviewsKnown
  <2>2. CASE r \in reviews
    <3>1. r[2] \in Variation /\ r[3] \in DOMAIN pages[r[2]] /\ pages[r[2]][r[3]].content # "bare"
      BY <2>2, PageParts DEF PagesTyped, PagesKnown, ReviewsKnown
    <3>2. CASE r[2] = v BY <1>1, <1>6, <3>1, <3>2, SequenceDomain
    <3>3. CASE r[2] # v BY <1>6, <3>1, <3>3
    <3>4. QED BY <3>2, <3>3
  <2>3. CASE r \notin reviews
    <3>1. r = <<"page", v, Len(pages[v]) + 1>> /\ consumer[p].content # "bare" BY <2>3
    <3>2. QED BY <1>1, <1>5, <1>6, <3>1
  <2>4. QED BY <2>2, <2>3
<1>12. QED BY <1>1, <1>7, <1>8, <1>9, <1>10, <1>11 DEF PagesKnown

-----------------------------------------------------------------------------
(* Rows, finalizations and the administrator's cancel.                     *)

Write == [by : Task, v : Variation, status : Status \cup {"keep"},
          artifact : 0 .. MaxPages, row : Row, read : BOOLEAN]
FinalRecord == [by : Task, at : {"snapshot", "reconciling", "concluding"},
                snapshot : [Variation -> Row], todo : SUBSET Variation, status : Terminal \cup {"none"}]
Finalization == {f \in FinalRecord : f.at = "concluding" => f.status # "none"}

RowsTyped ==
    /\ job \in {"absent", "queued", "running"} \cup Terminal
    /\ var \in [Variation -> Row] /\ writes \subseteq Write

FinalsTyped == finals \subseteq Finalization
CancelTyped == cancel \in [at : {"idle", "asking", "cancelling"}, todo : SUBSET Variation]
CountsTyped ==
    /\ pending \subseteq Variation /\ ended \in 0 .. 2
    /\ confirms \in 0 .. MaxConfirms /\ upsets \in 0 .. MaxUpsets

LEMMA TypeParts ==
    TypeInvariant <=> /\ ConsumersTyped /\ PagesTyped /\ PagesKnown /\ RowsTyped
                      /\ FinalsTyped /\ CancelTyped /\ CountsTyped
BY DEF TypeInvariant, TypeOK, ConsumersTyped, PagesTyped, RowsTyped, FinalsTyped, CancelTyped,
       CountsTyped, Write, FinalRecord, Finalization, FinalsKnown, Status

LEMMA TypeRestored ==
    (/\ ConsumersTyped' /\ PagesTyped' /\ PagesKnown' /\ RowsTyped'
     /\ FinalsTyped' /\ CancelTyped' /\ CountsTyped') => TypeInvariant'
BY DEF TypeInvariant, TypeOK, ConsumersTyped, PagesTyped, RowsTyped, FinalsTyped, CancelTyped,
       CountsTyped, Write, FinalRecord, Finalization, FinalsKnown, Status

LEMMA NoRowTyped == NoRow \in Row
BY Bounds DEF NoRow, Row

LEMMA MergeTyped ==
    ASSUME NEW row \in Row, NEW status \in Status \cup {"keep"}, NEW artifact \in 0 .. MaxPages
    PROVE  Merge(row, status, artifact) \in Row
BY DEF Merge, Row, Status

LEMMA ApplyTyped ==
    ASSUME RowsTyped, NEW task \in Task, NEW v \in Variation, NEW status \in Status \cup {"keep"},
           NEW artifact \in 0 .. MaxPages, Apply(task, v, status, artifact)
    PROVE  var' \in [Variation -> Row] /\ writes' \subseteq Write
<1>1. CASE Store = "memory"
  <2>1. /\ var' = [var EXCEPT ![v] = Merge(var[v], status, artifact)]
        /\ writes' = writes
    BY <1>1 DEF Apply
  <2>2. Merge(var[v], status, artifact) \in Row BY MergeTyped DEF RowsTyped
  <2>3. QED BY <2>1, <2>2 DEF RowsTyped
<1>2. CASE Store # "memory"
  <2>. DEFINE w == [by |-> task, v |-> v, status |-> status, artifact |-> artifact, row |-> NoRow,
                    read |-> FALSE]
  <2>1. writes' = writes \cup {w} /\ var' = var BY <1>2 DEF Apply
  <2>2. w \in Write BY NoRowTyped DEF Write
  <2>3. QED BY <2>1, <2>2 DEF RowsTyped
<1>3. QED BY <1>1, <1>2

LEMMA SameRows == ASSUME RowsTyped, UNCHANGED <<job, var, writes>> PROVE RowsTyped'
BY DEF RowsTyped

LEMMA NewFinalTyped ==
    ASSUME NEW task \in {Worker} \cup Repair \cup Page
    PROVE  NewFinal(task) \in Finalization
BY Tasks, NoRowTyped DEF NewFinal, Finalization, FinalRecord

LEMMA FinishReviewTyped ==
    ASSUME FinalsTyped, CountsTyped, NEW task \in Repair \cup Page, NEW v,
           FinishAutomationReview(v, task), UNCHANGED <<ended, confirms, upsets>>
    PROVE  FinalsTyped' /\ CountsTyped'
BY NewFinalTyped DEF FinalsTyped, CountsTyped, FinishAutomationReview

-----------------------------------------------------------------------------
(* Steps of the consumers.                                                 *)

RepairsStay == \A p \in Repair : consumer'[p].at # "absent" => consumer[p].at # "absent"

\* What a step keeps of consumers and pages.
QueueKept == ConsumersTyped' /\ PagesTyped' /\ PagesKnown' /\ RepairsStay /\ PagesGrow

LEMMA PagesSame ==
    ASSUME PagesTyped, UNCHANGED pages
    PROVE  PagesGrow
<1>1. \A v \in Variation : Len(pages[v]) <= Len(pages'[v]) BY SequenceDomain
<1>2. QED BY <1>1 DEF PagesGrow

LEMMA MoveKeeps ==
    ASSUME ConsumersTyped, PagesTyped, PagesKnown, NEW p \in Consumer, NEW c \in Progress, Shape(p, c),
           ~Stores(c), c.at # "making", Move(p, c), p = Worker \/ consumer[p].at # "absent",
           UNCHANGED pages, reviews' \subseteq reviews
    PROVE  QueueKept
<1>1. /\ ConsumersTyped' /\ consumer'[p] = c
      /\ \A q \in Consumer \ {p} : consumer'[q] = consumer[q]
  BY Moves
<1>2. PagesTyped' /\ PagesKnown' BY <1>1, RoomKept
<1>3. RepairsStay BY <1>1, Tasks, RepairParts DEF RepairsStay
<1>4. QED BY <1>1, <1>2, <1>3, PagesSame DEF QueueKept

LEMMA StayKeeps ==
    ASSUME ConsumersTyped, PagesTyped, PagesKnown, UNCHANGED <<consumer, pages>>, reviews' \subseteq reviews
    PROVE  QueueKept
<1>1. ConsumersTyped' BY DEF ConsumersTyped, ConsumersShaped
<1>2. PagesTyped' /\ PagesKnown' BY RoomKept
<1>3. QED BY <1>1, <1>2, PagesSame DEF QueueKept, RepairsStay

\* Where a consumer may leave an event for.
LEMMA LeaveKeeps ==
    ASSUME ConsumersTyped, PagesTyped, PagesKnown, NEW p \in Consumer, consumer[p].at # "absent",
           NEW place \in {"streaming", "failing", "marking", "stopping", "releasing"},
           place \in {"stopping", "releasing"} => p \in Repair, Leave(p, place),
           UNCHANGED pages, reviews' \subseteq reviews
    PROVE  QueueKept
<1>. DEFINE c == [consumer[p] EXCEPT !.at = place, !.v = None, !.kind = "none", !.content = "none",
                  !.seen = "absent", !.version = 0]
<1>1. consumer[p] \in Progress BY DEF ConsumersTyped
<1>2. c \in Progress /\ c.at = place /\ c.content = "none"
  <2>1. /\ place \in Place /\ None \in Someone /\ 0 \in Versions
        /\ "none" \in EventKind /\ "none" \in Contents /\ "absent" \in Statuses
    BY Bounds DEF Place, EventKind, Someone, Versions, Contents, Statuses
  <2>2. c \in Progress BY <1>1, <2>1, FieldsTyped, Zenon
  <2>3. c.at = place /\ c.content = "none" BY <1>1 DEF Progress
  <2>4. QED BY <2>2, <2>3
<1>3. Move(p, c) BY DEF Leave
<1>. HIDE DEF c
<1>4. Shape(p, c) /\ ~Stores(c) /\ c.at # "making" BY <1>2 DEF Shape, Stores
<1>5. QED BY <1>2, <1>3, <1>4, MoveKeeps

LEMMA FinishKeeps ==
    ASSUME ConsumersTyped, PagesTyped, PagesKnown, NEW p \in Consumer, consumer[p].at # "absent",
           Finish(p), UNCHANGED pages, reviews' \subseteq reviews
    PROVE  QueueKept
<1>. DEFINE c == [Idle EXCEPT !.at = "done"]
<1>1. c \in Progress /\ c.at = "done" BY IdleTyped DEF Place
<1>2. Move(p, c) BY DEF Finish
<1>. HIDE DEF c
<1>3. Shape(p, c) /\ ~Stores(c) /\ c.at # "making" BY <1>1 DEF Shape, Stores
<1>4. QED BY <1>1, <1>2, <1>3, MoveKeeps

\* Going on to another place without an event.
LEMMA AtKeeps ==
    ASSUME ConsumersTyped, PagesTyped, PagesKnown, NEW p \in Consumer, p = Worker \/ consumer[p].at # "absent",
           NEW at \in {"created", "prepared", "abandoned", "queued", "streaming", "failing"},
           Move(p, [consumer[p] EXCEPT !.at = at]), UNCHANGED pages, reviews' \subseteq reviews
    PROVE  QueueKept
<1>. DEFINE c == [consumer[p] EXCEPT !.at = at]
<1>0. consumer[p] \in Progress /\ at \in Place BY DEF ConsumersTyped, Place
<1>1. c \in Progress /\ c.at = at BY <1>0, AtTyped, Zenon
<1>3. Move(p, c) BY Zenon DEF Move
<1>. HIDE DEF c
<1>2. Shape(p, c) /\ ~Stores(c) /\ c.at # "making" BY <1>1 DEF Shape, Stores
<1>4. QED BY <1>1, <1>2, <1>3, MoveKeeps

\* Everything keeps its type, and no repair is added.
StepKept ==
    /\ QueueKept /\ RowsTyped' /\ FinalsTyped' /\ CancelTyped' /\ CountsTyped' /\ confirms' = confirms

\* The request that creates the job, and the worker between its events.
LEMMA WorkerKeeps ==
    ASSUME TypeInvariant, CreateDesignJob \/ RunMockJob \/ AbandonJob
    PROVE  StepKept
<1>. DEFINE c == consumer[Worker]
<1>0. /\ ConsumersTyped /\ PagesTyped /\ PagesKnown /\ RowsTyped /\ FinalsTyped /\ CancelTyped
      /\ CountsTyped /\ Worker \in Consumer /\ c \in Progress /\ Worker \in Task
  BY TypeParts, Tasks DEF ConsumersTyped
<1>1. CASE CreateJob \/ CreateVariations \/ EnqueueDesignJob \/ AbandonJob \/ StartDesignJob \/ EndStream
  <2>1. /\ UNCHANGED <<pages, reviews, pending, finals, cancel, writes, ended, confirms>>
        /\ \E at \in {"created", "prepared", "abandoned", "queued", "streaming", "failing"} :
              Move(Worker, [consumer[Worker] EXCEPT !.at = at])
        /\ upsets' = upsets \/ Upset
        /\ job' \in {job, "queued", "running"}
        /\ var' = var \/ var' = [v \in Variation |-> [status |-> "queued", artifact |-> 0]]
    BY <1>1 DEF CreateJob, CreateVariations, EnqueueDesignJob, AbandonJob, StartDesignJob, EndStream, rowVars
  <2>2. QueueKept BY <1>0, <2>1, AtKeeps
  <2>3. RowsTyped'
    <3>1. [status |-> "queued", artifact |-> 0] \in Row BY Bounds DEF Row, Unfinished
    <3>2. QED BY <1>0, <2>1, <3>1 DEF RowsTyped
  <2>4. CountsTyped' BY <1>0, <2>1, Bounds DEF CountsTyped, Upset
  <2>5. QED BY <1>0, <2>1, <2>2, <2>3, <2>4 DEF StepKept, FinalsTyped, CancelTyped
<1>2. CASE FailUnfinishedVariations \/ FailUnfinished
  <2>1. /\ UNCHANGED <<rowVars, pending, reviews, finals, cancel, writes, ended, confirms, upsets>>
        /\ consumer[Worker].at \in {"failing", "marking"}
    BY <1>2 DEF FailUnfinishedVariations, FailUnfinished
  <2>2. \E d \in Progress : Move(Worker, d) /\ Shape(Worker, d) /\ ~Stores(d) /\ d.at # "making"
    <3>1. CASE FailUnfinishedVariations
      <4>. DEFINE todo == {v \in Variation : var[v].status \notin Terminal /\ var[v].artifact = 0}
                  d == [consumer[Worker] EXCEPT !.at = "marking", !.todo = todo]
      <4>1. Move(Worker, d) BY <3>1 DEF FailUnfinishedVariations
      <4>2. todo \in SUBSET Variation OBVIOUS
      <4>. HIDE DEF todo
      <4>3. d \in Progress
        <5>1. "marking" \in Place BY DEF Place
        <5>2. todo \in Variations BY <4>2 DEF Variations
        <5>3. QED BY <1>0, <5>1, <5>2, TodoTyped, Zenon
      <4>4. d.at = "marking" BY <1>0 DEF Progress
      <4>5. Shape(Worker, d) /\ ~Stores(d) /\ d.at # "making" BY <4>4 DEF Shape, Stores
      <4>6. QED BY <4>1, <4>3, <4>5
    <3>2. CASE FailUnfinished
      <4>1. PICK v \in consumer[Worker].todo :
                Move(Worker, [consumer[Worker] EXCEPT !.at = "handling", !.kind = "unfinished",
                              !.content = "none", !.v = v, !.seen = var[v].status, !.todo = @ \ {v}])
        BY <3>2 DEF FailUnfinished
      <4>. DEFINE todo == consumer[Worker].todo \ {v}
                  d == [consumer[Worker] EXCEPT !.at = "handling", !.kind = "unfinished",
                        !.content = "none", !.v = v, !.seen = var[v].status, !.todo = todo]
      <4>2. v \in Variation /\ todo \in SUBSET Variation BY <1>0, ProgressParts DEF Variations
      <4>3. var[v].status \in Status \cup {"absent"} BY <1>0, <4>2 DEF RowsTyped, Row, Status
      <4>4. Move(Worker, d) BY <4>1
      <4>. HIDE DEF todo
      <4>5. d \in Progress
        <5>1. "handling" \in Place /\ "unfinished" \in EventKind BY DEF Place, EventKind
        <5>2. "none" \in Contents /\ v \in Someone /\ todo \in Variations /\ var[v].status \in Statuses
          BY <4>2, <4>3 DEF Contents, Someone, Variations, Statuses
        <5>3. QED BY <1>0, <5>1, <5>2, UnfinishedTyped, Zenon
      <4>6. d.content = "none" /\ d.v = v /\ d.at = "handling" BY <1>0 DEF Progress
      <4>7. Shape(Worker, d) /\ ~Stores(d) /\ d.at # "making" BY <4>2, <4>6 DEF Shape, Stores, Scope
      <4>8. QED BY <4>4, <4>5, <4>7
    <3>3. QED BY <1>2, <3>1, <3>2
  <2>3. QueueKept BY <1>0, <2>1, <2>2, MoveKeeps DEF rowVars
  <2>4. QED BY <1>0, <2>1, <2>3 DEF StepKept, RowsTyped, FinalsTyped, CancelTyped, CountsTyped, rowVars
<1>3. CASE EndDesignJob
  <2>1. /\ consumer[Worker].at = "marking" /\ Finish(Worker)
        /\ finals' = IF pending = {} THEN finals \cup {NewFinal(Worker)} ELSE finals
        /\ UNCHANGED <<rowVars, pending, reviews, cancel, writes, ended, confirms, upsets>>
    BY <1>3 DEF EndDesignJob
  <2>2. QueueKept BY <1>0, <2>1, FinishKeeps DEF rowVars
  <2>3. FinalsTyped' BY <1>0, <2>1, NewFinalTyped DEF FinalsTyped
  <2>4. QED BY <1>0, <2>1, <2>2, <2>3 DEF StepKept, RowsTyped, CancelTyped, CountsTyped, rowVars
<1>4. QED BY <1>1, <1>2, <1>3 DEF CreateDesignJob, RunMockJob

\* What the streams bring.
LEMMA ReceiveKeeps ==
    ASSUME TypeInvariant, NEW p \in Consumer, NEW v \in Variation, NEW kind \in EventKind,
           NEW content \in Contents, Receive(p, v, kind, content),
           kind \in ProgressKind(p) \/ v \in consumer[p].results => consumer[p].left > 0
    PROVE  StepKept
<1>. DEFINE left == IF kind \in ProgressKind(p) \/ v \in consumer[p].results
                    THEN consumer[p].left - 1 ELSE consumer[p].left
            results == IF kind \in ProgressKind(p) THEN consumer[p].results ELSE consumer[p].results \cup {v}
            c == [consumer[p] EXCEPT !.at = "handling", !.v = v, !.kind = kind, !.content = content,
                  !.seen = var[v].status, !.left = left, !.results = results]
<1>0. /\ ConsumersTyped /\ PagesTyped /\ PagesKnown /\ RowsTyped /\ FinalsTyped /\ CancelTyped
      /\ CountsTyped /\ consumer[p] \in Progress
  BY TypeParts DEF ConsumersTyped
<1>1. /\ consumer[p].at = "streaming" /\ v \in Scope(p) /\ Move(p, c)
      /\ content # "none" => PageCount(v) < MaxPages
      /\ UNCHANGED <<rowVars, pending, reviews, finals, cancel, writes, ended, confirms, upsets>>
  BY DEF Receive, Streaming
<1>2. c \in Progress
  <2>1. "handling" \in Place /\ v \in Someone /\ var[v].status \in Statuses
    BY <1>0 DEF Place, Someone, Statuses, RowsTyped, Row, Status
  <2>2. left \in Budgets
    <3>1. consumer[p].left \in 0 .. MaxEvents BY <1>0, ProgressParts DEF Budgets
    <3>2. QED BY <3>1, Bounds DEF Budgets
  <2>3. results \in Variations
    <3>1. consumer[p].results \in SUBSET Variation BY <1>0, ProgressParts DEF Variations
    <3>2. QED BY <3>1 DEF Variations
  <2>. HIDE DEF left, results
  <2>4. QED BY <1>0, <2>1, <2>2, <2>3, EventTyped, Zenon
<1>3. c.at = "handling" /\ c.v = v /\ c.content = content BY <1>0 DEF Progress
<1>. HIDE DEF c
<1>4. Shape(p, c) BY <1>1, <1>3 DEF Shape
<1>5. /\ ConsumersTyped' /\ consumer'[p] = c
      /\ \A q \in Consumer \ {p} : consumer'[q] = consumer[q]
  BY <1>0, <1>1, <1>2, <1>4, Moves
<1>6. PagesTyped' /\ PagesKnown'
  <2>1. CASE content = "none"
    <3>1. ~Stores(c) /\ c.at # "making" BY <1>3, <2>1 DEF Stores
    <3>2. QED BY <1>0, <1>1, <1>5, <3>1, RoomKept DEF rowVars
  <2>2. CASE content # "none"
    BY <1>0, <1>1, <1>3, <1>5, <2>2, PageReceived DEF rowVars
  <2>3. QED BY <2>1, <2>2
<1>7. RepairsStay BY <1>1, <1>5, Tasks DEF RepairsStay
<1>8. QED
  BY <1>0, <1>1, <1>5, <1>6, <1>7, PagesSame
  DEF StepKept, QueueKept, RowsTyped, FinalsTyped, CancelTyped, CountsTyped, rowVars

LEMMA StreamKeeps ==
    ASSUME TypeInvariant, NEW p \in Consumer, ReceiveProgress(p) \/ ReceiveResult(p) \/ ReceiveBreak(p)
    PROVE  StepKept
<1>0. consumer[p].results \subseteq Variation
  BY TypeParts, ProgressParts DEF ConsumersTyped, Variations
<1>1. CASE ReceiveProgress(p)
  <2>1. PICK v \in Variation, kind \in ProgressKind(p) :
            /\ consumer[p].left > 0
            /\ \E content \in {"none"} \cup UpdateContent : Receive(p, v, kind, content)
    BY <1>1 DEF ReceiveProgress
  <2>2. kind \in EventKind BY <2>1 DEF ProgressKind, EventKind
  <2>3. UpdateContent \subseteq Contents /\ "none" \in Contents BY DEF UpdateContent, Contents
  <2>4. QED BY <2>1, <2>2, <2>3, ReceiveKeeps
<1>2. CASE ReceiveResult(p)
  <2>1. PICK v \in Variation \ consumer[p].results :
            \/ Receive(p, v, "failed", "none")
            \/ \E content \in ResultContent : Receive(p, v, "completed", content)
    BY <1>2 DEF ReceiveResult
  <2>2. {"failed", "completed"} \subseteq EventKind /\ {"failed", "completed"} \cap ProgressKind(p) = {}
    BY DEF ProgressKind, EventKind
  <2>3. ResultContent \subseteq Contents /\ "none" \in Contents BY DEF ResultContent, Contents
  <2>4. QED BY <2>1, <2>2, <2>3, ReceiveKeeps
<1>3. CASE ReceiveBreak(p)
  <2>1. PICK v \in consumer[p].results : consumer[p].left > 0 /\ Receive(p, v, "failed", "none")
    BY <1>3 DEF ReceiveBreak
  <2>2. "failed" \in EventKind /\ "none" \in Contents BY DEF EventKind, Contents
  <2>3. QED BY <1>0, <2>1, <2>2, ReceiveKeeps
<1>4. QED BY <1>1, <1>2, <1>3

\* An event that is applied to the row, and left.
LEMMA AppliedKeeps ==
    ASSUME TypeInvariant, NEW p \in Consumer, consumer[p].at \in {"handling", "applying"},
           NEW status \in Status \cup {"keep"}, NEW artifact \in 0 .. MaxPages,
           UNCHANGED <<var, writes>> \/ Apply(p, consumer[p].v, status, artifact),
           NEW place \in {"streaming", "marking", "stopping"}, place = "stopping" => p \in Repair,
           Leave(p, place),
           UNCHANGED <<job, pages, pending, reviews, finals, cancel, ended, confirms, upsets>>
    PROVE  StepKept
<1>0. /\ ConsumersTyped /\ PagesTyped /\ PagesKnown /\ RowsTyped /\ FinalsTyped /\ CancelTyped
      /\ CountsTyped
  BY TypeParts
<1>1. consumer[p].v \in Variation /\ p \in Task
  BY <1>0, Scopes, Tasks DEF ConsumersTyped, ConsumersShaped, Shape
<1>2. RowsTyped' BY <1>0, <1>1, ApplyTyped DEF RowsTyped
<1>3. QueueKept BY <1>0, LeaveKeeps
<1>4. QED BY <1>0, <1>2, <1>3 DEF StepKept, FinalsTyped, CancelTyped, CountsTyped

LEMMA HandledKeeps ==
    ASSUME TypeInvariant, NEW p \in Consumer,
           HandleProgress(p) \/ HandleFailure(p) \/ HandleUpdate(p) \/ ApplyArtifact(p)
    PROVE  StepKept
<1>0. consumer[p] \in Progress /\ Shape(p, consumer[p])
  BY TypeParts DEF ConsumersTyped, ConsumersShaped
<1>1. 0 \in 0 .. MaxPages BY Bounds
<1>2. SeenTerminal(p) => consumer[p].seen \in Status \cup {"keep"} BY DEF SeenTerminal, Status
<1>3. {"queued", "streaming", "keep", "failed", "rendering_preview", "completed"} \subseteq Status \cup {"keep"}
  BY DEF Status, Unfinished, Terminal
<1>4. CASE HandleProgress(p)
  <2>1. /\ consumer[p].at = "handling" /\ Leave(p, "streaming")
        /\ UNCHANGED <<job, pages, pending, reviews, finals, cancel, ended, confirms, upsets>>
        /\ \/ UNCHANGED <<var, writes>>
           \/ \E status \in {"queued", "streaming", "keep"} : Apply(p, consumer[p].v, status, 0)
    BY <1>4 DEF HandleProgress
  <2>2. QED BY <1>1, <1>3, <2>1, AppliedKeeps
<1>5. CASE HandleFailure(p)
  <2>1. /\ consumer[p].at = "handling"
        /\ \E place \in {"streaming", "marking", "stopping"} :
              Leave(p, place) /\ (place = "stopping" => p \in Repair)
        /\ UNCHANGED <<job, pages, pending, reviews, finals, cancel, ended, confirms, upsets>>
        /\ UNCHANGED <<var, writes>> \/ Apply(p, consumer[p].v, "failed", 0)
    BY <1>5 DEF HandleFailure
  <2>2. QED BY <1>1, <1>3, <2>1, AppliedKeeps
<1>6. CASE HandleUpdate(p)
  <2>1. /\ consumer[p].at = "handling" /\ Leave(p, "streaming")
        /\ UNCHANGED <<job, pages, pending, reviews, finals, cancel, ended, confirms, upsets>>
        /\ \E status \in Status \cup {"keep"} : Apply(p, consumer[p].v, status, 0)
    BY <1>2, <1>3, <1>6 DEF HandleUpdate
  <2>2. QED BY <1>1, <2>1, AppliedKeeps
<1>7. CASE ApplyArtifact(p)
  <2>1. /\ consumer[p].at = "applying" /\ Leave(p, "streaming")
        /\ UNCHANGED <<job, pages, pending, reviews, finals, cancel, ended, confirms, upsets>>
        /\ \E status \in Status \cup {"keep"} : Apply(p, consumer[p].v, status, consumer[p].version)
    BY <1>2, <1>3, <1>7 DEF ApplyArtifact
  <2>2. consumer[p].version \in 0 .. MaxPages BY <1>0, <2>1 DEF Shape
  <2>3. QED BY <2>1, <2>2, AppliedKeeps
<1>8. QED BY <1>4, <1>5, <1>6, <1>7

\* A page on its way into the store.
LEMMA PageKeeps ==
    ASSUME TypeInvariant, NEW p \in Consumer, HandlePage(p) \/ MaterializeArtifact(p) \/ MaterializeFails(p)
    PROVE  StepKept
<1>. DEFINE v == consumer[p].v
            n == Len(pages[v]) + 1
<1>0. /\ ConsumersTyped /\ PagesTyped /\ PagesKnown /\ RowsTyped /\ FinalsTyped /\ CancelTyped
      /\ CountsTyped /\ consumer[p] \in Progress /\ Shape(p, consumer[p])
  BY TypeParts DEF ConsumersTyped, ConsumersShaped
<1>1. CASE HandlePage(p)
  <2>. DEFINE c == [consumer[p] EXCEPT !.at = "making", !.version = NextVersion(v)]
  <2>1. /\ consumer[p].at = "handling" /\ consumer[p].content # "none" /\ Move(p, c)
        /\ UNCHANGED <<rowVars, pending, reviews, finals, cancel, writes, ended, confirms, upsets>>
    BY <1>1 DEF HandlePage
  <2>2. v \in Scope(p) /\ v \in Variation BY <1>0, <2>1, Scopes DEF Shape
  <2>3. NextVersion(v) \in Versions
    <3>1. PICK k \in 0 .. Len(pages[v]) : VersionsTo(v, k) BY <1>0, <2>2 DEF PagesKnown, VersionsKnown
    <3>2. Len(pages[v]) + 1 <= MaxPages BY <1>0, <2>1, <2>2, PageRoom DEF Stores
    <3>3. Len(pages[v]) \in Nat BY <1>0, <2>2, SequenceDomain
    <3>4. NextVersion(v) = k + 1 BY <1>0, <2>2, <3>1, <3>2, <3>3, NextVersionIs, Bounds
    <3>5. QED BY <3>2, <3>3, <3>4, Bounds DEF Versions
  <2>4. c \in Progress
    <3>1. "making" \in Place BY DEF Place
    <3>2. QED BY <1>0, <2>3, <3>1, VersionTyped, Zenon
  <2>5. c.at = "making" /\ c.v = v /\ c.content = consumer[p].content /\ c.version = NextVersion(v)
    BY <1>0 DEF Progress
  <2>. HIDE DEF c
  <2>6. Shape(p, c)
    <3>1. c.content \in Content BY <1>0, <2>1, <2>5, ProgressParts DEF Contents
    <3>2. QED BY <2>2, <2>5, <3>1 DEF Shape
  <2>7. /\ ConsumersTyped' /\ consumer'[p] = c
        /\ \A q \in Consumer \ {p} : consumer'[q] = consumer[q]
    BY <1>0, <2>1, <2>4, <2>6, Moves
  <2>8. PagesTyped' /\ PagesKnown'
    BY <1>0, <2>1, <2>2, <2>5, <2>7, PageMaking DEF Stores, rowVars
  <2>9. RepairsStay BY <2>1, <2>7, Tasks DEF RepairsStay
  <2>10. QED
    BY <1>0, <2>1, <2>7, <2>8, <2>9, PagesSame
    DEF StepKept, QueueKept, RowsTyped, FinalsTyped, CancelTyped, CountsTyped, rowVars
<1>2. CASE MaterializeArtifact(p)
  <2>. DEFINE page == [version |-> consumer[p].version, content |-> consumer[p].content]
              c == [consumer[p] EXCEPT !.at = "applying", !.version = n]
  <2>1. /\ consumer[p].at = "making" /\ Move(p, c)
        /\ Store = "memory" \/ \A i \in DOMAIN pages[v] : pages[v][i].version # consumer[p].version
        /\ pages' = [pages EXCEPT ![v] = Append(@, page)]
        /\ reviews' = IF consumer[p].content = "bare" THEN reviews ELSE reviews \cup {<<"page", v, n>>}
        /\ \/ UNCHANGED <<pending, var, writes>>
           \/ pending' = pending \cup {v} /\ Apply(<<"page", v, n>>, v, "rendering_preview", n)
        /\ UNCHANGED <<job, finals, cancel, ended, confirms, upsets>>
    BY <1>2 DEF MaterializeArtifact
  <2>2. v \in Scope(p) /\ v \in Variation BY <1>0, <2>1, Scopes DEF Shape
  <2>3. n \in 1 .. MaxPages
    <3>1. Stores(consumer[p]) BY <1>0, <2>1, NoneIsNoContent DEF Shape, Stores
    <3>2. Len(pages[v]) + 1 <= MaxPages BY <1>0, <2>2, <3>1, PageRoom
    <3>3. QED BY <1>0, <2>2, <3>2, SequenceDomain, Bounds
  <2>4. c \in Progress
    <3>1. "applying" \in Place /\ n \in Versions BY <2>3, Bounds DEF Place, Versions
    <3>2. QED BY <1>0, <3>1, VersionTyped, Zenon
  <2>5. c.at = "applying" /\ c.v = v /\ c.version = n BY <1>0 DEF Progress
  <2>. HIDE DEF c
  <2>6. Shape(p, c) /\ ~Stores(c) /\ c.at # "making" BY <2>2, <2>3, <2>5 DEF Shape, Stores
  <2>7. /\ ConsumersTyped' /\ consumer'[p] = c
        /\ \A q \in Consumer \ {p} : consumer'[q] = consumer[q]
    BY <1>0, <2>1, <2>4, <2>6, Moves
  <2>8. PagesTyped' /\ PagesKnown' /\ PagesGrow
    BY <1>0, <2>1, <2>2, <2>6, <2>7, PageStored
  <2>9. RowsTyped'
    <3>1. <<"page", v, n>> \in Task BY <2>2, <2>3, PageParts, Tasks
    <3>2. "rendering_preview" \in Status \cup {"keep"} /\ n \in 0 .. MaxPages
      BY <2>3, Bounds DEF Status, Unfinished
    <3>3. QED BY <1>0, <2>1, <2>2, <3>1, <3>2, ApplyTyped DEF RowsTyped
  <2>10. RepairsStay BY <2>1, <2>7, Tasks DEF RepairsStay
  <2>11. QED
    BY <1>0, <2>1, <2>2, <2>7, <2>8, <2>9, <2>10
    DEF StepKept, QueueKept, FinalsTyped, CancelTyped, CountsTyped
<1>3. CASE MaterializeFails(p)
  <2>1. /\ consumer[p].at = "making"
        /\ \E place \in {"failing", "releasing"} : Leave(p, place) /\ (place = "releasing" => p # Worker)
        /\ UNCHANGED <<rowVars, pending, reviews, finals, cancel, writes, ended, confirms, upsets>>
    BY <1>3 DEF MaterializeFails
  <2>2. p # Worker => p \in Repair BY DEF Consumer
  <2>3. QueueKept BY <1>0, <2>1, <2>2, LeaveKeeps DEF rowVars
  <2>4. QED
    BY <1>0, <2>1, <2>3 DEF StepKept, RowsTyped, FinalsTyped, CancelTyped, CountsTyped, rowVars
<1>4. QED BY <1>1, <1>2, <1>3

\* The end of a run.
LEMMA FinalKeeps ==
    ASSUME TypeInvariant, NEW f \in finals, FinalizeQueuedDesignJob(f)
    PROVE  StepKept
<1>0. /\ ConsumersTyped /\ PagesTyped /\ PagesKnown /\ RowsTyped /\ FinalsTyped /\ CancelTyped
      /\ CountsTyped /\ f \in FinalRecord /\ (f.at = "concluding" => f.status # "none")
  BY TypeParts DEF FinalsTyped, Finalization
<1>1. ASSUME UNCHANGED <<pages, pending, consumer, reviews, cancel, confirms, upsets>>,
             RowsTyped', finals' \subseteq Finalization, ended' \in 0 .. 2
      PROVE  StepKept
  <2>1. QueueKept BY <1>0, <1>1, StayKeeps
  <2>2. QED BY <1>0, <1>1, <2>1 DEF StepKept, FinalsTyped, CancelTyped, CountsTyped
<1>2. ended \in 0 .. 2 /\ finals \subseteq Finalization BY <1>0 DEF CountsTyped, FinalsTyped
<1>3. CASE FinalizeSnapshot(f)
  <2>. DEFINE todo == {v \in Variation : var[v].status \notin Terminal /\ var[v].artifact # 0}
              g == [f EXCEPT !.at = "reconciling", !.snapshot = var, !.todo = todo]
  <2>1. /\ finals' = (finals \ {f}) \cup {g}
        /\ UNCHANGED <<rowVars, pending, consumer, reviews, cancel, writes, ended, confirms, upsets>>
    BY <1>3 DEF FinalizeSnapshot, ReplaceFinal
  <2>2. todo \in SUBSET Variation /\ var \in [Variation -> Row] BY <1>0 DEF RowsTyped
  <2>3. g \in Finalization
    <3>. HIDE DEF todo
    <3>1. QED BY <1>0, <2>2 DEF Finalization, FinalRecord
  <2>. HIDE DEF g
  <2>4. finals' \subseteq Finalization BY <1>2, <2>1, <2>3
  <2>5. QED BY <1>0, <1>1, <1>2, <2>1, <2>4, SameRows DEF rowVars
<1>4. CASE Reconcile(f)
  <2>1. PICK v \in f.todo :
            /\ Apply(f.by, v, "completed", f.snapshot[v].artifact)
            /\ finals' = (finals \ {f}) \cup {[f EXCEPT !.todo = f.todo \ {v}]}
    BY <1>4 DEF Reconcile, ReplaceFinal
  <2>. DEFINE todo == f.todo \ {v}
              g == [f EXCEPT !.todo = todo]
  <2>2. f.at = "reconciling" /\ UNCHANGED <<job, pages, pending, consumer, reviews, cancel, ended, confirms, upsets>>
    BY <1>4 DEF Reconcile
  <2>3. v \in Variation /\ todo \in SUBSET Variation /\ f.by \in Task /\ f.snapshot[v] \in Row
    BY <1>0 DEF FinalRecord
  <2>4. f.snapshot[v].artifact \in 0 .. MaxPages BY <2>3 DEF Row
  <2>5. RowsTyped'
    <3>1. "completed" \in Status \cup {"keep"} BY DEF Status, Terminal
    <3>2. QED BY <1>0, <2>1, <2>2, <2>3, <2>4, <3>1, ApplyTyped DEF RowsTyped
  <2>6. g \in Finalization
    <3>. HIDE DEF todo
    <3>1. QED BY <1>0, <2>2, <2>3 DEF Finalization, FinalRecord
  <2>7. finals' = (finals \ {f}) \cup {g} BY <2>1
  <2>. HIDE DEF g
  <2>8. finals' \subseteq Finalization BY <1>2, <2>6, <2>7
  <2>9. QED BY <1>1, <1>2, <2>2, <2>5, <2>8
<1>5. CASE JudgeJob(f)
  <2>. DEFINE g == [f EXCEPT !.at = "concluding", !.status = FinalStatus]
  <2>1. /\ finals' = (finals \ {f}) \cup {g} \/ finals' = finals \ {f}
        /\ UNCHANGED <<rowVars, pending, consumer, reviews, cancel, writes, ended, confirms, upsets>>
    BY <1>5 DEF JudgeJob, ReplaceFinal
  <2>2. g \in Finalization
    <3>1. FinalStatus \in Terminal /\ FinalStatus # "none" BY DEF FinalStatus, Terminal
    <3>. HIDE DEF FinalStatus
    <3>2. QED BY <1>0, <3>1 DEF Finalization, FinalRecord
  <2>. HIDE DEF g
  <2>3. finals' \subseteq Finalization BY <1>2, <2>1, <2>2
  <2>4. QED BY <1>0, <1>1, <1>2, <2>1, <2>3, SameRows DEF rowVars
<1>6. CASE ConcludeJob(f)
  <2>1. /\ job' = f.status /\ f.at = "concluding"
        /\ ended' = IF ended = 2 THEN 2 ELSE ended + 1
        /\ finals' = finals \ {f}
        /\ UNCHANGED <<var, pages, pending, consumer, reviews, cancel, writes, confirms, upsets>>
    BY <1>6 DEF ConcludeJob
  <2>2. job' \in Terminal BY <1>0, <2>1 DEF FinalRecord
  <2>3. RowsTyped' BY <1>0, <2>1, <2>2 DEF RowsTyped
  <2>4. ended' \in 0 .. 2 BY <1>2, <2>1
  <2>5. QED BY <1>1, <1>2, <2>1, <2>3, <2>4
<1>7. QED BY <1>3, <1>4, <1>5, <1>6 DEF FinalizeQueuedDesignJob

\* A repair between its events.
LEMMA RepairKeeps ==
    ASSUME TypeInvariant, NEW p \in Repair, RunRepair(p)
    PROVE  StepKept
<1>0. /\ ConsumersTyped /\ PagesTyped /\ PagesKnown /\ RowsTyped /\ FinalsTyped /\ CancelTyped
      /\ CountsTyped /\ p \in Consumer
  BY TypeParts, Tasks
<1>1. CASE StartRepair(p) \/ EndRepair(p)
  <2>1. /\ consumer[p].at # "absent"
        /\ Move(p, [consumer[p] EXCEPT !.at = "streaming"]) \/ Finish(p)
        /\ UNCHANGED <<rowVars, pending, reviews, finals, cancel, writes, ended, confirms, upsets>>
    BY <1>1 DEF StartRepair, EndRepair, Streaming
  <2>2. QueueKept BY <1>0, <2>1, AtKeeps, FinishKeeps DEF rowVars
  <2>3. QED
    BY <1>0, <2>1, <2>2, SameRows DEF StepKept, FinalsTyped, CancelTyped, CountsTyped, rowVars
<1>2. CASE ReleaseRepair(p)
  <2>1. /\ consumer[p].at # "absent"
        /\ FinishAutomationReview(p[2], p)
        /\ Leave(p, "streaming") \/ Finish(p)
        /\ UNCHANGED <<rowVars, reviews, cancel, writes, ended, confirms, upsets>>
    BY <1>2 DEF ReleaseRepair
  <2>2. QueueKept BY <1>0, <2>1, LeaveKeeps, FinishKeeps DEF rowVars
  <2>3. FinalsTyped' /\ CountsTyped' BY <1>0, <2>1, FinishReviewTyped
  <2>4. QED BY <1>0, <2>1, <2>2, <2>3, SameRows DEF StepKept, CancelTyped, rowVars
<1>3. QED BY <1>1, <1>2 DEF RunRepair

\* The administrator's cancel.
LEMMA CancelKeeps ==
    ASSUME TypeInvariant, RequestCancel \/ CancelJobAsAdmin
    PROVE  StepKept
<1>0. /\ ConsumersTyped /\ PagesTyped /\ PagesKnown /\ RowsTyped /\ FinalsTyped /\ CancelTyped
      /\ CountsTyped
  BY TypeParts
<1>1. ASSUME UNCHANGED <<pages, pending, consumer, reviews, finals, ended, confirms>>,
             upsets' = upsets \/ Upset, RowsTyped', CancelTyped'
      PROVE  StepKept
  <2>1. QueueKept BY <1>0, <1>1, StayKeeps
  <2>2. CountsTyped' BY <1>0, <1>1, Bounds DEF CountsTyped, Upset
  <2>3. QED BY <1>0, <1>1, <2>1, <2>2 DEF StepKept, FinalsTyped
<1>2. CASE RequestCancel
  <2>. DEFINE todo == {v \in Variation : var[v].status \in Unfinished}
  <2>1. /\ cancel' = [at |-> "asking", todo |-> todo] /\ Upset
        /\ UNCHANGED <<rowVars, pending, consumer, reviews, finals, writes, ended, confirms>>
    BY <1>2 DEF RequestCancel
  <2>2. CancelTyped' BY <2>1 DEF CancelTyped
  <2>3. QED BY <1>0, <1>1, <2>1, <2>2, SameRows DEF rowVars
<1>3. CASE CancelJob
  <2>1. /\ job' = "cancelled" /\ cancel' = [cancel EXCEPT !.at = "cancelling"]
        /\ UNCHANGED <<var, pages, pending, consumer, reviews, finals, writes, ended, confirms, upsets>>
    BY <1>3 DEF CancelJob
  <2>2. CancelTyped' BY <1>0, <2>1 DEF CancelTyped
  <2>3. RowsTyped' BY <1>0, <2>1 DEF RowsTyped, Terminal
  <2>4. QED BY <1>1, <2>1, <2>2, <2>3
<1>4. CASE CancelVariation
  <2>1. PICK v \in cancel.todo :
            Apply(Canceller, v, "cancelled", 0) /\ cancel' = [cancel EXCEPT !.todo = cancel.todo \ {v}]
    BY <1>4 DEF CancelVariation
  <2>2. UNCHANGED <<job, pages, pending, consumer, reviews, finals, ended, confirms, upsets>>
    BY <1>4 DEF CancelVariation
  <2>3. v \in Variation BY <1>0 DEF CancelTyped
  <2>4. CancelTyped'
    <3>. DEFINE todo == cancel.todo \ {v}
    <3>1. todo \in SUBSET Variation /\ cancel' = [cancel EXCEPT !.todo = todo] BY <1>0, <2>1 DEF CancelTyped
    <3>. HIDE DEF todo
    <3>2. QED BY <1>0, <3>1 DEF CancelTyped
  <2>5. RowsTyped'
    <3>1. "cancelled" \in Status \cup {"keep"} /\ 0 \in 0 .. MaxPages BY Bounds DEF Status, Terminal
    <3>2. QED BY <1>0, <2>1, <2>2, <2>3, <3>1, Tasks, ApplyTyped DEF RowsTyped
  <2>6. QED BY <1>1, <2>2, <2>4, <2>5
<1>5. CASE EndCancel
  <2>1. /\ cancel' = [cancel EXCEPT !.at = "idle"]
        /\ UNCHANGED <<rowVars, pending, consumer, reviews, finals, writes, ended, confirms, upsets>>
    BY <1>5 DEF EndCancel
  <2>2. CancelTyped' BY <1>0, <2>1 DEF CancelTyped
  <2>3. QED BY <1>0, <1>1, <2>1, <2>2, SameRows DEF rowVars
<1>6. QED BY <1>2, <1>3, <1>4, <1>5 DEF CancelJobAsAdmin

\* PostgreSQL's part.
LEMMA StoreKeeps ==
    ASSUME TypeInvariant, StoreStep
    PROVE  StepKept
<1>0. /\ ConsumersTyped /\ PagesTyped /\ PagesKnown /\ RowsTyped /\ FinalsTyped /\ CancelTyped
      /\ CountsTyped
  BY TypeParts
<1>1. PICK w \in writes : ReadRow(w) \/ WriteRow(w) BY DEF StoreStep
<1>2. w \in Write /\ w.v \in Variation /\ w.status \in Status \cup {"keep"} /\ w.artifact \in 0 .. MaxPages
      /\ w.row \in Row
  BY <1>0 DEF RowsTyped, Write
<1>3. /\ UNCHANGED <<job, pages, pending, consumer, reviews, finals, cancel, ended, confirms, upsets>>
      /\ RowsTyped'
  <2>1. CASE ReadRow(w)
    <3>. DEFINE x == [w EXCEPT !.row = var[w.v], !.read = TRUE]
    <3>1. /\ writes' = (writes \ {w}) \cup {x}
          /\ UNCHANGED <<rowVars, pending, consumer, reviews, finals, cancel, ended, confirms, upsets>>
      BY <2>1 DEF ReadRow
    <3>2. var[w.v] \in Row BY <1>0, <1>2 DEF RowsTyped
    <3>3. x \in Write BY <1>2, <3>2 DEF Write
    <3>. HIDE DEF x
    <3>4. QED BY <1>0, <3>1, <3>3 DEF RowsTyped, rowVars
  <2>2. CASE WriteRow(w)
    <3>1. /\ var' = [var EXCEPT ![w.v] = Merge(w.row, w.status, w.artifact)]
          /\ writes' = writes \ {w}
          /\ UNCHANGED <<job, pages, pending, consumer, reviews, finals, cancel, ended, confirms, upsets>>
      BY <2>2 DEF WriteRow
    <3>2. Merge(w.row, w.status, w.artifact) \in Row BY <1>2, MergeTyped
    <3>3. QED BY <1>0, <3>1, <3>2 DEF RowsTyped
  <2>3. QED BY <1>1, <2>1, <2>2
<1>4. QueueKept BY <1>0, <1>3, StayKeeps
<1>5. QED BY <1>0, <1>3, <1>4 DEF StepKept, FinalsTyped, CancelTyped, CountsTyped

\* The death of the worker process.
LEMMA DeathKeeps ==
    ASSUME TypeInvariant, WorkerDies
    PROVE  StepKept
<1>0. /\ ConsumersTyped /\ PagesTyped /\ PagesKnown /\ RowsTyped /\ FinalsTyped /\ CancelTyped
      /\ CountsTyped
  BY TypeParts
<1>. DEFINE again == [Idle EXCEPT !.at = "queued"]
<1>1. /\ consumer' = [p \in Consumer |-> IF Unacknowledged(p) THEN again ELSE consumer[p]]
      /\ pending' = {} /\ reviews' = {} /\ finals' = {} /\ writes' \subseteq writes /\ Upset
      /\ UNCHANGED <<job, var, pages, cancel, ended, confirms>>
  BY DEF WorkerDies, rowVars
<1>2. again \in Progress /\ again.at = "queued" BY IdleTyped DEF Place
<1>. HIDE DEF again
<1>3. \A p \in Consumer : /\ Unacknowledged(p) => consumer'[p] = again
                          /\ ~Unacknowledged(p) => consumer'[p] = consumer[p]
  BY <1>1
<1>4. ConsumersTyped'
  <2>1. consumer' \in [Consumer -> Progress] BY <1>0, <1>1, <1>2 DEF ConsumersTyped
  <2>2. \A p \in Consumer : Shape(p, again) BY <1>2 DEF Shape
  <2>3. \A p \in Consumer : Shape(p, consumer'[p])
    BY <1>0, <1>3, <2>2 DEF ConsumersTyped, ConsumersShaped
  <2>4. ConsumersShaped' BY <2>3 DEF ConsumersShaped, Shape
  <2>5. QED BY <2>1, <2>4 DEF ConsumersTyped
<1>5. PagesTyped' /\ PagesKnown'
  <2>1. ~Stores(again) /\ again.at # "making" BY <1>2 DEF Stores
  <2>2. \A q \in Consumer : consumer'[q] = consumer[q] \/ (~Stores(consumer'[q]) /\ consumer'[q].at # "making")
    BY <1>3, <2>1
  <2>3. UNCHANGED pages /\ reviews' \subseteq reviews BY <1>1
  <2>4. QED BY <1>0, <2>2, <2>3, RoomKept
<1>6. RepairsStay
  <2>1. ASSUME NEW p \in Repair, Unacknowledged(p) PROVE consumer[p].at # "absent"
    BY <2>1, RepairParts DEF Unacknowledged
  <2>2. QED BY <1>3, <2>1, Tasks DEF RepairsStay
<1>7. RowsTyped' /\ FinalsTyped' /\ CancelTyped' /\ CountsTyped'
  BY <1>0, <1>1, Bounds DEF RowsTyped, FinalsTyped, CancelTyped, CountsTyped, Upset
<1>8. QED BY <1>0, <1>1, <1>4, <1>5, <1>6, <1>7, PagesSame DEF StepKept, QueueKept

-----------------------------------------------------------------------------
(* Steps that add a repair.                                                *)

LEMMA EnqueueKeeps ==
    ASSUME ConsumersTyped, PagesTyped, PagesKnown, NEW v \in Variation, NEW n \in 1 .. MaxPages,
           EnqueueRepair(v, n), UNCHANGED pages, reviews' \subseteq reviews
    PROVE  /\ ConsumersTyped' /\ PagesTyped' /\ PagesKnown'
           /\ \A q \in Repair : consumer'[q].at # "absent" =>
                consumer[q].at # "absent" \/ q = <<"repair", v, n>>
<1>. DEFINE p == <<"repair", v, n>>
            c == [consumer[p] EXCEPT !.at = "queued"]
<1>1. p \in Repair /\ p \in Consumer BY RepairParts, Tasks
<1>2. CASE UNCHANGED consumer
  <2>1. QueueKept BY <1>2, StayKeeps
  <2>2. QED BY <2>1 DEF QueueKept, RepairsStay
<1>3. CASE Move(p, c)
  <2>1. c \in Progress /\ c.at = "queued"
    <3>1. consumer[p] \in Progress /\ "queued" \in Place BY <1>1 DEF ConsumersTyped, Place
    <3>2. QED BY <3>1, AtTyped, Zenon
  <2>. HIDE DEF c
  <2>2. Shape(p, c) /\ ~Stores(c) /\ c.at # "making" BY <2>1 DEF Shape, Stores
  <2>3. /\ ConsumersTyped' /\ consumer'[p] = c
        /\ \A q \in Consumer \ {p} : consumer'[q] = consumer[q]
    BY <1>1, <1>3, <2>1, <2>2, Moves
  <2>4. PagesTyped' /\ PagesKnown' BY <2>2, <2>3, RoomKept
  <2>5. QED BY <2>3, <2>4, Tasks
<1>4. QED BY <1>2, <1>3, Zenon DEF EnqueueRepair

\* An older page has the version of its number in PostgreSQL, so the review of a page that
\* is repaired finds flaws no older page had, and a version within the bound.
Planned(v) == {p \in Repair :
    /\ p[2] = v /\ p[3] \in DOMAIN pages[v] /\ p[3] <= MaxRepairs
    /\ pages[v][p[3]].content \in Flaw
    /\ \A m \in DOMAIN pages[v] : m < p[3] => pages[v][m].content # pages[v][p[3]].content}

Repairs(v) == {p \in Repair : p[2] = v /\ consumer[p].at # "absent"}

LEMMA ReviewKeeps ==
    ASSUME TypeInvariant, NEW r \in reviews, Review(r)
    PROVE  /\ TypeInvariant' /\ PagesGrow /\ confirms' = confirms
           /\ Store = "postgres" =>
                \A v \in Variation : Repairs(v)' \subseteq Repairs(v) \cup Planned(v)
<1>0. /\ ConsumersTyped /\ PagesTyped /\ PagesKnown /\ RowsTyped /\ FinalsTyped /\ CancelTyped
      /\ CountsTyped
  BY TypeParts
<1>1. /\ PlanRepair(r) \/ StopReview(r)
      /\ reviews' = reviews \ {r}
      /\ UNCHANGED <<job, var, pages, cancel, writes, ended, confirms, upsets>>
  BY DEF Review, rowVars
<1>2. PagesGrow /\ RowsTyped' /\ CancelTyped' BY <1>0, <1>1, PagesSame, SameRows DEF CancelTyped
<1>3. r = <<"page", r[2], r[3]>> /\ r \in Page /\ r[2] \in Variation /\ r[3] \in 1 .. MaxPages
      /\ r[3] \in DOMAIN pages[r[2]] /\ PageOf(r).content # "bare"
  BY <1>0, PageParts DEF PagesTyped, PagesKnown, ReviewsKnown, PageOf
<1>4. CASE StopReview(r)
  <2>1. FinishAutomationReview(r[2], r) /\ UNCHANGED consumer BY <1>4 DEF StopReview
  <2>2. QueueKept BY <1>0, <1>1, <2>1, StayKeeps
  <2>3. FinalsTyped' /\ CountsTyped' BY <1>0, <1>1, <1>3, <2>1, FinishReviewTyped
  <2>4. QED BY <1>1, <1>2, <2>1, <2>2, <2>3, TypeRestored DEF QueueKept, Repairs
<1>5. CASE PlanRepair(r)
  <2>1. ~MustStop(r) /\ EnqueueRepair(r[2], r[3]) /\ UNCHANGED <<pending, finals>>
    BY <1>5 DEF PlanRepair
  <2>2. /\ ConsumersTyped' /\ PagesTyped' /\ PagesKnown'
        /\ \A q \in Repair : consumer'[q].at # "absent" =>
             consumer[q].at # "absent" \/ q = <<"repair", r[2], r[3]>>
    BY <1>0, <1>1, <1>3, <2>1, EnqueueKeeps
  <2>3. TypeInvariant'
    BY <1>0, <1>1, <1>2, <2>1, <2>2, TypeRestored DEF FinalsTyped, CountsTyped
  <2>. DEFINE v == r[2]
              n == r[3]
  <2>4. ASSUME Store = "postgres" PROVE <<"repair", v, n>> \in Planned(v)
    <3>1. \A i \in DOMAIN pages[v] : pages[v][i].version = i
      BY <1>0, <1>3, <2>4 DEF PagesKnown, VersionsKnown, VersionsTo
    <3>2. n \in Nat /\ \A m \in DOMAIN pages[v] : m \in Nat BY <1>0, <1>3, SequenceDomain
    <3>3. n <= MaxRepairs
      <4>1. ~(pages[v][n].version - 1 >= MaxRepairs) BY <2>1 DEF MustStop, PageOf
      <4>2. QED BY <1>3, <3>1, <3>2, <4>1, Bounds
    <3>4. pages[v][n].content \in Flaw
      <4>1. pages[v][n].content \in Content BY <1>0, <1>3, SequenceDomain
      <4>2. pages[v][n].content \notin {"pass", "bare"} BY <1>3, <2>1 DEF MustStop, PageOf
      <4>3. QED BY <4>1, <4>2, NoneIsNoContent
    <3>5. \A m \in DOMAIN pages[v] : m < n => pages[v][m].content # pages[v][n].content
      <4>1. \A m \in DOMAIN pages[v] :
                ~(pages[v][m].content = pages[v][n].content /\ pages[v][m].version < pages[v][n].version)
        BY <2>1 DEF MustStop, Repeated, PageOf
      <4>2. QED BY <1>3, <3>1, <4>1
    <3>6. <<"repair", v, n>> \in Repair BY <1>3, RepairParts
    <3>7. QED BY <1>3, <3>3, <3>4, <3>5, <3>6 DEF Planned
  <2>5. ASSUME Store = "postgres", NEW u \in Variation
        PROVE  Repairs(u)' \subseteq Repairs(u) \cup Planned(u)
    <3>1. ASSUME NEW q \in Repairs(u)' PROVE q \in Repairs(u) \cup Planned(u)
      <4>1. q \in Repair /\ q[2] = u /\ consumer'[q].at # "absent" BY DEF Repairs
      <4>2. CASE consumer[q].at # "absent" BY <4>1, <4>2 DEF Repairs
      <4>3. CASE q = <<"repair", v, n>> BY <2>4, <2>5, <4>1, <4>3
      <4>4. QED BY <2>2, <4>1, <4>2, <4>3
    <3>2. QED BY <3>1
  <2>6. QED BY <1>1, <1>2, <2>3, <2>5
<1>6. QED BY <1>1, <1>4, <1>5

LEMMA ConfirmKeeps ==
    ASSUME TypeInvariant, ConfirmRepair
    PROVE  /\ TypeInvariant' /\ PagesGrow /\ confirms' = confirms + 1
           /\ \E p \in Repair : \A v \in Variation : Repairs(v)' \subseteq Repairs(v) \cup {p}
<1>0. /\ ConsumersTyped /\ PagesTyped /\ PagesKnown /\ RowsTyped /\ FinalsTyped /\ CancelTyped
      /\ CountsTyped
  BY TypeParts
<1>1. /\ confirms < MaxConfirms /\ confirms' = confirms + 1
      /\ UNCHANGED <<job, var, pages, pending, reviews, finals, cancel, writes, ended, upsets>>
  BY DEF ConfirmRepair, rowVars
<1>20. PICK v \in Variation : \E n \in DOMAIN pages[v] : EnqueueRepair(v, n) BY DEF ConfirmRepair
<1>2. PICK n \in DOMAIN pages[v] : EnqueueRepair(v, n) BY <1>20
<1>3. n \in 1 .. MaxPages
  <2>1. n \in 1 .. Len(pages[v]) /\ Len(pages[v]) \in Nat BY <1>0, SequenceDomain
  <2>2. Len(pages[v]) + Cardinality(Storing(v)) <= MaxPages BY <1>0 DEF PagesKnown, PagesBounded
  <2>3. QED BY <2>1, <2>2, StoringFinite, Bounds
<1>4. /\ ConsumersTyped' /\ PagesTyped' /\ PagesKnown'
      /\ \A q \in Repair : consumer'[q].at # "absent" =>
           consumer[q].at # "absent" \/ q = <<"repair", v, n>>
  BY <1>0, <1>1, <1>2, <1>3, EnqueueKeeps
<1>5. PagesGrow BY <1>0, <1>1, PagesSame
<1>6. CountsTyped' BY <1>0, <1>1, Bounds DEF CountsTyped
<1>7. TypeInvariant'
  BY <1>0, <1>1, <1>4, <1>6, SameRows, TypeRestored DEF FinalsTyped, CancelTyped
<1>8. <<"repair", v, n>> \in Repair BY <1>3, RepairParts
<1>9. \A u \in Variation : Repairs(u)' \subseteq Repairs(u) \cup {<<"repair", v, n>>}
  BY <1>4 DEF Repairs
<1>10. QED BY <1>1, <1>5, <1>7, <1>8, <1>9

-----------------------------------------------------------------------------
(* Type correctness.                                                       *)

\* A step leaves the repairs as they are, plans one or grants the owner's.
LEMMA StepKeeps ==
    ASSUME TypeInvariant, [Next]_vars
    PROVE  /\ TypeInvariant' /\ PagesGrow
           /\ \/ confirms' = confirms /\ \A v \in Variation : Repairs(v)' \subseteq Repairs(v)
              \/ /\ confirms' = confirms
                 /\ Store = "postgres" =>
                      \A v \in Variation : Repairs(v)' \subseteq Repairs(v) \cup Planned(v)
              \/ /\ confirms' = confirms + 1
                 /\ \E p \in Repair : \A v \in Variation : Repairs(v)' \subseteq Repairs(v) \cup {p}
<1>1. ASSUME StepKept
      PROVE  /\ TypeInvariant' /\ PagesGrow
             /\ confirms' = confirms /\ \A v \in Variation : Repairs(v)' \subseteq Repairs(v)
  <2>1. TypeInvariant' BY <1>1, TypeRestored DEF StepKept, QueueKept
  <2>2. QED BY <1>1, <2>1 DEF StepKept, QueueKept, RepairsStay, Repairs
<1>2. CASE CreateDesignJob \/ RunMockJob \/ AbandonJob BY <1>1, <1>2, WorkerKeeps
<1>3. CASE \E p \in Consumer : FollowStream(p)
  <2>1. PICK p \in Consumer : FollowStream(p) BY <1>3
  <2>2. \/ ReceiveProgress(p) \/ ReceiveResult(p) \/ ReceiveBreak(p)
        \/ HandleProgress(p) \/ HandleFailure(p) \/ HandleUpdate(p) \/ ApplyArtifact(p)
        \/ HandlePage(p) \/ MaterializeArtifact(p) \/ MaterializeFails(p)
    BY <2>1 DEF FollowStream, HandleEvent
  <2>3. StepKept BY <2>2, StreamKeeps, HandledKeeps, PageKeeps
  <2>4. QED BY <1>1, <2>3
<1>4. CASE \E p \in Repair : RunRepair(p) BY <1>1, <1>4, RepairKeeps
<1>5. CASE \E r \in reviews : Review(r) BY <1>5, ReviewKeeps
<1>6. CASE \E f \in finals : FinalizeQueuedDesignJob(f) BY <1>1, <1>6, FinalKeeps
<1>7. CASE CancelJobAsAdmin \/ RequestCancel BY <1>1, <1>7, CancelKeeps
<1>8. CASE StoreStep BY <1>1, <1>8, StoreKeeps
<1>9. CASE ConfirmRepair BY <1>9, ConfirmKeeps
<1>10. CASE WorkerDies BY <1>1, <1>10, DeathKeeps
<1>11. CASE UNCHANGED vars
  <2>1. UNCHANGED <<job, var, pages, pending, consumer, reviews, finals, cancel, writes, ended, confirms, upsets>>
    BY <1>11 DEF vars, rowVars
  <2>2. QueueKept BY <2>1, TypeParts, StayKeeps
  <2>3. StepKept BY <2>1, <2>2, TypeParts DEF StepKept, RowsTyped, FinalsTyped, CancelTyped, CountsTyped
  <2>4. QED BY <1>1, <2>3
<1>12. QED
  BY <1>2, <1>3, <1>4, <1>5, <1>6, <1>7, <1>8, <1>9, <1>10, <1>11 DEF Next, Work

LEMMA TypeInit == Init => TypeInvariant
<1>1. SUFFICES ASSUME Init PROVE TypeInvariant OBVIOUS
<1>2. ConsumersTyped
  <2>1. Idle \in Progress /\ Idle.at = "absent" BY Bounds DEF Idle, Progress
  <2>. HIDE DEF Idle
  <2>2. QED BY <1>1, <2>1 DEF Init, ConsumersTyped, ConsumersShaped, Shape
<1>3. PagesTyped BY <1>1 DEF Init, PagesTyped
<1>4. PagesBounded
  <2>1. SUFFICES ASSUME NEW v \in Variation PROVE Len(pages[v]) + Cardinality(Storing(v)) <= MaxPages
    BY DEF PagesBounded
  <2>2. Len(pages[v]) = 0 BY <1>1 DEF Init
  <2>3. Storing(v) = {} BY <1>1 DEF Init, Storing, Stores, Idle
  <2>4. QED BY <2>2, <2>3, FS_EmptySet, Bounds
<1>5. VersionsKnown
  <2>1. SUFFICES ASSUME NEW v \in Variation PROVE VersionsTo(v, 0) /\ 0 \in 0 .. Len(pages[v])
    BY DEF VersionsKnown
  <2>2. pages[v] = <<>> BY <1>1 DEF Init
  <2>3. \A p \in Consumer : consumer[p].at = "absent" BY <1>1 DEF Init, Idle
  <2>4. QED BY <2>2, <2>3 DEF VersionsTo
<1>6. ReviewsKnown BY <1>1 DEF Init, ReviewsKnown
<1>7. RowsTyped /\ FinalsTyped /\ CancelTyped /\ CountsTyped
  BY <1>1, NoRowTyped, Bounds DEF Init, RowsTyped, FinalsTyped, CancelTyped, CountsTyped
<1>8. QED BY <1>2, <1>3, <1>4, <1>5, <1>6, <1>7, TypeParts DEF PagesKnown

\* Everything keeps its type: an event belongs to a variation its consumer hears of, a
\* variation's versions have no gap (nextHtmlArtifactVersion), a review looks at a page
\* that exists and is no placeholder, and a job is concluded with an end.
THEOREM TypeCorrect == Spec => []TypeInvariant
<1>1. TypeInvariant /\ [Next]_vars => TypeInvariant' BY StepKeeps
<1>2. QED BY <1>1, TypeInit, PTL DEF Spec

-----------------------------------------------------------------------------
(* Repairs are bounded.                                                    *)

Unplanned(v) == Repairs(v) \ Planned(v)

\* Every repair but those an owner asked for was planned for a page with a version
\* within the bound, and findings that no older version has.
RepairsCounted == \A v \in Variation : Cardinality(Unplanned(v)) <= confirms

LEMMA RepairsFinite == \A v : IsFiniteSet(Unplanned(v)) /\ Cardinality(Unplanned(v)) \in Nat
<1>1. SUFFICES ASSUME NEW v PROVE IsFiniteSet(Unplanned(v)) /\ Cardinality(Unplanned(v)) \in Nat
  OBVIOUS
<1>2. Unplanned(v) \subseteq Consumer BY Tasks DEF Unplanned, Repairs
<1>3. QED BY <1>2, ConsumersFinite, FS_Subset, FS_CardinalityType

\* Pages stay as they are and keep their number, so what was planned remains so.
LEMMA PlannedStays ==
    ASSUME PagesTyped, PagesTyped', PagesGrow, NEW v \in Variation
    PROVE  Planned(v) \subseteq Planned(v)'
<1>1. SUFFICES ASSUME NEW p \in Planned(v) PROVE p \in Planned(v)' OBVIOUS
<1>. DEFINE n == p[3]
<1>2. /\ p \in Repair /\ p[2] = v /\ n \in DOMAIN pages[v] /\ n <= MaxRepairs
      /\ pages[v][n].content \in Flaw
      /\ \A m \in DOMAIN pages[v] : m < n => pages[v][m].content # pages[v][n].content
  BY DEF Planned
<1>3. DOMAIN pages[v] = 1 .. Len(pages[v]) /\ Len(pages[v]) \in Nat BY SequenceDomain
<1>4. DOMAIN pages'[v] = 1 .. Len(pages'[v]) /\ Len(pages'[v]) \in Nat
  <2>. DEFINE S == [version : 1 .. MaxPages + 1, content : Content]
  <2>1. pages'[v] \in Seq(S) BY DEF PagesTyped
  <2>. HIDE DEF S
  <2>2. QED BY <2>1
<1>5. /\ Len(pages[v]) <= Len(pages'[v])
      /\ \A m \in DOMAIN pages[v] : pages'[v][m] = pages[v][m]
  BY DEF PagesGrow
<1>6. n \in DOMAIN pages'[v] /\ pages'[v][n] = pages[v][n] BY <1>2, <1>3, <1>4, <1>5
<1>7. \A m \in DOMAIN pages'[v] : m < n => m \in DOMAIN pages[v] BY <1>2, <1>3, <1>4
<1>8. QED BY <1>2, <1>5, <1>6, <1>7 DEF Planned

LEMMA CountedStep ==
    ASSUME Store = "postgres", TypeInvariant, RepairsCounted, [Next]_vars
    PROVE  RepairsCounted'
<1>1. PagesTyped /\ confirms \in Nat BY TypeParts, Bounds DEF CountsTyped
<1>2. /\ TypeInvariant' /\ PagesGrow
      /\ \/ /\ confirms' = confirms
            /\ \A v \in Variation : Repairs(v)' \subseteq Repairs(v) \cup Planned(v)
         \/ /\ confirms' = confirms + 1
            /\ \E p \in Repair : \A v \in Variation : Repairs(v)' \subseteq Repairs(v) \cup {p}
  BY StepKeeps
<1>3. PagesTyped' BY <1>2 DEF TypeInvariant, TypeOK, PagesTyped
<1>4. SUFFICES ASSUME NEW v \in Variation PROVE Cardinality(Unplanned(v)') <= confirms'
  BY DEF RepairsCounted
<1>5. Planned(v) \subseteq Planned(v)' BY <1>1, <1>2, <1>3, PlannedStays
<1>6. /\ IsFiniteSet(Unplanned(v)) /\ Cardinality(Unplanned(v)) \in Nat
      /\ Cardinality(Unplanned(v)) <= confirms
  BY RepairsFinite DEF RepairsCounted
<1>7. CASE confirms' = confirms /\ Repairs(v)' \subseteq Repairs(v) \cup Planned(v)
  <2>1. Unplanned(v)' \subseteq Unplanned(v) BY <1>5, <1>7 DEF Unplanned
  <2>2. Cardinality(Unplanned(v)') <= Cardinality(Unplanned(v)) /\ Cardinality(Unplanned(v)') \in Nat
    BY <1>6, <2>1, FS_Subset, FS_CardinalityType
  <2>3. QED BY <1>1, <1>6, <1>7, <2>2
<1>8. CASE confirms' = confirms + 1 /\ \E p \in Repair : Repairs(v)' \subseteq Repairs(v) \cup {p}
  <2>1. PICK p \in Repair : Repairs(v)' \subseteq Repairs(v) \cup {p} BY <1>8
  <2>2. Unplanned(v)' \subseteq Unplanned(v) \cup {p} BY <1>5, <2>1 DEF Unplanned
  <2>3. /\ IsFiniteSet(Unplanned(v) \cup {p})
        /\ Cardinality(Unplanned(v) \cup {p}) =
             IF p \in Unplanned(v) THEN Cardinality(Unplanned(v)) ELSE Cardinality(Unplanned(v)) + 1
    BY <1>6, FS_AddElement
  <2>4. /\ Cardinality(Unplanned(v)') <= Cardinality(Unplanned(v) \cup {p})
        /\ Cardinality(Unplanned(v)') \in Nat
    BY <2>2, <2>3, FS_Subset, FS_CardinalityType
  <2>5. QED BY <1>1, <1>6, <1>8, <2>3, <2>4
<1>9. QED BY <1>2, <1>7, <1>8

LEMMA CountedInit == Init => RepairsCounted
<1>1. SUFFICES ASSUME Init, NEW v \in Variation PROVE Cardinality(Unplanned(v)) <= confirms
  BY DEF RepairsCounted
<1>2. \A p \in Consumer : consumer[p].at = "absent" BY <1>1 DEF Init, Idle
<1>3. Unplanned(v) = {} BY <1>2, Tasks DEF Unplanned, Repairs
<1>4. QED BY <1>1, <1>3, FS_EmptySet DEF Init

\* No two of them are for pages of one number, nor for the same findings.
LEMMA PlannedBounded ==
    ASSUME PagesTyped, NEW v \in Variation
    PROVE  /\ IsFiniteSet(Planned(v)) /\ Cardinality(Planned(v)) \in Nat
           /\ Cardinality(Planned(v)) <= MaxRepairs /\ Cardinality(Planned(v)) <= Cardinality(Flaw)
<1>1. IsFiniteSet(Planned(v)) /\ Cardinality(Planned(v)) \in Nat
  <2>1. Planned(v) \subseteq Consumer BY Tasks DEF Planned
  <2>2. QED BY <2>1, ConsumersFinite, FS_Subset, FS_CardinalityType
<1>2. \A p \in Planned(v) :
          /\ p = <<"repair", v, p[3]>> /\ p[3] \in 1 .. MaxRepairs /\ p[3] \in Nat /\ p[3] \in DOMAIN pages[v]
          /\ pages[v][p[3]].content \in Flaw
          /\ \A m \in DOMAIN pages[v] : m < p[3] => pages[v][m].content # pages[v][p[3]].content
  <2>1. SUFFICES ASSUME NEW p \in Planned(v)
                 PROVE  p = <<"repair", v, p[3]>> /\ p[3] \in 1 .. MaxRepairs /\ p[3] \in Nat
    BY DEF Planned
  <2>2. p \in Repair /\ p[2] = v /\ p[3] <= MaxRepairs BY DEF Planned
  <2>3. p[3] \in 1 .. MaxPages BY <2>2, RepairParts
  <2>4. QED BY <2>2, <2>3, RepairParts, Bounds
<1>3. Cardinality(Planned(v)) <= MaxRepairs
  <2>. DEFINE f == [p \in Planned(v) |-> p[3]]
  <2>1. f \in [Planned(v) -> 1 .. MaxRepairs] BY <1>2
  <2>2. \A p, q \in Planned(v) : f[p] = f[q] => p = q BY <1>2, Zenon
  <2>3. f \in Injection(Planned(v), 1 .. MaxRepairs) BY <2>1, <2>2 DEF Injection, IsInjective
  <2>4. IsFiniteSet(1 .. MaxRepairs) /\ Cardinality(1 .. MaxRepairs) = MaxRepairs
    BY FS_Interval, Bounds
  <2>. HIDE DEF f
  <2>5. QED BY <2>3, <2>4, FS_Injection
<1>4. Cardinality(Planned(v)) <= Cardinality(Flaw)
  <2>. DEFINE f == [p \in Planned(v) |-> pages[v][p[3]].content]
  <2>1. f \in [Planned(v) -> Flaw] BY <1>2
  <2>2. ASSUME NEW p \in Planned(v), NEW q \in Planned(v), f[p] = f[q] PROVE p = q
    <3>1. ~(p[3] < q[3]) /\ ~(q[3] < p[3]) BY <1>2, <2>2
    <3>2. p[3] = q[3] BY <1>2, <3>1
    <3>3. QED BY <1>2, <3>2, Zenon
  <2>3. f \in Injection(Planned(v), Flaw) BY <2>1, <2>2 DEF Injection, IsInjective
  <2>. HIDE DEF f
  <2>4. QED BY <2>3, ContentAssumption, FS_Injection
<1>5. QED BY <1>1, <1>3, <1>4

LEMMA CountedBounds == TypeInvariant /\ RepairsCounted => RepairsBounded
<1>1. SUFFICES ASSUME TypeInvariant, RepairsCounted, NEW v \in Variation
               PROVE  /\ Cardinality(Repairs(v)) <= MaxRepairs + confirms
                      /\ Cardinality(Repairs(v)) <= Cardinality(Flaw) + confirms
  BY DEF RepairsBounded, Repairs
<1>2. PagesTyped /\ confirms \in Nat /\ Cardinality(Flaw) \in Nat
  BY <1>1, TypeParts, Bounds, ContentAssumption, FS_CardinalityType DEF CountsTyped
<1>3. /\ IsFiniteSet(Planned(v)) /\ Cardinality(Planned(v)) \in Nat
      /\ Cardinality(Planned(v)) <= MaxRepairs /\ Cardinality(Planned(v)) <= Cardinality(Flaw)
  BY <1>2, PlannedBounded
<1>4. /\ IsFiniteSet(Unplanned(v)) /\ Cardinality(Unplanned(v)) \in Nat
      /\ Cardinality(Unplanned(v)) <= confirms
  BY <1>1, RepairsFinite DEF RepairsCounted
<1>. DEFINE all == Unplanned(v) \cup Planned(v)
<1>5. IsFiniteSet(all) /\ Cardinality(all) <= Cardinality(Unplanned(v)) + Cardinality(Planned(v))
  <2>1. /\ IsFiniteSet(all) /\ IsFiniteSet(Unplanned(v) \cap Planned(v))
        /\ Cardinality(all) =
             Cardinality(Unplanned(v)) + Cardinality(Planned(v)) - Cardinality(Unplanned(v) \cap Planned(v))
    BY <1>3, <1>4, FS_Union, FS_Intersection
  <2>2. Cardinality(Unplanned(v) \cap Planned(v)) \in Nat BY <2>1, FS_CardinalityType
  <2>. HIDE DEF all
  <2>3. QED BY <1>3, <1>4, <2>1, <2>2
<1>6. Repairs(v) \subseteq all BY DEF Unplanned
<1>. HIDE DEF all
<1>7. /\ Cardinality(Repairs(v)) <= Cardinality(all)
      /\ Cardinality(Repairs(v)) \in Nat /\ Cardinality(all) \in Nat
  BY <1>5, <1>6, FS_Subset, FS_CardinalityType
<1>8. QED BY <1>2, <1>3, <1>4, <1>5, <1>7, Bounds

\* With PostgreSQL a variation is repaired at most maxRepairAttempts times, and never twice
\* for the same findings, apart from what an owner asks for: whatever pages come at once,
\* whatever order their reviews end in, and although the worker dies in between. The unique
\* index on a variation's versions is what it rests on: pages made at once in memory may
\* share a version, and are then each repaired (evaluateAutomationLoopStop, isRepeatedFailure).
THEOREM RepairsAreBounded == Store = "postgres" => (Spec => []RepairsBounded)
<1>1. SUFFICES ASSUME Store = "postgres" PROVE Spec => []RepairsBounded
  OBVIOUS
<1>2. Init => TypeInvariant /\ RepairsCounted BY TypeInit, CountedInit
<1>3. TypeInvariant /\ RepairsCounted /\ [Next]_vars => (TypeInvariant /\ RepairsCounted)'
  BY <1>1, StepKeeps, CountedStep
<1>4. TypeInvariant /\ RepairsCounted => RepairsBounded BY CountedBounds
<1>5. QED BY <1>2, <1>3, <1>4, PTL DEF Spec

-----------------------------------------------------------------------------
(* Settled jobs.  The in-memory store, the CLI agent's streams and base    *)
(* pages that can be read, as in the run jobs_review; no process dies.     *)

InMemory == Store = "memory" /\ Gateway = "cli-agent" /\ ~LostBase

Unended == consumer[Worker].at # "done"
Underway == {"queued", "streaming"}

\* A page comes with a completed event, which is then one of the results.
Tidy(c) ==
    /\ c.at \in {"handling", "making"} /\ c.content # "none" =>
            c.kind = "completed" /\ c.content # "bare" /\ c.v \in c.results
    /\ c.at \in {"handling", "making"} /\ c.content = "none" =>
            c.at = "handling" /\ c.kind \in Underway \cup {"failed", "unfinished"}
    /\ c.at = "applying" => c.kind = "completed"
    /\ c.at = "handling" /\ c.kind \in Underway => MaxEvents # 0

\* A repair hears of one variation, and of nothing more after its result.
TidyRepair(p, c) ==
    /\ c.at \notin {"created", "prepared", "abandoned", "failing", "marking"}
    /\ c.at = "handling" => c.kind # "unfinished"
    /\ c.at \in {"absent", "queued"} \/ (c.at = "handling" /\ c.kind \in Underway) => c.results = {}
    /\ c.at \in {"making", "applying", "stopping"} \/ (c.at = "handling" /\ c.kind \notin Underway) =>
            c.results # {}
    /\ c.results \subseteq {p[2]}

ConsumersTidy == \A p \in Consumer : Tidy(consumer[p])
RepairsTidy == \A p \in Repair : TidyRepair(p, consumer[p])

\* Repairs are of pages that exist, and there is none before the worker starts.
RepairsOfPages == \A p \in Repair : consumer[p].at # "absent" => p[3] \in DOMAIN pages[p[2]]
NotBegun == consumer[Worker].at \in {"absent", "created", "prepared", "abandoned", "queued"} =>
    \A v \in Variation : pages[v] = <<>>

\* A variation with a page has a current one, except while the worker is about to name it.
PagesShown == \A v \in Variation : pages[v] # <<>> =>
    var[v].artifact # 0 \/ (consumer[Worker].at = "applying" /\ consumer[Worker].v = v)

\* What has an end, or a page that finalization can complete it with.
Saved(v) == var[v].status \in Terminal \/ var[v].artifact # 0

\* Once the worker fails the unfinished variations, the others are saved.
Salvaged ==
    LET w == consumer[Worker]
        failing == w.at = "handling" /\ w.kind = "unfinished"
    IN  w.at \in {"marking", "done"} \/ failing =>
            \A v \in Variation :
                Saved(v) \/ (w.at # "done" /\ v \in w.todo) \/ (failing /\ w.v = v /\ w.seen \notin Terminal)

\* A repair that has yet to release its lock, or to make the page whose review takes it over.
Holds(c) == c.at \notin {"absent", "applying", "done"} /\ ~(c.at = "streaming" /\ c.results # {})

Latest(t) == t[3] = Len(pages[t[2]])

\* The lock of a variation has an owner: the review or the repair of its newest page.
LocksOwned == \A v \in pending : \E p \in Repair :
    /\ p[2] = v /\ Latest(p)
    /\ Holds(consumer[p]) \/ (consumer[p].at = "absent" /\ <<"page", v, p[3]>> \in reviews)

\* As long as no owner asks for repairs, a variation's pages are made, reviewed and repaired in turn.
RepairsInTurn == \A p \in Repair : Holds(consumer[p]) => Latest(p) /\ p[2] \in pending
ReviewsInTurn == \A r \in reviews :
    /\ Latest(r) /\ consumer[<<"repair", r[2], r[3]>>].at = "absent"
    /\ PageOf(r).content \in Flaw => r[2] \in pending
WorkerInTurn ==
    /\ Unended => \A v \in Variation : pages[v] # <<>> => v \in consumer[Worker].results
    /\ Stores(consumer[Worker]) => pages[consumer[Worker].v] = <<>>
InTurn == RepairsInTurn /\ ReviewsInTurn /\ WorkerInTurn

\* A finalization that will find every variation ended, whatever is written meanwhile.
Open == {v \in Variation : var[v].status \notin Terminal}
Concludes(f) ==
    \/ f.at = "snapshot"
    \/ f.at = "reconciling" /\ Open \subseteq f.todo
    \/ f.at = "concluding" /\ Open = {}
Over == job \in Terminal /\ Open = {}

\* When the worker has ended and no lock is held, the job is over or such a finalization is under way.
Owed == Unended \/ pending # {} \/ Over \/ \E f \in finals : Concludes(f)

\* An owner's repair, which takes no lock, may send a progress event between two snapshots.
NoneInterferes == MaxEvents = 0 \/ confirms = 0

Queues == ConsumersTidy /\ RepairsTidy /\ RepairsOfPages /\ NotBegun
Rows == PagesShown /\ Salvaged
SettledInvariant ==
    /\ writes = {} /\ Queues /\ Rows /\ LocksOwned
    /\ confirms = 0 => InTurn
    /\ NoneInterferes => Owed

-----------------------------------------------------------------------------
(* What the moves of a consumer change.                                    *)

OnlyMoves(p) == \A q \in Consumer \ {p} : consumer'[q] = consumer[q]

LEMMA MoveIs ==
    ASSUME ConsumersTyped, NEW p \in Consumer, NEW c, Move(p, c)
    PROVE  consumer'[p] = c /\ OnlyMoves(p)
BY DEF ConsumersTyped, Move, OnlyMoves

LEMMA LeaveIs ==
    ASSUME ConsumersTyped, NEW p \in Consumer, NEW place, Leave(p, place)
    PROVE  /\ OnlyMoves(p) /\ consumer'[p].at = place
           /\ consumer'[p].content = "none" /\ consumer'[p].kind = "none"
           /\ consumer'[p].results = consumer[p].results /\ consumer'[p].todo = consumer[p].todo
<1>. DEFINE c == [consumer[p] EXCEPT !.at = place, !.v = None, !.kind = "none", !.content = "none",
                  !.seen = "absent", !.version = 0]
<1>1. consumer[p] \in Progress BY DEF ConsumersTyped
<1>2. /\ c.at = place /\ c.content = "none" /\ c.kind = "none" /\ c.results = consumer[p].results
      /\ c.todo = consumer[p].todo
  BY <1>1 DEF Progress
<1>3. Move(p, c) BY DEF Leave
<1>. HIDE DEF c
<1>4. QED BY <1>2, <1>3, MoveIs

LEMMA FinishIs ==
    ASSUME ConsumersTyped, NEW p \in Consumer, Finish(p)
    PROVE  /\ OnlyMoves(p) /\ consumer'[p].at = "done" /\ consumer'[p].results = {}
           /\ consumer'[p].todo = {} /\ consumer'[p].content = "none"
<1>. DEFINE c == [Idle EXCEPT !.at = "done"]
<1>1. c.at = "done" /\ c.results = {} /\ c.todo = {} /\ c.content = "none" BY DEF Idle
<1>2. Move(p, c) BY DEF Finish
<1>. HIDE DEF c
<1>3. QED BY <1>1, <1>2, MoveIs

LEMMA AtIs ==
    ASSUME ConsumersTyped, NEW p \in Consumer, NEW at, Move(p, [consumer[p] EXCEPT !.at = at])
    PROVE  /\ OnlyMoves(p) /\ consumer'[p].at = at
           /\ consumer'[p].results = consumer[p].results /\ consumer'[p].todo = consumer[p].todo
           /\ consumer'[p].content = consumer[p].content /\ consumer'[p].kind = consumer[p].kind
           /\ consumer'[p].v = consumer[p].v
<1>. DEFINE c == [consumer[p] EXCEPT !.at = at]
<1>1. consumer[p] \in Progress BY DEF ConsumersTyped
<1>2. /\ c.at = at /\ c.results = consumer[p].results /\ c.todo = consumer[p].todo
      /\ c.content = consumer[p].content /\ c.kind = consumer[p].kind /\ c.v = consumer[p].v
  BY <1>1 DEF Progress
<1>3. Move(p, c) BY Zenon DEF Move
<1>. HIDE DEF c
<1>4. QED BY <1>2, <1>3, MoveIs

LEMMA EnqueueIs ==
    ASSUME ConsumersTyped, RepairsTidy, NEW v \in Variation, NEW n \in 1 .. MaxPages, EnqueueRepair(v, n)
    PROVE  /\ <<"repair", v, n>> \in Repair /\ OnlyMoves(<<"repair", v, n>>)
           /\ \/ UNCHANGED consumer /\ consumer[<<"repair", v, n>>].at # "absent"
              \/ /\ consumer[<<"repair", v, n>>].at = "absent"
                 /\ consumer'[<<"repair", v, n>>].at = "queued"
                 /\ consumer'[<<"repair", v, n>>].results = {}
<1>. DEFINE p == <<"repair", v, n>>
<1>1. p \in Repair /\ p \in Consumer BY RepairParts, Tasks
<1>2. CASE consumer[p].at = "absent"
  <2>1. Move(p, [consumer[p] EXCEPT !.at = "queued"]) BY <1>2 DEF EnqueueRepair
  <2>2. OnlyMoves(p) /\ consumer'[p].at = "queued" /\ consumer'[p].results = consumer[p].results
    BY <1>1, <2>1, AtIs
  <2>3. consumer[p].results = {} BY <1>1, <1>2 DEF RepairsTidy, TidyRepair
  <2>4. QED BY <1>1, <1>2, <2>2, <2>3
<1>3. CASE consumer[p].at # "absent"
  <2>1. UNCHANGED consumer BY <1>3 DEF EnqueueRepair
  <2>2. QED BY <1>1, <1>3, <2>1 DEF OnlyMoves
<1>4. QED BY <1>2, <1>3

\* With the CLI agent a variation's result is the last that is heard of it.
LEMMA ReceiveIs ==
    ASSUME TypeInvariant, InMemory, NEW p \in Consumer,
           ReceiveProgress(p) \/ ReceiveResult(p) \/ ReceiveBreak(p)
    PROVE  /\ consumer[p].at = "streaming" /\ OnlyMoves(p)
           /\ consumer'[p].at = "handling" /\ consumer'[p].v \in Scope(p)
           /\ consumer'[p].v \notin consumer[p].results
           /\ \/ /\ consumer'[p].kind \in Underway /\ MaxEvents # 0 /\ consumer'[p].content = "none"
                 /\ consumer'[p].results = consumer[p].results
              \/ /\ consumer'[p].kind = "failed" /\ consumer'[p].content = "none"
                 /\ consumer'[p].results = consumer[p].results \cup {consumer'[p].v}
              \/ /\ consumer'[p].kind = "completed" /\ consumer'[p].content \in Content \ {"bare"}
                 /\ consumer'[p].results = consumer[p].results \cup {consumer'[p].v}
           /\ UNCHANGED <<rowVars, pending, reviews, finals, cancel, writes, ended, confirms, upsets>>
<1>0. ConsumersTyped /\ consumer[p] \in Progress BY TypeParts DEF ConsumersTyped
<1>1. ASSUME NEW v, NEW kind, NEW content, Receive(p, v, kind, content)
      PROVE  /\ consumer[p].at = "streaming" /\ OnlyMoves(p)
             /\ consumer'[p].at = "handling" /\ consumer'[p].v = v /\ v \in Scope(p)
             /\ consumer'[p].kind = kind /\ consumer'[p].content = content
             /\ consumer'[p].results = IF kind \in ProgressKind(p) THEN consumer[p].results
                                       ELSE consumer[p].results \cup {v}
             /\ UNCHANGED <<rowVars, pending, reviews, finals, cancel, writes, ended, confirms, upsets>>
  <2>. DEFINE c == [consumer[p] EXCEPT !.at = "handling", !.v = v, !.kind = kind,
                !.content = content, !.seen = var[v].status,
                !.left = IF kind \in ProgressKind(p) \/ v \in consumer[p].results THEN @ - 1 ELSE @,
                !.results = IF kind \in ProgressKind(p) THEN @ ELSE @ \cup {v}]
  <2>1. Move(p, c) /\ consumer[p].at = "streaming" /\ v \in Scope(p)
        /\ UNCHANGED <<rowVars, pending, reviews, finals, cancel, writes, ended, confirms, upsets>>
    BY <1>1 DEF Receive, Streaming
  <2>2. c.at = "handling" /\ c.v = v /\ c.kind = kind /\ c.content = content
        /\ c.results = IF kind \in ProgressKind(p) THEN consumer[p].results
                       ELSE consumer[p].results \cup {v}
    BY <1>0 DEF Progress
  <2>. HIDE DEF c
  <2>3. consumer'[p] = c /\ OnlyMoves(p) BY <1>0, <2>1, MoveIs
  <2>4. QED BY <2>1, <2>2, <2>3
<1>2. ProgressKind(p) \subseteq Underway /\ ResultContent = Content \ {"bare"}
  BY DEF InMemory, ProgressKind, ResultContent, Underway
<1>3. CASE ReceiveProgress(p)
  <2>1. PICK v \in Variation, kind \in ProgressKind(p) :
            consumer[p].left > 0 /\ v \notin consumer[p].results /\ Receive(p, v, kind, "none")
    BY <1>2, <1>3 DEF ReceiveProgress, InMemory, Underway
  <2>2. MaxEvents # 0
    <3>1. consumer[p].left \in 0 .. MaxEvents BY <1>0, ProgressParts DEF Budgets
    <3>2. QED BY <2>1, <3>1, Bounds
  <2>3. QED BY <1>1, <1>2, <2>1, <2>2
<1>4. CASE ReceiveResult(p)
  <2>1. PICK v \in Variation \ consumer[p].results :
            \/ Receive(p, v, "failed", "none")
            \/ \E content \in ResultContent : Receive(p, v, "completed", content)
    BY <1>4 DEF ReceiveResult
  <2>2. "failed" \notin ProgressKind(p) /\ "completed" \notin ProgressKind(p) BY <1>2 DEF Underway
  <2>3. CASE Receive(p, v, "failed", "none") BY <1>1, <2>1, <2>2, <2>3
  <2>4. CASE \E content \in ResultContent : Receive(p, v, "completed", content)
    BY <1>1, <1>2, <2>1, <2>2, <2>4
  <2>5. QED BY <2>1, <2>3, <2>4
<1>5. ~ReceiveBreak(p) BY DEF ReceiveBreak, InMemory
<1>6. QED BY <1>3, <1>4, <1>5
LEMMA ApplyIs ==
    ASSUME RowsTyped, InMemory, NEW task, NEW v \in Variation, NEW status, NEW artifact,
           Apply(task, v, status, artifact)
    PROVE  /\ writes' = writes
           /\ \A u \in Variation \ {v} : var'[u] = var[u]
           /\ var'[v].status = IF status = "keep" THEN var[v].status ELSE status
           /\ var'[v].artifact = IF artifact = 0 THEN var[v].artifact ELSE artifact
<1>1. writes' = writes /\ var' = [var EXCEPT ![v] = Merge(@, status, artifact)]
  BY DEF Apply, InMemory
<1>2. \A u \in Variation \ {v} : var'[u] = var[u] BY <1>1 DEF RowsTyped
<1>3. var'[v] = Merge(var[v], status, artifact) BY <1>1 DEF RowsTyped
<1>4. QED BY <1>1, <1>2, <1>3 DEF Merge

-----------------------------------------------------------------------------
(* What most moves leave alone.                                            *)

LEMMA WorkerKept ==
    ASSUME PagesTyped, Queues, LocksOwned, OnlyMoves(Worker), Tidy(consumer'[Worker]),
           UNCHANGED <<pages, pending, reviews>>,
           LET early == {"absent", "created", "prepared", "abandoned", "queued"}
           IN  consumer'[Worker].at \in early => consumer[Worker].at \in early
    PROVE  /\ Queues' /\ LocksOwned'
           /\ RepairsInTurn => RepairsInTurn'
           /\ ReviewsInTurn => ReviewsInTurn'
<1>1. \A p \in Repair : consumer'[p] = consumer[p] BY RepairParts, Tasks DEF OnlyMoves
<1>2. ConsumersTidy' BY DEF Queues, ConsumersTidy, OnlyMoves
<1>3. RepairsTidy' /\ RepairsOfPages' BY <1>1 DEF Queues, RepairsTidy, RepairsOfPages
<1>4. NotBegun' BY DEF Queues, NotBegun
<1>5. \A p \in Repair : /\ Holds(consumer'[p]) <=> Holds(consumer[p])
                        /\ consumer'[p].at = "absent" <=> consumer[p].at = "absent"
  BY <1>1 DEF Holds
<1>6. LocksOwned' BY <1>5 DEF LocksOwned, Latest
<1>7. RepairsInTurn => RepairsInTurn' BY <1>5 DEF RepairsInTurn, Latest
<1>8. ASSUME ReviewsInTurn PROVE ReviewsInTurn'
  <2>1. \A r \in reviews : <<"repair", r[2], r[3]>> \in Repair BY PageParts, RepairParts DEF PagesTyped
  <2>2. QED BY <1>5, <1>8, <2>1 DEF ReviewsInTurn, Latest, PageOf
<1>9. QED BY <1>2, <1>3, <1>4, <1>6, <1>7, <1>8 DEF Queues

LEMMA RepairKept ==
    ASSUME PagesTyped, Queues, LocksOwned, NEW p \in Repair, OnlyMoves(p), Tidy(consumer'[p]),
           TidyRepair(p, consumer'[p]), consumer[p].at # "absent", consumer'[p].at # "absent",
           Holds(consumer'[p]) <=> Holds(consumer[p]), UNCHANGED <<pages, pending, reviews>>
    PROVE  /\ Queues' /\ LocksOwned'
           /\ InTurn => InTurn'
<1>0. consumer'[Worker] = consumer[Worker] BY RepairParts, Tasks DEF OnlyMoves
<1>1. \A q \in Repair : /\ Holds(consumer'[q]) <=> Holds(consumer[q])
                        /\ consumer'[q].at = "absent" <=> consumer[q].at = "absent"
  BY Tasks DEF OnlyMoves, Holds
<1>2. ConsumersTidy' BY DEF Queues, ConsumersTidy, OnlyMoves
<1>3. RepairsTidy' /\ RepairsOfPages'
  BY <1>1, Tasks DEF Queues, RepairsTidy, RepairsOfPages, OnlyMoves
<1>4. NotBegun' BY <1>0 DEF Queues, NotBegun
<1>5. LocksOwned' BY <1>1 DEF LocksOwned, Latest
<1>6. ASSUME InTurn PROVE InTurn'
  <2>1. RepairsInTurn' BY <1>1, <1>6 DEF InTurn, RepairsInTurn, Latest
  <2>2. ReviewsInTurn'
    <3>1. \A r \in reviews : <<"repair", r[2], r[3]>> \in Repair BY PageParts, RepairParts DEF PagesTyped
    <3>2. QED BY <1>1, <1>6, <3>1 DEF InTurn, ReviewsInTurn, Latest, PageOf
  <2>3. WorkerInTurn' BY <1>0, <1>6 DEF InTurn, WorkerInTurn, Unended
  <2>4. QED BY <2>1, <2>2, <2>3 DEF InTurn
<1>7. QED BY <1>2, <1>3, <1>4, <1>5, <1>6 DEF Queues

\* Writes that name no page away and reopen nothing but what has one.
LEMMA RowsKept ==
    ASSUME Rows, consumer'[Worker] = consumer[Worker], UNCHANGED pages,
           \A v \in Variation : var[v].artifact # 0 => var'[v].artifact # 0,
           \A v \in Variation : \/ var'[v].status = var[v].status
                                \/ var'[v].status \in Terminal \/ pages[v] # <<>>
    PROVE  Rows'
<1>1. PagesShown' BY DEF Rows, PagesShown
<1>2. Salvaged'
  <2>. DEFINE w == consumer[Worker]
              failing == w.at = "handling" /\ w.kind = "unfinished"
  <2>1. SUFFICES ASSUME w.at \in {"marking", "done"} \/ failing, NEW v \in Variation
                 PROVE  \/ Saved(v)' \/ (w.at # "done" /\ v \in w.todo)
                        \/ failing /\ w.v = v /\ w.seen \notin Terminal
    BY DEF Salvaged
  <2>2. Saved(v) \/ (w.at # "done" /\ v \in w.todo) \/ (failing /\ w.v = v /\ w.seen \notin Terminal)
    BY <2>1 DEF Rows, Salvaged
  <2>3. Saved(v) => Saved(v)'
    <3>1. pages[v] # <<>> => var[v].artifact # 0 BY <2>1 DEF Rows, PagesShown
    <3>2. QED BY <3>1 DEF Saved
  <2>4. QED BY <2>2, <2>3
<1>3. QED BY <1>1, <1>2 DEF Rows

LEMMA OwedKept ==
    ASSUME Owed, UNCHANGED <<pending, finals>>, Unended => Unended', job' = job \/ job' \in Terminal,
           Open' \subseteq Open
    PROVE  Owed'
BY DEF Owed, Over, Concludes

-----------------------------------------------------------------------------
(* The worker.                                                             *)

\* The worker on its way through an event or to its end: what is left to show.
LEMMA WorkerSettles ==
    ASSUME TypeInvariant, SettledInvariant, OnlyMoves(Worker), Tidy(consumer'[Worker]),
           UNCHANGED <<pages, pending, reviews, writes>>, confirms' = confirms,
           LET early == {"absent", "created", "prepared", "abandoned", "queued"}
           IN  consumer'[Worker].at \in early => consumer[Worker].at \in early,
           Unended' => Unended /\ consumer[Worker].results \subseteq consumer'[Worker].results,
           confirms = 0 /\ InTurn /\ Stores(consumer'[Worker]) => pages[consumer'[Worker].v] = <<>>,
           NoneInterferes => Owed', Rows'
    PROVE  SettledInvariant'
<1>1. PagesTyped BY TypeParts
<1>2. Queues' /\ LocksOwned' /\ (RepairsInTurn => RepairsInTurn') /\ (ReviewsInTurn => ReviewsInTurn')
  BY <1>1, WorkerKept DEF SettledInvariant
<1>3. ASSUME confirms = 0 PROVE InTurn'
  <2>1. InTurn BY <1>3 DEF SettledInvariant
  <2>2. WorkerInTurn' BY <1>3, <2>1 DEF InTurn, WorkerInTurn
  <2>3. QED BY <1>2, <2>1, <2>2 DEF InTurn
<1>4. NoneInterferes' => Owed' BY DEF NoneInterferes
<1>5. QED BY <1>2, <1>3, <1>4 DEF SettledInvariant

LEMMA CreationSettles ==
    ASSUME TypeInvariant, SettledInvariant, CreateDesignJob \/ AbandonJob \/ StartDesignJob \/ EndStream
    PROVE  SettledInvariant'
<1>0. ConsumersTyped /\ Worker \in Consumer BY TypeParts, Tasks
<1>1. PICK at \in {"created", "prepared", "abandoned", "queued", "streaming", "failing"} :
          /\ Move(Worker, [consumer[Worker] EXCEPT !.at = at])
          /\ at \in {"created", "prepared", "abandoned", "queued"} =>
                consumer[Worker].at \in {"absent", "created", "prepared"}
          /\ consumer[Worker].at \in {"absent", "created", "prepared", "queued", "streaming"}
          /\ var' = var \/ consumer[Worker].at = "created"
          /\ UNCHANGED <<pages, pending, reviews, writes, confirms>>
  BY DEF CreateDesignJob, CreateJob, CreateVariations, EnqueueDesignJob, AbandonJob, StartDesignJob,
         EndStream, Streaming, rowVars
<1>2. /\ OnlyMoves(Worker) /\ consumer'[Worker].at = at
      /\ consumer'[Worker].results = consumer[Worker].results
  BY <1>0, <1>1, AtIs
<1>3. Rows'
  <2>1. PagesShown'
    <3>1. CASE var' = var BY <1>1, <1>2, <3>1 DEF SettledInvariant, Rows, PagesShown
    <3>2. CASE consumer[Worker].at = "created"
      BY <1>1, <3>2 DEF SettledInvariant, Queues, NotBegun, PagesShown
    <3>3. QED BY <1>1, <3>1, <3>2
  <2>2. Salvaged' BY <1>2 DEF Salvaged
  <2>3. QED BY <2>1, <2>2 DEF Rows
<1>4. Tidy(consumer'[Worker]) /\ ~Stores(consumer'[Worker]) BY <1>2 DEF Tidy, Stores
<1>5. Unended /\ Unended' /\ Owed' BY <1>1, <1>2 DEF Unended, Owed
<1>6. QED BY <1>1, <1>2, <1>3, <1>4, <1>5, WorkerSettles

LEMMA SalvageSettles ==
    ASSUME TypeInvariant, SettledInvariant, FailUnfinishedVariations \/ FailUnfinished
    PROVE  SettledInvariant'
<1>0. ConsumersTyped /\ Worker \in Consumer /\ consumer[Worker] \in Progress
  BY TypeParts, Tasks DEF ConsumersTyped
<1>1. CASE FailUnfinishedVariations
  <2>. DEFINE open == {v \in Variation : var[v].status \notin Terminal /\ var[v].artifact = 0}
              c == [consumer[Worker] EXCEPT !.at = "marking", !.todo = open]
  <2>1. /\ consumer[Worker].at = "failing" /\ Move(Worker, c)
        /\ UNCHANGED <<job, var, pages, pending, reviews, finals, writes, confirms>>
    BY <1>1 DEF FailUnfinishedVariations, rowVars
  <2>2. c.at = "marking" /\ c.todo = open /\ c.results = consumer[Worker].results BY <1>0 DEF Progress
  <2>. HIDE DEF c
  <2>3. OnlyMoves(Worker) /\ consumer'[Worker] = c BY <1>0, <2>1, MoveIs
  <2>4. Rows'
    <3>1. PagesShown' BY <2>1 DEF SettledInvariant, Rows, PagesShown
    <3>2. Salvaged' BY <2>1, <2>2, <2>3 DEF Salvaged, Saved
    <3>3. QED BY <3>1, <3>2 DEF Rows
  <2>5. Tidy(c) /\ ~Stores(c) BY <2>2 DEF Tidy, Stores
  <2>6. Unended /\ Unended' /\ Owed' BY <2>1, <2>2, <2>3 DEF Unended, Owed
  <2>7. QED BY <2>1, <2>2, <2>3, <2>4, <2>5, <2>6, WorkerSettles
<1>2. CASE FailUnfinished
  <2>1. PICK v \in consumer[Worker].todo :
            Move(Worker, [consumer[Worker] EXCEPT !.at = "handling", !.kind = "unfinished",
                          !.content = "none", !.v = v, !.seen = var[v].status, !.todo = @ \ {v}])
    BY <1>2 DEF FailUnfinished
  <2>. DEFINE c == [consumer[Worker] EXCEPT !.at = "handling", !.kind = "unfinished",
                    !.content = "none", !.v = v, !.seen = var[v].status, !.todo = @ \ {v}]
  <2>2. /\ consumer[Worker].at = "marking" /\ Move(Worker, c)
        /\ UNCHANGED <<job, var, pages, pending, reviews, finals, writes, confirms>>
    BY <1>2, <2>1 DEF FailUnfinished, rowVars
  <2>3. /\ c.at = "handling" /\ c.kind = "unfinished" /\ c.content = "none" /\ c.v = v
        /\ c.seen = var[v].status /\ c.todo = consumer[Worker].todo \ {v}
        /\ c.results = consumer[Worker].results
    BY <1>0 DEF Progress
  <2>. HIDE DEF c
  <2>4. OnlyMoves(Worker) /\ consumer'[Worker] = c BY <1>0, <2>2, MoveIs
  <2>5. Rows'
    <3>1. PagesShown' BY <2>2 DEF SettledInvariant, Rows, PagesShown
    <3>2. \A u \in Variation : Saved(u) \/ u \in consumer[Worker].todo
      BY <2>2 DEF SettledInvariant, Rows, Salvaged
    <3>3. \A u \in Variation : Saved(u) \/ u \in c.todo \/ (c.v = u /\ c.seen \notin Terminal)
      BY <2>3, <3>2 DEF Saved
    <3>4. Salvaged' BY <2>2, <2>3, <2>4, <3>3 DEF Salvaged, Saved
    <3>5. QED BY <3>1, <3>4 DEF Rows
  <2>6. Tidy(c) /\ ~Stores(c) BY <2>3 DEF Tidy, Stores, Underway
  <2>7. Unended /\ Unended' /\ Owed' BY <2>2, <2>3, <2>4 DEF Unended, Owed
  <2>8. QED BY <2>2, <2>3, <2>4, <2>5, <2>6, <2>7, WorkerSettles
<1>3. QED BY <1>1, <1>2

\* The worker ends, and finalizes the job unless a lock is held.
LEMMA EndSettles ==
    ASSUME TypeInvariant, SettledInvariant, EndDesignJob
    PROVE  SettledInvariant'
<1>0. ConsumersTyped /\ Worker \in Consumer BY TypeParts, Tasks
<1>1. /\ consumer[Worker].at = "marking" /\ consumer[Worker].todo = {} /\ Finish(Worker)
      /\ finals' = IF pending = {} THEN finals \cup {NewFinal(Worker)} ELSE finals
      /\ UNCHANGED <<job, var, pages, pending, reviews, writes, confirms>>
  BY DEF EndDesignJob, rowVars
<1>2. /\ OnlyMoves(Worker) /\ consumer'[Worker].at = "done" /\ consumer'[Worker].todo = {}
  BY <1>0, <1>1, FinishIs
<1>3. Rows'
  <2>1. PagesShown' BY <1>1 DEF SettledInvariant, Rows, PagesShown
  <2>2. Salvaged' BY <1>1, <1>2 DEF SettledInvariant, Rows, Salvaged, Saved
  <2>3. QED BY <2>1, <2>2 DEF Rows
<1>4. Tidy(consumer'[Worker]) /\ ~Stores(consumer'[Worker]) BY <1>2 DEF Tidy, Stores
<1>5. Owed'
  <2>1. NewFinal(Worker).at = "snapshot" BY DEF NewFinal
  <2>2. pending = {} => Concludes(NewFinal(Worker))' BY <2>1 DEF Concludes
  <2>3. QED BY <1>1, <2>2 DEF Owed
<1>6. ~Unended' BY <1>2 DEF Unended
<1>7. QED BY <1>1, <1>2, <1>3, <1>4, <1>5, <1>6, WorkerSettles

\* The worker hears of an event, and of no page of a variation it has had the result of.
LEMMA WorkerReceives ==
    ASSUME TypeInvariant, InMemory, SettledInvariant,
           ReceiveProgress(Worker) \/ ReceiveResult(Worker) \/ ReceiveBreak(Worker)
    PROVE  SettledInvariant'
<1>. DEFINE w == consumer'[Worker]
<1>1. Worker \in Consumer /\ Scope(Worker) = Variation BY Tasks DEF Scope
<1>2. /\ consumer[Worker].at = "streaming" /\ OnlyMoves(Worker)
      /\ w.at = "handling" /\ w.v \in Variation /\ w.v \notin consumer[Worker].results
      /\ \/ w.kind \in Underway /\ MaxEvents # 0 /\ w.content = "none" /\ w.results = consumer[Worker].results
         \/ /\ w.kind = "failed" /\ w.content = "none"
            /\ w.results = consumer[Worker].results \cup {w.v}
         \/ /\ w.kind = "completed" /\ w.content \in Content \ {"bare"}
            /\ w.results = consumer[Worker].results \cup {w.v}
      /\ UNCHANGED <<job, var, pages, pending, reviews, writes, confirms>>
  BY <1>1, ReceiveIs DEF rowVars
<1>. HIDE DEF w
<1>3. Tidy(w) BY <1>2, NoneIsNoContent DEF Tidy, Underway
<1>4. Rows'
  <2>1. PagesShown' BY <1>2 DEF SettledInvariant, Rows, PagesShown
  <2>2. w.kind # "unfinished" BY <1>2 DEF Underway
  <2>3. Salvaged' BY <1>2, <2>2 DEF Salvaged, w
  <2>4. QED BY <2>1, <2>3 DEF Rows
<1>5. Unended /\ Unended' /\ Owed' BY <1>2 DEF Unended, Owed, w
<1>6. InTurn => pages[w.v] = <<>> BY <1>2, <1>5 DEF InTurn, WorkerInTurn
<1>7. w.at \notin {"absent", "created", "prepared", "abandoned", "queued"}
      /\ consumer[Worker].results \subseteq w.results
  BY <1>2
<1>8. QED BY <1>2, <1>3, <1>4, <1>5, <1>6, <1>7, WorkerSettles DEF w

LEMMA WorkerHandles ==
    ASSUME TypeInvariant, InMemory, SettledInvariant,
           \/ HandleProgress(Worker) \/ HandleFailure(Worker) \/ HandleUpdate(Worker)
           \/ ApplyArtifact(Worker) \/ HandlePage(Worker) \/ MaterializeFails(Worker)
    PROVE  SettledInvariant'
<1>. DEFINE w == consumer[Worker]
<1>0. /\ ConsumersTyped /\ RowsTyped /\ Worker \in Consumer /\ w \in Progress
      /\ Tidy(w) /\ Worker \notin Repair
  BY TypeParts, Tasks, RepairParts DEF ConsumersTyped, SettledInvariant, Queues, ConsumersTidy
<1>1. w.at \in {"handling", "making", "applying"} => w.v \in Variation
  BY <1>0, Scopes DEF ConsumersTyped, ConsumersShaped, Shape
<1>2. \A status : Apply(Worker, w.v, status, 0) /\ w.v \in Variation =>
          /\ writes' = writes /\ \A u \in Variation \ {w.v} : var'[u] = var[u]
          /\ var'[w.v].status = IF status = "keep" THEN var[w.v].status ELSE status
          /\ var'[w.v].artifact = var[w.v].artifact
  BY <1>0, ApplyIs
\* Nobody names a page away.
<1>3. ASSUME NEW place \in {"streaming", "marking", "failing"}, Leave(Worker, place),
             UNCHANGED <<pages, pending, reviews, writes, confirms>>,
             w.at # "done", PagesShown',
             place = "marking" => w.at = "handling" /\ w.kind = "unfinished"
                                    /\ \A v \in Variation : Saved(v)' \/ v \in w.todo
      PROVE  SettledInvariant'
  <2>1. /\ OnlyMoves(Worker) /\ consumer'[Worker].at = place /\ consumer'[Worker].content = "none"
        /\ consumer'[Worker].results = w.results /\ consumer'[Worker].todo = w.todo
    BY <1>0, <1>3, LeaveIs
  <2>2. Salvaged' BY <1>3, <2>1 DEF Salvaged, Saved
  <2>3. Rows' BY <1>3, <2>2 DEF Rows
  <2>4. Tidy(consumer'[Worker]) /\ ~Stores(consumer'[Worker]) BY <2>1 DEF Tidy, Stores
  <2>5. Unended /\ Unended' /\ Owed' BY <1>3, <2>1 DEF Unended, Owed
  <2>6. QED BY <1>3, <2>1, <2>3, <2>4, <2>5, WorkerSettles
<1>4. CASE HandleProgress(Worker)
  <2>1. /\ w.at = "handling" /\ Leave(Worker, "streaming")
        /\ UNCHANGED <<pages, pending, reviews, confirms>>
        /\ UNCHANGED <<var, writes>> \/ \E status : Apply(Worker, w.v, status, 0)
    BY <1>4 DEF HandleProgress
  <2>2. writes' = writes /\ \A u \in Variation : var'[u].artifact = var[u].artifact
    BY <1>1, <1>2, <2>1
  <2>3. PagesShown' BY <2>1, <2>2 DEF SettledInvariant, Rows, PagesShown
  <2>4. QED BY <1>3, <2>1, <2>2, <2>3
<1>5. CASE HandleFailure(Worker)
  <2>1. /\ w.at = "handling"
        /\ Leave(Worker, IF w.kind = "unfinished" THEN "marking" ELSE "streaming")
        /\ UNCHANGED <<pages, pending, reviews, confirms>>
        /\ IF SeenTerminal(Worker) THEN UNCHANGED <<var, writes>> ELSE Apply(Worker, w.v, "failed", 0)
    BY <1>0, <1>5 DEF HandleFailure
  <2>2. /\ writes' = writes /\ \A u \in Variation : var'[u].artifact = var[u].artifact
        /\ \A u \in Variation : var'[u].status = var[u].status \/ var'[u].status = "failed"
        /\ SeenTerminal(Worker) \/ var'[w.v].status = "failed"
    BY <1>1, <1>2, <2>1
  <2>3. PagesShown' BY <2>1, <2>2 DEF SettledInvariant, Rows, PagesShown
  <2>4. ASSUME w.kind = "unfinished", NEW v \in Variation PROVE Saved(v)' \/ v \in w.todo
    <3>1. Saved(v) \/ v \in w.todo \/ (w.v = v /\ w.seen \notin Terminal)
      BY <2>1, <2>4 DEF SettledInvariant, Rows, Salvaged
    <3>2. QED BY <2>2, <3>1 DEF Saved, SeenTerminal, Terminal
  <2>5. QED BY <1>3, <2>1, <2>2, <2>3, <2>4
<1>6. ~HandleUpdate(Worker) BY <1>0 DEF HandleUpdate, Tidy, Underway
<1>7. CASE ApplyArtifact(Worker)
  <2>1. /\ w.at = "applying" /\ Leave(Worker, "streaming")
        /\ UNCHANGED <<pages, pending, reviews, confirms>>
        /\ \E status : Apply(Worker, w.v, status, w.version)
    BY <1>7 DEF ApplyArtifact
  <2>2. w.version \in 1 .. MaxPages BY <1>0, <2>1 DEF ConsumersTyped, ConsumersShaped, Shape
  <2>3. /\ writes' = writes /\ var'[w.v].artifact = w.version
        /\ \A u \in Variation \ {w.v} : var'[u] = var[u]
    BY <1>0, <1>1, <2>1, <2>2, Bounds, ApplyIs
  <2>4. PagesShown' BY <2>1, <2>2, <2>3 DEF SettledInvariant, Rows, PagesShown
  <2>5. QED BY <1>3, <2>1, <2>3, <2>4
<1>8. CASE MaterializeFails(Worker)
  <2>1. /\ w.at = "making" /\ Leave(Worker, "failing")
        /\ UNCHANGED <<var, pages, pending, reviews, writes, confirms>>
    BY <1>8 DEF MaterializeFails, rowVars
  <2>2. PagesShown' BY <2>1 DEF SettledInvariant, Rows, PagesShown
  <2>3. QED BY <1>3, <2>1, <2>2
<1>9. CASE HandlePage(Worker)
  <2>. DEFINE c == [consumer[Worker] EXCEPT !.at = "making", !.version = NextVersion(consumer[Worker].v)]
  <2>1. /\ w.at = "handling" /\ w.content # "none" /\ Move(Worker, c)
        /\ UNCHANGED <<var, pages, pending, reviews, writes, confirms>>
    BY <1>9 DEF HandlePage, rowVars
  <2>2. /\ c.at = "making" /\ c.v = w.v /\ c.content = w.content /\ c.kind = w.kind
        /\ c.results = w.results
    BY <1>0 DEF Progress
  <2>. HIDE DEF c
  <2>3. OnlyMoves(Worker) /\ consumer'[Worker] = c BY <1>0, <2>1, MoveIs
  <2>4. Tidy(c) BY <1>0, <2>1, <2>2 DEF Tidy
  <2>5. Rows'
    <3>1. PagesShown' BY <2>1 DEF SettledInvariant, Rows, PagesShown
    <3>2. Salvaged' BY <2>2, <2>3 DEF Salvaged
    <3>3. QED BY <3>1, <3>2 DEF Rows
  <2>6. Unended /\ Unended' /\ Owed' BY <2>1, <2>2, <2>3 DEF Unended, Owed
  <2>7. InTurn => pages[c.v] = <<>> BY <2>1, <2>2 DEF InTurn, WorkerInTurn, Stores
  <2>8. QED BY <2>1, <2>2, <2>3, <2>4, <2>5, <2>6, <2>7, WorkerSettles
<1>10. QED BY <1>4, <1>5, <1>6, <1>7, <1>8, <1>9

-----------------------------------------------------------------------------
(* Pages.                                                                  *)

\* A page is stored: its review has the lock that its repair, if it is one, held for it.
LEMMA PageSettles ==
    ASSUME TypeInvariant, InMemory, SettledInvariant, NEW p \in Consumer, MaterializeArtifact(p)
    PROVE  SettledInvariant'
<1>. DEFINE v == consumer[p].v
            n == Len(pages[v]) + 1
            flawed == consumer[p].content \in Flaw
            page == [version |-> consumer[p].version, content |-> consumer[p].content]
            c == [consumer[p] EXCEPT !.at = "applying", !.version = n]
<1>0. /\ ConsumersTyped /\ PagesTyped /\ PagesKnown /\ RowsTyped /\ consumer[p] \in Progress
      /\ Shape(p, consumer[p]) /\ Tidy(consumer[p]) /\ Worker \in Consumer
      /\ p \in Repair => TidyRepair(p, consumer[p])
  BY TypeParts, Tasks DEF ConsumersTyped, ConsumersShaped, SettledInvariant, Queues, ConsumersTidy, RepairsTidy
<1>1. /\ consumer[p].at = "making" /\ Move(p, c)
      /\ pages' = [pages EXCEPT ![v] = Append(@, page)]
      /\ reviews' = IF consumer[p].content = "bare" THEN reviews ELSE reviews \cup {<<"page", v, n>>}
      /\ IF flawed THEN pending' = pending \cup {v} /\ Apply(<<"page", v, n>>, v, "rendering_preview", n)
         ELSE UNCHANGED <<pending, var, writes>>
      /\ UNCHANGED <<job, finals, confirms>>
  BY DEF MaterializeArtifact
<1>2. v \in Variation /\ v \in Scope(p) /\ Stores(consumer[p]) /\ Len(pages[v]) \in Nat
      /\ consumer[p].content \in Content /\ consumer[p].content # "none"
  BY <1>0, <1>1, Scopes, NoneIsNoContent, SequenceDomain DEF Shape, Stores
<1>3. n \in 1 .. MaxPages /\ <<"repair", v, n>> \in Repair /\ n - 1 = Len(pages[v])
  <2>1. Len(pages[v]) + 1 <= MaxPages BY <1>0, <1>2, PageRoom
  <2>2. n \in 1 .. MaxPages BY <1>2, <2>1, Bounds
  <2>3. QED BY <1>2, <2>2, RepairParts
<1>4. /\ Len(pages'[v]) = n /\ pages'[v] # <<>> /\ pages'[v][n] = page
      /\ \A u \in Variation \ {v} : pages'[u] = pages[u]
      /\ \A u \in Variation : DOMAIN pages[u] \subseteq DOMAIN pages'[u]
      /\ \A i \in DOMAIN pages[v] : i \in 1 .. n - 1
  <2>1. page \in [version : 1 .. MaxPages + 1, content : Content]
    <3>1. consumer[p].version \in 1 .. MaxPages + 1
      <4>1. PICK k \in 0 .. Len(pages[v]) : VersionsTo(v, k) BY <1>0, <1>2 DEF PagesKnown, VersionsKnown
      <4>2. consumer[p].version \in 1 .. k + 1 BY <1>1, <4>1 DEF VersionsTo
      <4>3. k \in Nat /\ k + 1 <= n /\ n <= MaxPages BY <1>2, <1>3, Bounds
      <4>. HIDE DEF n, v
      <4>4. QED BY <1>3, <4>2, <4>3, Bounds
    <3>2. QED BY <1>2, <3>1
  <2>. DEFINE S == [version : 1 .. MaxPages + 1, content : Content]
  <2>2. pages \in [Variation -> Seq(S)] /\ pages[v] \in Seq(S) BY <1>0, <1>2 DEF PagesTyped
  <2>3. page \in S BY <2>1
  <2>. HIDE DEF S, page
  <2>4. pages'[v] = Append(pages[v], page) /\ \A u \in Variation \ {v} : pages'[u] = pages[u]
    BY <1>1, <1>2, <2>2
  <2>5. /\ Len(pages'[v]) = n /\ pages'[v] # <<>> /\ pages'[v][n] = page
        /\ DOMAIN pages[v] = 1 .. n - 1 /\ DOMAIN pages'[v] = 1 .. n
    BY <1>2, <2>2, <2>3, <2>4
  <2>6. DOMAIN pages[v] \subseteq DOMAIN pages'[v] BY <1>2, <2>5
  <2>7. QED BY <2>4, <2>5, <2>6
<1>5. /\ consumer'[p].at = "applying" /\ consumer'[p].v = v /\ consumer'[p].kind = consumer[p].kind
      /\ consumer'[p].results = consumer[p].results /\ OnlyMoves(p)
  <2>1. c.at = "applying" /\ c.v = v /\ c.kind = consumer[p].kind /\ c.results = consumer[p].results
    BY <1>0 DEF Progress
  <2>. HIDE DEF c
  <2>2. QED BY <1>0, <1>1, <2>1, MoveIs
<1>6. /\ writes' = writes /\ reviews' = reviews \cup {<<"page", v, n>>}
      /\ \A u \in Variation \ {v} : var'[u] = var[u]
      /\ IF flawed THEN pending' = pending \cup {v} /\ var'[v].artifact # 0
         ELSE pending' = pending /\ var' = var
  <2>1. consumer[p].content # "bare" BY <1>0, <1>1, <1>2 DEF Tidy
  <2>2. CASE flawed
    <3>1. Apply(<<"page", v, n>>, v, "rendering_preview", n) BY <1>1, <2>2
    <3>. HIDE DEF v, n, c, page
    <3>2. /\ writes' = writes /\ \A u \in Variation \ {v} : var'[u] = var[u]
          /\ var'[v].artifact = IF n = 0 THEN var[v].artifact ELSE n
      BY <1>0, <1>2, <3>1, ApplyIs
    <3>3. n # 0 BY <1>3
    <3>4. QED BY <1>1, <2>1, <2>2, <3>2, <3>3
  <2>3. CASE ~flawed BY <1>1, <2>1, <2>3
  <2>4. QED BY <2>2, <2>3
<1>. HIDE DEF v, n, flawed, page, c
<1>7. p \in Repair => /\ p[2] = v /\ p[3] \in DOMAIN pages[v] /\ pages[v] # <<>>
                      /\ consumer'[Worker] = consumer[Worker]
  <2>1. ASSUME p \in Repair PROVE p[2] = v /\ p[3] \in DOMAIN pages[v]
    <3>1. p[2] = v BY <1>2, <2>1, RepairParts DEF Scope
    <3>2. QED BY <1>1, <2>1, <3>1 DEF SettledInvariant, Queues, RepairsOfPages
  <2>2. pages[v] = <<>> => DOMAIN pages[v] = {} OBVIOUS
  <2>3. QED BY <1>0, <1>5, <2>1, <2>2, RepairParts DEF OnlyMoves
<1>8. p = Worker \/ p \in Repair BY DEF Consumer
<1>9. \A q \in Repair : /\ q # p => (Holds(consumer'[q]) <=> Holds(consumer[q]))
                        /\ consumer'[q].at = "absent" <=> consumer[q].at = "absent"
  BY <1>1, <1>5, Tasks DEF OnlyMoves, Holds
<1>10. Queues'
  <2>1. ConsumersTidy'
    <3>1. Tidy(consumer'[p]) BY <1>0, <1>1, <1>2, <1>5 DEF Tidy
    <3>2. QED BY <1>5, <3>1 DEF SettledInvariant, Queues, ConsumersTidy, OnlyMoves
  <2>2. RepairsTidy'
    <3>1. p \in Repair => TidyRepair(p, consumer'[p]) BY <1>0, <1>1, <1>5 DEF TidyRepair
    <3>2. QED BY <1>5, <3>1, Tasks DEF SettledInvariant, Queues, RepairsTidy, OnlyMoves
  <2>3. RepairsOfPages'
    BY <1>4, <1>9, RepairParts DEF SettledInvariant, Queues, RepairsOfPages
  <2>4. NotBegun'
    BY <1>2, <1>5, <1>7, <1>8 DEF SettledInvariant, Queues, NotBegun
  <2>5. QED BY <2>1, <2>2, <2>3, <2>4 DEF Queues
<1>11. Rows'
  <2>1. PagesShown'
    <3>1. ASSUME NEW u \in Variation \ {v}, pages'[u] # <<>>
          PROVE  var'[u].artifact # 0 \/ (consumer'[Worker].at = "applying" /\ consumer'[Worker].v = u)
      <4>1. var[u].artifact # 0 \/ (consumer[Worker].at = "applying" /\ consumer[Worker].v = u)
        BY <1>4, <3>1 DEF SettledInvariant, Rows, PagesShown
      <4>2. QED BY <1>1, <1>6, <1>7, <1>8, <4>1
    <3>2. var'[v].artifact # 0 \/ (consumer'[Worker].at = "applying" /\ consumer'[Worker].v = v)
      <4>1. CASE p = Worker BY <1>5, <4>1
      <4>2. CASE p \in Repair BY <1>2, <1>6, <1>7, <4>2 DEF SettledInvariant, Rows, PagesShown
      <4>3. QED BY <1>8, <4>1, <4>2
    <3>3. QED BY <3>1, <3>2 DEF PagesShown
  <2>2. Salvaged'
    <3>1. CASE p = Worker BY <1>5, <3>1 DEF Salvaged
    <3>2. CASE p \in Repair
      <4>1. \A u \in Variation : Saved(u) => Saved(u)' BY <1>6 DEF Saved
      <4>2. QED BY <1>7, <3>2, <4>1 DEF SettledInvariant, Rows, Salvaged
    <3>3. QED BY <1>8, <3>1, <3>2
  <2>3. QED BY <2>1, <2>2 DEF Rows
<1>12. LocksOwned'
  <2>0. consumer[<<"repair", v, n>>].at = "absent"
    <3>1. n \notin DOMAIN pages[v] BY <1>3, <1>4
    <3>2. QED BY <1>3, <3>1 DEF SettledInvariant, Queues, RepairsOfPages
  <2>1. \E q \in Repair :
            /\ q[2] = v /\ q[3] = Len(pages'[v])
            /\ Holds(consumer'[q]) \/ (consumer'[q].at = "absent" /\ <<"page", v, q[3]>> \in reviews')
    <3>0. PICK q \in Repair : q = <<"repair", v, n>> BY <1>3
    <3>1. q \in Repair /\ q[2] = v /\ q[3] = n BY <3>0
    <3>2. q[3] = Len(pages'[v]) BY <1>4, <3>1
    <3>3. consumer'[q].at = "absent" BY <1>9, <2>0, <3>0
    <3>4. <<"page", v, q[3]>> \in reviews' BY <1>6, <3>1
    <3>5. QED BY <3>1, <3>2, <3>3, <3>4
  <2>2. ASSUME NEW u \in pending, u # v
        PROVE  \E q \in Repair :
                  /\ q[2] = u /\ q[3] = Len(pages'[u])
                  /\ Holds(consumer'[q]) \/ (consumer'[q].at = "absent" /\ <<"page", u, q[3]>> \in reviews')
    <3>1. PICK q \in Repair :
              /\ q[2] = u /\ Latest(q)
              /\ Holds(consumer[q]) \/ (consumer[q].at = "absent" /\ <<"page", u, q[3]>> \in reviews)
      BY DEF SettledInvariant, LocksOwned
    <3>2. u \in Variation /\ q # p BY <1>7, <2>2, <3>1, RepairParts
    <3>3. q[3] = Len(pages'[u]) BY <1>4, <2>2, <3>1, <3>2 DEF Latest
    <3>4. QED BY <1>6, <1>9, <3>1, <3>2, <3>3
  <2>3. \A u \in pending' : u = v \/ u \in pending BY <1>6
  <2>4. QED BY <2>1, <2>2, <2>3 DEF LocksOwned, Latest
<1>13. ASSUME confirms = 0 PROVE InTurn'
  <2>0. RepairsInTurn /\ ReviewsInTurn /\ WorkerInTurn BY <1>13 DEF SettledInvariant, InTurn
  <2>1. \/ pages[v] = <<>>
        \/ p \in Repair /\ Latest(p)
    <3>1. p = Worker => pages[v] = <<>> BY <1>2, <2>0 DEF WorkerInTurn, v
    <3>2. p \in Repair => Latest(p) BY <1>1, <2>0 DEF RepairsInTurn, Holds
    <3>3. QED BY <1>8, <3>1, <3>2
  <2>2. RepairsInTurn'
    <3>1. SUFFICES ASSUME NEW q \in Repair, Holds(consumer'[q]) PROVE Latest(q)' /\ q[2] \in pending'
      BY DEF RepairsInTurn
    <3>2. q # p BY <1>5, <3>1 DEF Holds
    <3>3. Holds(consumer[q]) /\ Latest(q) /\ q[2] \in pending BY <1>9, <2>0, <3>1, <3>2 DEF RepairsInTurn
    <3>4. q[3] \in DOMAIN pages[q[2]] BY <3>3 DEF Holds, SettledInvariant, Queues, RepairsOfPages
    <3>5. q[2] # v
      <4>1. SUFFICES ASSUME q[2] = v PROVE FALSE OBVIOUS
      <4>2. pages[v] # <<>> BY <3>4, <4>1
      <4>3. p \in Repair /\ Latest(p) BY <2>1, <4>2
      <4>4. p[3] = q[3] BY <1>7, <3>3, <4>1, <4>3 DEF Latest
      <4>5. QED BY <1>7, <3>2, <4>1, <4>3, <4>4, RepairParts
    <3>6. Latest(q)' BY <1>4, <3>3, <3>5, RepairParts DEF Latest
    <3>7. QED BY <1>6, <3>3, <3>6
  <2>3. ReviewsInTurn'
    <3>1. SUFFICES ASSUME NEW r \in reviews'
                   PROVE  /\ Latest(r)' /\ consumer'[<<"repair", r[2], r[3]>>].at = "absent"
                          /\ PageOf(r)'.content \in Flaw => r[2] \in pending'
      BY DEF ReviewsInTurn
    <3>2. CASE r = <<"page", v, n>>
      <4>1. Latest(r)' BY <1>4, <3>2 DEF Latest
      <4>2. PageOf(r)'.content = consumer[p].content BY <1>4, <3>2 DEF PageOf, page
      <4>3. n \notin DOMAIN pages[v] BY <1>3, <1>4
      <4>4. consumer'[<<"repair", v, n>>].at = "absent"
        BY <1>3, <1>9, <4>3 DEF SettledInvariant, Queues, RepairsOfPages
      <4>5. QED BY <1>6, <3>2, <4>1, <4>2, <4>4 DEF flawed
    <3>3. CASE r \in reviews
      <4>1. r \in Page /\ r[2] \in Variation /\ r[3] \in DOMAIN pages[r[2]]
            /\ <<"repair", r[2], r[3]>> \in Repair
        BY <1>0, <3>3, PageParts, RepairParts DEF PagesTyped, PagesKnown, ReviewsKnown
      <4>2. /\ Latest(r) /\ consumer[<<"repair", r[2], r[3]>>].at = "absent"
            /\ PageOf(r).content \in Flaw => r[2] \in pending
        BY <2>0, <3>3 DEF ReviewsInTurn
      <4>3. r[2] # v
        <5>1. SUFFICES ASSUME r[2] = v PROVE FALSE OBVIOUS
        <5>2. pages[v] # <<>> BY <4>1, <5>1
        <5>3. p \in Repair /\ Latest(p) BY <2>1, <5>2
        <5>4. p[3] = r[3] /\ p[2] = r[2] BY <1>7, <4>2, <5>1, <5>3 DEF Latest
        <5>5. p = <<"repair", r[2], r[3]>> BY <5>3, <5>4, RepairParts
        <5>6. QED BY <1>1, <4>2, <5>5
      <4>4. Latest(r)' /\ PageOf(r)' = PageOf(r) BY <1>4, <4>1, <4>2, <4>3 DEF Latest, PageOf
      <4>5. QED BY <1>6, <1>9, <4>1, <4>2, <4>4
    <3>4. QED BY <1>6, <3>2, <3>3
  <2>4. WorkerInTurn'
    <3>1. ASSUME Unended', NEW u \in Variation, pages'[u] # <<>> PROVE u \in consumer'[Worker].results
      <4>1. Unended BY <1>1, <1>7, <1>8, <3>1 DEF Unended
      <4>2. consumer'[Worker].results = consumer[Worker].results BY <1>5, <1>7, <1>8
      <4>3. CASE u # v BY <1>4, <2>0, <3>1, <4>1, <4>2, <4>3 DEF WorkerInTurn
      <4>4. CASE u = v
        <5>1. p = Worker => v \in consumer[Worker].results BY <1>0, <1>1, <1>2 DEF Tidy, v
        <5>2. p \in Repair => v \in consumer[Worker].results BY <1>2, <1>7, <2>0, <4>1 DEF WorkerInTurn
        <5>3. QED BY <1>8, <4>2, <4>4, <5>1, <5>2
      <4>5. QED BY <4>3, <4>4
    <3>2. ASSUME Stores(consumer'[Worker]) PROVE pages'[consumer'[Worker].v] = <<>>
      <4>1. p \in Repair BY <1>5, <1>8, <3>2 DEF Stores
      <4>2. pages[consumer[Worker].v] = <<>> BY <1>7, <2>0, <3>2, <4>1 DEF WorkerInTurn
      <4>3. consumer[Worker].v \in Variation
        BY <1>0, <1>7, <3>2, <4>1, Scopes DEF ConsumersTyped, ConsumersShaped, Shape, Stores
      <4>4. QED BY <1>4, <1>7, <4>1, <4>2, <4>3
    <3>3. QED BY <3>1, <3>2 DEF WorkerInTurn
  <2>5. QED BY <2>2, <2>3, <2>4 DEF InTurn
<1>14. ASSUME NoneInterferes PROVE Owed'
  <2>1. CASE p = Worker BY <1>5, <2>1 DEF Owed, Unended
  <2>2. CASE flawed BY <1>6, <2>2 DEF Owed
  <2>3. CASE p \in Repair /\ ~flawed
    <3>1. Owed /\ Open' = Open /\ (Unended => Unended')
      BY <1>6, <1>7, <1>14, <2>3 DEF SettledInvariant, Open, Unended
    <3>2. QED BY <1>1, <1>6, <2>3, <3>1, OwedKept
  <2>4. QED BY <1>8, <2>1, <2>2, <2>3
<1>15. NoneInterferes' = NoneInterferes /\ confirms' = confirms BY <1>1 DEF NoneInterferes
<1>16. writes' = {} BY <1>6 DEF SettledInvariant
<1>17. QED BY <1>10, <1>11, <1>12, <1>13, <1>14, <1>15, <1>16 DEF SettledInvariant

-----------------------------------------------------------------------------
(* Repairs.                                                                *)

\* A repair goes on, and holds its lock if it did.
LEMMA RepairSettles ==
    ASSUME TypeInvariant, SettledInvariant, NEW p \in Repair, OnlyMoves(p), Tidy(consumer'[p]),
           TidyRepair(p, consumer'[p]), consumer[p].at # "absent", consumer'[p].at # "absent",
           Holds(consumer'[p]) <=> Holds(consumer[p]),
           UNCHANGED <<pages, pending, reviews, writes>>, confirms' = confirms,
           \A v \in Variation : var[v].artifact # 0 => var'[v].artifact # 0,
           \A v \in Variation : \/ var'[v].status = var[v].status
                                \/ var'[v].status \in Terminal \/ pages[v] # <<>>,
           NoneInterferes => Owed'
    PROVE  SettledInvariant'
<1>1. Queues' /\ LocksOwned' /\ (InTurn => InTurn')
  <2>1. PagesTyped BY TypeParts
  <2>2. QED BY <2>1, RepairKept DEF SettledInvariant
<1>2. Rows'
  <2>1. consumer'[Worker] = consumer[Worker] BY RepairParts, Tasks DEF OnlyMoves
  <2>2. QED BY <2>1, RowsKept DEF SettledInvariant
<1>3. NoneInterferes' = NoneInterferes BY DEF NoneInterferes
<1>4. QED BY <1>1, <1>2, <1>3 DEF SettledInvariant

\* No row is written.
LEMMA RepairMoves ==
    ASSUME TypeInvariant, SettledInvariant, NEW p \in Repair, OnlyMoves(p), Tidy(consumer'[p]),
           TidyRepair(p, consumer'[p]), consumer[p].at # "absent", consumer'[p].at # "absent",
           Holds(consumer'[p]) <=> Holds(consumer[p]),
           UNCHANGED <<job, var, pages, pending, reviews, finals, writes, confirms>>
    PROVE  SettledInvariant'
<1>1. consumer'[Worker] = consumer[Worker] BY RepairParts, Tasks DEF OnlyMoves
<1>2. Owed => Owed' BY <1>1, OwedKept DEF Unended, Open
<1>3. QED BY <1>2, RepairSettles DEF SettledInvariant

LEMMA RepairGoesOn ==
    ASSUME TypeInvariant, InMemory, SettledInvariant, NEW p \in Repair,
           \/ ReceiveProgress(p) \/ ReceiveResult(p) \/ ReceiveBreak(p)
           \/ HandlePage(p) \/ MaterializeFails(p) \/ StartRepair(p) \/ EndRepair(p)
    PROVE  SettledInvariant'
<1>0. /\ p \in Consumer /\ p # Worker /\ Scope(p) = {p[2]} /\ ConsumersTyped /\ consumer[p] \in Progress
      /\ Tidy(consumer[p]) /\ TidyRepair(p, consumer[p])
  BY TypeParts, Tasks, RepairParts
  DEF ConsumersTyped, SettledInvariant, Queues, ConsumersTidy, RepairsTidy, Scope
<1>1. CASE ReceiveProgress(p) \/ ReceiveResult(p) \/ ReceiveBreak(p)
  <2>. DEFINE c == consumer'[p]
  <2>1. /\ consumer[p].at = "streaming" /\ OnlyMoves(p)
        /\ c.at = "handling" /\ c.v = p[2] /\ c.v \notin consumer[p].results
        /\ \/ c.kind \in Underway /\ MaxEvents # 0 /\ c.content = "none" /\ c.results = consumer[p].results
           \/ /\ c.kind = "failed" /\ c.content = "none"
              /\ c.results = consumer[p].results \cup {c.v}
           \/ /\ c.kind = "completed" /\ c.content \in Content \ {"bare"}
              /\ c.results = consumer[p].results \cup {c.v}
        /\ UNCHANGED <<job, var, pages, pending, reviews, finals, writes, confirms>>
    BY <1>0, <1>1, ReceiveIs DEF rowVars
  <2>. HIDE DEF c
  <2>2. consumer[p].results = {} BY <1>0, <2>1 DEF TidyRepair
  <2>3. Tidy(c) BY <2>1, NoneIsNoContent DEF Tidy, Underway
  <2>4. TidyRepair(p, c) BY <2>1, <2>2 DEF TidyRepair, Underway
  <2>5. Holds(c) /\ Holds(consumer[p]) BY <2>1, <2>2 DEF Holds
  <2>6. QED BY <2>1, <2>3, <2>4, <2>5, RepairMoves DEF c
<1>2. CASE HandlePage(p)
  <2>. DEFINE c == [consumer[p] EXCEPT !.at = "making", !.version = NextVersion(consumer[p].v)]
  <2>1. /\ consumer[p].at = "handling" /\ consumer[p].content # "none" /\ Move(p, c)
        /\ UNCHANGED <<job, var, pages, pending, reviews, finals, writes, confirms>>
    BY <1>2 DEF HandlePage, rowVars
  <2>2. /\ c.at = "making" /\ c.v = consumer[p].v /\ c.content = consumer[p].content
        /\ c.kind = consumer[p].kind /\ c.results = consumer[p].results
    BY <1>0 DEF Progress
  <2>. HIDE DEF c
  <2>3. OnlyMoves(p) /\ consumer'[p] = c BY <1>0, <2>1, MoveIs
  <2>4. consumer[p].kind = "completed" BY <1>0, <2>1 DEF Tidy
  <2>5. Tidy(c) /\ TidyRepair(p, c) BY <1>0, <2>1, <2>2, <2>4 DEF Tidy, TidyRepair, Underway
  <2>6. Holds(c) /\ Holds(consumer[p]) BY <2>1, <2>2 DEF Holds
  <2>7. QED BY <2>1, <2>2, <2>3, <2>5, <2>6, RepairMoves
<1>3. CASE MaterializeFails(p)
  <2>1. /\ consumer[p].at = "making" /\ Leave(p, "releasing")
        /\ UNCHANGED <<job, var, pages, pending, reviews, finals, writes, confirms>>
    BY <1>0, <1>3 DEF MaterializeFails, rowVars
  <2>2. /\ OnlyMoves(p) /\ consumer'[p].at = "releasing" /\ consumer'[p].content = "none"
        /\ consumer'[p].results = consumer[p].results
    BY <1>0, <2>1, LeaveIs
  <2>3. Tidy(consumer'[p]) /\ TidyRepair(p, consumer'[p]) BY <1>0, <2>2 DEF Tidy, TidyRepair
  <2>4. Holds(consumer'[p]) /\ Holds(consumer[p]) BY <2>1, <2>2 DEF Holds
  <2>5. QED BY <2>1, <2>2, <2>3, <2>4, RepairMoves
<1>4. CASE StartRepair(p)
  <2>1. /\ consumer[p].at = "queued" /\ Move(p, [consumer[p] EXCEPT !.at = "streaming"])
        /\ UNCHANGED <<job, var, pages, pending, reviews, finals, writes, confirms>>
    BY <1>4 DEF StartRepair, InMemory, rowVars
  <2>2. /\ OnlyMoves(p) /\ consumer'[p].at = "streaming" /\ consumer'[p].results = consumer[p].results
    BY <1>0, <2>1, AtIs
  <2>3. consumer[p].results = {} BY <1>0, <2>1 DEF TidyRepair
  <2>4. Tidy(consumer'[p]) /\ TidyRepair(p, consumer'[p]) BY <2>2, <2>3 DEF Tidy, TidyRepair
  <2>5. Holds(consumer'[p]) /\ Holds(consumer[p]) BY <2>1, <2>2, <2>3 DEF Holds
  <2>6. QED BY <2>1, <2>2, <2>4, <2>5, RepairMoves
<1>5. CASE EndRepair(p)
  <2>1. /\ consumer[p].at = "streaming" /\ consumer[p].results # {} /\ Finish(p)
        /\ UNCHANGED <<job, var, pages, pending, reviews, finals, writes, confirms>>
    BY <1>5 DEF EndRepair, Streaming, rowVars
  <2>2. OnlyMoves(p) /\ consumer'[p].at = "done" /\ consumer'[p].results = {}
    BY <1>0, <2>1, FinishIs
  <2>3. Tidy(consumer'[p]) /\ TidyRepair(p, consumer'[p]) BY <2>2 DEF Tidy, TidyRepair
  <2>4. ~Holds(consumer'[p]) /\ ~Holds(consumer[p]) BY <2>1, <2>2 DEF Holds
  <2>5. QED BY <2>1, <2>2, <2>3, <2>4, RepairMoves
<1>6. QED BY <1>1, <1>2, <1>3, <1>4, <1>5

\* A repair that writes the row of its variation, which has a page. A progress event reopens
\* the variation, but its lock keeps the job from being finalized.
LEMMA RepairWrites ==
    ASSUME TypeInvariant, InMemory, SettledInvariant, NEW p \in Repair,
           HandleProgress(p) \/ HandleFailure(p) \/ HandleUpdate(p) \/ ApplyArtifact(p)
    PROVE  SettledInvariant'
<1>. DEFINE c == consumer[p]
            v == p[2]
<1>0. /\ p \in Consumer /\ p # Worker /\ ConsumersTyped /\ RowsTyped /\ c \in Progress
      /\ Tidy(c) /\ TidyRepair(p, c) /\ v \in Variation
  BY TypeParts, Tasks, RepairParts DEF ConsumersTyped, SettledInvariant, Queues, ConsumersTidy, RepairsTidy
<1>1. ~HandleUpdate(p) BY <1>0 DEF HandleUpdate, Tidy, Underway
<1>2. c.at \in {"handling", "applying"} BY <1>1 DEF HandleProgress, HandleFailure, ApplyArtifact
<1>3. c.v = v BY <1>0, <1>2 DEF ConsumersTyped, ConsumersShaped, Shape, Scope
<1>4. pages[v] # <<>>
  <2>1. p[3] \in DOMAIN pages[v] BY <1>2 DEF SettledInvariant, Queues, RepairsOfPages
  <2>2. pages[v] = <<>> => DOMAIN pages[v] = {} OBVIOUS
  <2>3. QED BY <2>1, <2>2
<1>5. PICK place \in {"streaming", "stopping"} :
          /\ Leave(p, place) /\ (place = "stopping") = (c.at = "handling" /\ c.kind \notin Underway)
          /\ UNCHANGED <<job, pages, pending, reviews, finals, confirms>>
  BY <1>0, <1>1 DEF HandleProgress, HandleFailure, ApplyArtifact, Tidy, TidyRepair, Underway
<1>6. /\ OnlyMoves(p) /\ consumer'[p].at = place /\ consumer'[p].results = c.results
      /\ consumer'[Worker] = consumer[Worker]
  BY <1>0, <1>5, Tasks, LeaveIs DEF OnlyMoves
<1>7. Tidy(consumer'[p]) /\ TidyRepair(p, consumer'[p]) BY <1>0, <1>2, <1>5, <1>6 DEF Tidy, TidyRepair
<1>8. Holds(consumer'[p]) <=> Holds(c) BY <1>0, <1>2, <1>5, <1>6 DEF Holds, TidyRepair
<1>9. /\ writes' = writes /\ \A u \in Variation \ {v} : var'[u] = var[u]
      /\ var[v].artifact # 0 => var'[v].artifact # 0
      /\ \/ var' = var \/ var'[v].status \in Terminal
         \/ c.at = "handling" /\ c.kind \in Underway
  <2>1. ASSUME NEW status, NEW artifact, Apply(p, v, status, artifact)
        PROVE  /\ writes' = writes /\ \A u \in Variation \ {v} : var'[u] = var[u]
               /\ var[v].artifact # 0 => var'[v].artifact # 0
               /\ var'[v].status = IF status = "keep" THEN var[v].status ELSE status
    BY <1>0, <2>1, ApplyIs
  <2>2. CASE HandleProgress(p)
    <3>1. UNCHANGED <<var, writes>> \/ \E status : Apply(p, v, status, 0) BY <1>3, <2>2 DEF HandleProgress
    <3>2. c.at = "handling" /\ c.kind \in Underway
      BY <1>0, <2>2 DEF HandleProgress, Tidy, TidyRepair, Underway
    <3>3. QED BY <2>1, <3>1, <3>2
  <2>3. CASE HandleFailure(p)
    <3>1. UNCHANGED <<var, writes>> \/ Apply(p, v, "failed", 0) BY <1>3, <2>3 DEF HandleFailure
    <3>2. QED BY <2>1, <3>1 DEF Terminal
  <2>4. CASE ApplyArtifact(p)
    <3>1. Apply(p, v, "completed", c.version) BY <1>0, <1>3, <2>4 DEF ApplyArtifact, Tidy
    <3>2. QED BY <2>1, <3>1 DEF Terminal
  <2>5. QED BY <1>1, <2>2, <2>3, <2>4
<1>10. ASSUME NoneInterferes PROVE Owed'
  <2>1. CASE c.at = "handling" /\ c.kind \in Underway
    <3>1. MaxEvents # 0 BY <1>0, <2>1 DEF Tidy
    <3>2. RepairsInTurn BY <1>10, <3>1 DEF NoneInterferes, SettledInvariant, InTurn
    <3>3. Holds(c) BY <2>1 DEF Holds
    <3>4. v \in pending BY <3>2, <3>3 DEF RepairsInTurn
    <3>5. QED BY <1>5, <3>4 DEF Owed
  <2>2. CASE var' = var \/ var'[v].status \in Terminal
    <3>1. Open' \subseteq Open BY <1>9, <2>2 DEF Open
    <3>2. Owed BY <1>10 DEF SettledInvariant
    <3>3. QED BY <1>5, <1>6, <3>1, <3>2, OwedKept DEF Unended
  <2>3. QED BY <1>9, <2>1, <2>2
<1>. HIDE DEF v, c
<1>11. /\ \A u \in Variation : var[u].artifact # 0 => var'[u].artifact # 0
       /\ \A u \in Variation : \/ var'[u].status = var[u].status
                                \/ var'[u].status \in Terminal \/ pages[u] # <<>>
  BY <1>4, <1>9
<1>12. consumer[p].at # "absent" /\ consumer'[p].at # "absent" BY <1>2, <1>6 DEF c
<1>13. QED BY <1>5, <1>6, <1>7, <1>8, <1>9, <1>10, <1>11, <1>12, RepairSettles DEF c

-----------------------------------------------------------------------------
(* Locks.                                                                  *)

LEMMA ReviewOwes ==
    ASSUME Owed, NEW v, NEW task, FinishAutomationReview(v, task), UNCHANGED <<job, var>>,
           consumer'[Worker] = consumer[Worker]
    PROVE  Owed'
<1>1. NewFinal(task).at = "snapshot" BY DEF NewFinal
<1>2. CASE pending = {}
  <2>1. pending' = pending /\ finals' = finals BY <1>2 DEF FinishAutomationReview
  <2>2. QED BY <2>1, OwedKept DEF Unended, Open
<1>3. CASE pending # {} /\ pending \subseteq {v}
  <2>1. NewFinal(task) \in finals' BY <1>3 DEF FinishAutomationReview
  <2>2. Concludes(NewFinal(task))' BY <1>1 DEF Concludes
  <2>3. QED BY <2>1, <2>2 DEF Owed
<1>4. CASE ~(pending \subseteq {v})
  <2>1. pending' # {} BY <1>4 DEF FinishAutomationReview
  <2>2. QED BY <2>1 DEF Owed
<1>5. QED BY <1>2, <1>3, <1>4

\* A repair releases its lock without a page, and with it what the job waits for.
LEMMA ReleaseSettles ==
    ASSUME TypeInvariant, SettledInvariant, NEW p \in Repair, ReleaseRepair(p)
    PROVE  SettledInvariant'
<1>. DEFINE v == p[2]
<1>0. /\ p \in Consumer /\ p # Worker /\ ConsumersTyped /\ Tidy(consumer[p]) /\ TidyRepair(p, consumer[p])
      /\ Worker \in Consumer /\ PagesTyped
  BY TypeParts, Tasks, RepairParts DEF SettledInvariant, Queues, ConsumersTidy, RepairsTidy
<1>1. /\ consumer[p].at \in {"stopping", "releasing"} /\ FinishAutomationReview(v, p)
      /\ IF consumer[p].at = "stopping" THEN Leave(p, "streaming") ELSE Finish(p)
      /\ UNCHANGED <<job, var, pages, reviews, writes, confirms>>
  BY DEF ReleaseRepair, rowVars
<1>2. /\ OnlyMoves(p) /\ Tidy(consumer'[p]) /\ TidyRepair(p, consumer'[p])
      /\ ~Holds(consumer'[p]) /\ consumer'[p].at # "absent"
  <2>1. CASE consumer[p].at = "stopping"
    <3>1. OnlyMoves(p) /\ consumer'[p].at = "streaming" /\ consumer'[p].results = consumer[p].results
      BY <1>0, <1>1, <2>1, LeaveIs
    <3>2. QED BY <1>0, <2>1, <3>1 DEF Tidy, TidyRepair, Holds
  <2>2. CASE consumer[p].at = "releasing"
    <3>1. OnlyMoves(p) /\ consumer'[p].at = "done" /\ consumer'[p].results = {} BY <1>0, <1>1, <2>2, FinishIs
    <3>2. QED BY <3>1 DEF Tidy, TidyRepair, Holds
  <2>3. QED BY <1>1, <2>1, <2>2
<1>3. consumer'[Worker] = consumer[Worker] /\ pending' = pending \ {v}
  BY <1>0, <1>1, <1>2 DEF OnlyMoves, FinishAutomationReview
<1>4. Holds(consumer[p]) BY <1>1 DEF Holds
<1>5. \A q \in Repair \ {p} : consumer'[q] = consumer[q] BY <1>2, Tasks DEF OnlyMoves
<1>6. Queues'
  <2>1. ConsumersTidy' BY <1>2 DEF SettledInvariant, Queues, ConsumersTidy, OnlyMoves
  <2>2. RepairsTidy' BY <1>2, <1>5 DEF SettledInvariant, Queues, RepairsTidy
  <2>3. RepairsOfPages' BY <1>1, <1>5 DEF SettledInvariant, Queues, RepairsOfPages
  <2>4. NotBegun' BY <1>1, <1>3 DEF SettledInvariant, Queues, NotBegun
  <2>5. QED BY <2>1, <2>2, <2>3, <2>4 DEF Queues
<1>7. Rows' BY <1>1, <1>3, RowsKept DEF SettledInvariant
<1>8. LocksOwned' BY <1>1, <1>3, <1>5 DEF SettledInvariant, LocksOwned, Latest
<1>9. ASSUME confirms = 0 PROVE InTurn'
  <2>0. InTurn /\ Latest(p) BY <1>4, <1>9 DEF SettledInvariant, InTurn, RepairsInTurn
  <2>1. \A q \in Repair : q[2] = v /\ Latest(q) => q = p BY <2>0, RepairParts DEF Latest
  <2>2. RepairsInTurn' BY <1>1, <1>2, <1>3, <1>5, <2>0, <2>1 DEF InTurn, RepairsInTurn, Latest
  <2>3. ReviewsInTurn'
    <3>1. SUFFICES ASSUME NEW r \in reviews
                   PROVE  /\ Latest(r) /\ consumer'[<<"repair", r[2], r[3]>>].at = "absent"
                          /\ PageOf(r).content \in Flaw => r[2] \in pending'
      BY <1>1 DEF ReviewsInTurn, Latest, PageOf
    <3>2. PICK q \in Repair : q = <<"repair", r[2], r[3]>> BY <1>0, PageParts, RepairParts DEF PagesTyped
    <3>3. Latest(r) /\ consumer[q].at = "absent" /\ (PageOf(r).content \in Flaw => r[2] \in pending)
      BY <2>0, <3>2 DEF InTurn, ReviewsInTurn
    <3>4. q # p BY <1>1, <3>3
    <3>5. r[2] # v BY <2>1, <3>2, <3>3, <3>4 DEF Latest
    <3>6. QED BY <1>3, <1>5, <3>2, <3>3, <3>4, <3>5
  <2>4. WorkerInTurn' BY <1>1, <1>3, <2>0 DEF InTurn, WorkerInTurn, Unended
  <2>5. QED BY <2>2, <2>3, <2>4 DEF InTurn
<1>10. NoneInterferes' => Owed' BY <1>1, <1>3, ReviewOwes DEF SettledInvariant, NoneInterferes
<1>11. QED BY <1>1, <1>6, <1>7, <1>8, <1>9, <1>10 DEF SettledInvariant

\* The repair of a page is queued, while the page is there and its review may end.
LEMMA QueuedSettles ==
    ASSUME TypeInvariant, SettledInvariant, NEW v \in Variation, NEW n \in 1 .. MaxPages,
           n \in DOMAIN pages[v], EnqueueRepair(v, n), UNCHANGED <<job, var, pages, pending, finals, writes>>,
           reviews \ {<<"page", v, n>>} \subseteq reviews'
    PROVE  Queues' /\ Rows' /\ LocksOwned' /\ (Owed => Owed') /\ consumer'[Worker] = consumer[Worker]
<1>1. PICK p \in Repair : p = <<"repair", v, n>> BY RepairParts
<1>2. /\ ConsumersTyped /\ RepairsTidy /\ p \in Consumer /\ p # Worker /\ Worker \in Consumer
      /\ p[2] = v /\ p[3] = n
  BY <1>1, TypeParts, Tasks, RepairParts DEF SettledInvariant, Queues
<1>3. /\ OnlyMoves(p)
      /\ \/ UNCHANGED consumer /\ consumer[p].at # "absent"
         \/ consumer[p].at = "absent" /\ consumer'[p].at = "queued" /\ consumer'[p].results = {}
  BY <1>1, <1>2, EnqueueIs
<1>4. consumer'[Worker] = consumer[Worker] /\ \A q \in Repair \ {p} : consumer'[q] = consumer[q]
  BY <1>2, <1>3, Tasks DEF OnlyMoves
<1>5. Queues'
  <2>1. Tidy(consumer'[p]) /\ TidyRepair(p, consumer'[p])
    BY <1>2, <1>3 DEF SettledInvariant, Queues, ConsumersTidy, RepairsTidy, Tidy, TidyRepair
  <2>2. ConsumersTidy' BY <1>3, <2>1 DEF SettledInvariant, Queues, ConsumersTidy, OnlyMoves
  <2>3. RepairsTidy' BY <1>4, <2>1 DEF SettledInvariant, Queues, RepairsTidy
  <2>4. RepairsOfPages' BY <1>2, <1>4 DEF SettledInvariant, Queues, RepairsOfPages
  <2>5. NotBegun' BY <1>4 DEF SettledInvariant, Queues, NotBegun
  <2>6. QED BY <2>2, <2>3, <2>4, <2>5 DEF Queues
<1>6. Rows' BY <1>4, RowsKept DEF SettledInvariant
<1>7. LocksOwned'
  <2>1. ASSUME NEW u \in pending, NEW q \in Repair, q[2] = u,
               Holds(consumer[q]) \/ (consumer[q].at = "absent" /\ <<"page", u, q[3]>> \in reviews)
        PROVE  Holds(consumer'[q]) \/ (consumer'[q].at = "absent" /\ <<"page", u, q[3]>> \in reviews')
    <3>1. CASE q = p BY <1>3, <2>1, <3>1 DEF Holds
    <3>2. CASE q # p
      <4>1. consumer'[q] = consumer[q] BY <1>4, <3>2
      <4>2. <<"page", u, q[3]>> # <<"page", v, n>> BY <1>2, <2>1, <3>2, RepairParts
      <4>3. QED BY <2>1, <4>1, <4>2
    <3>3. QED BY <3>1, <3>2
  <2>2. ASSUME NEW u \in pending
        PROVE  \E q \in Repair :
                  /\ q[2] = u /\ Latest(q)
                  /\ Holds(consumer'[q]) \/ (consumer'[q].at = "absent" /\ <<"page", u, q[3]>> \in reviews')
    BY <2>1 DEF SettledInvariant, LocksOwned
  <2>3. QED BY <2>2 DEF LocksOwned, Latest
<1>8. Owed => Owed' BY <1>4, OwedKept DEF Unended, Open
<1>9. QED BY <1>4, <1>5, <1>6, <1>7, <1>8

\* A review gives the lock up, or leaves it to the repair that it queues.
LEMMA ReviewSettles ==
    ASSUME TypeInvariant, SettledInvariant, NEW r \in reviews, Review(r)
    PROVE  SettledInvariant'
<1>0. /\ PagesTyped /\ r \in Page /\ r = <<"page", r[2], r[3]>> /\ r[2] \in Variation
      /\ r[3] \in 1 .. MaxPages /\ r[3] \in DOMAIN pages[r[2]]
      /\ PageOf(r).content \in Content \ {"bare"}
  <2>1. PagesTyped /\ PagesKnown BY TypeParts
  <2>2. /\ r \in Page /\ r = <<"page", r[2], r[3]>> /\ r[2] \in Variation /\ r[3] \in 1 .. MaxPages
        /\ r[3] \in DOMAIN pages[r[2]] /\ PageOf(r).content # "bare"
    BY <2>1, PageParts DEF PagesTyped, PagesKnown, ReviewsKnown, PageOf
  <2>3. PageOf(r).content \in Content BY <2>1, <2>2, SequenceDomain DEF PageOf
  <2>4. QED BY <2>1, <2>2, <2>3
<1>1. PlanRepair(r) \/ StopReview(r) BY DEF Review
<1>2. reviews' = reviews \ {r} /\ UNCHANGED <<job, var, pages, writes, confirms>> BY DEF Review, rowVars
<1>3. PICK p \in Repair : p = <<"repair", r[2], r[3]>> BY <1>0, RepairParts
\* A page has one name.
<1>4. \A s \in reviews : s[2] = r[2] /\ s[3] = r[3] => s = r BY <1>0, PageParts DEF PagesTyped
<1>5. \A s \in reviews : <<"repair", s[2], s[3]>> \in Repair BY <1>0, PageParts, RepairParts DEF PagesTyped
<1>6. CASE StopReview(r)
  <2>1. FinishAutomationReview(r[2], r) /\ UNCHANGED consumer BY <1>6 DEF StopReview
  <2>2. pending' = pending \ {r[2]} BY <2>1 DEF FinishAutomationReview
  <2>3. Queues'
    BY <1>2, <2>1 DEF SettledInvariant, Queues, ConsumersTidy, RepairsTidy, RepairsOfPages, NotBegun
  <2>4. Rows' BY <1>2, <2>1, RowsKept DEF SettledInvariant
  <2>5. LocksOwned'
    <3>1. \A u \in pending', q \in Repair : <<"page", u, q[3]>> \in reviews => <<"page", u, q[3]>> \in reviews'
      BY <1>0, <1>2, <2>2
    <3>2. ASSUME NEW u \in pending'
          PROVE  \E q \in Repair :
                    /\ q[2] = u /\ Latest(q)
                    /\ Holds(consumer[q]) \/ (consumer[q].at = "absent" /\ <<"page", u, q[3]>> \in reviews')
      BY <2>2, <3>1 DEF SettledInvariant, LocksOwned
    <3>3. QED BY <1>2, <2>1, <3>2 DEF LocksOwned, Latest
  <2>6. ASSUME confirms = 0 PROVE InTurn'
    <3>0. RepairsInTurn /\ ReviewsInTurn /\ WorkerInTurn BY <2>6 DEF SettledInvariant, InTurn
    <3>1. Latest(r) /\ consumer[p].at = "absent" BY <1>3, <3>0 DEF ReviewsInTurn
    <3>2. RepairsInTurn'
      <4>1. \A q \in Repair : q[2] = r[2] /\ Latest(q) => q = p BY <1>3, <3>1, RepairParts DEF Latest
      <4>2. ~Holds(consumer[p]) BY <3>1 DEF Holds
      <4>3. QED BY <1>2, <2>1, <2>2, <3>0, <4>1, <4>2 DEF RepairsInTurn, Latest
    <3>3. ReviewsInTurn'
      <4>1. \A s \in reviews' : s[2] # r[2] BY <1>2, <1>4, <3>0, <3>1 DEF ReviewsInTurn, Latest
      <4>2. QED BY <1>2, <2>1, <2>2, <3>0, <4>1 DEF ReviewsInTurn, Latest, PageOf
    <3>4. WorkerInTurn' BY <1>2, <2>1, <3>0 DEF WorkerInTurn, Unended
    <3>5. QED BY <3>2, <3>3, <3>4 DEF InTurn
  <2>7. NoneInterferes' => Owed' BY <1>2, <2>1, ReviewOwes DEF SettledInvariant, NoneInterferes
  <2>8. QED BY <1>2, <2>3, <2>4, <2>5, <2>6, <2>7 DEF SettledInvariant
<1>7. CASE PlanRepair(r)
  <2>1. ~MustStop(r) /\ EnqueueRepair(r[2], r[3]) /\ UNCHANGED <<pending, finals>> BY <1>7 DEF PlanRepair
  <2>2. reviews \ {<<"page", r[2], r[3]>>} \subseteq reviews' BY <1>0, <1>2
  <2>3. Queues' /\ Rows' /\ LocksOwned' /\ (Owed => Owed') /\ consumer'[Worker] = consumer[Worker]
    BY <1>0, <1>2, <2>1, <2>2, QueuedSettles
  <2>4. \A q \in Repair \ {p} : consumer'[q] = consumer[q]
    <3>1. ConsumersTyped /\ RepairsTidy BY TypeParts DEF SettledInvariant, Queues
    <3>2. OnlyMoves(p) BY <1>0, <1>3, <2>1, <3>1, EnqueueIs
    <3>3. QED BY <3>2, Tasks DEF OnlyMoves
  <2>5. PageOf(r).content \in Flaw BY <1>0, <2>1, NoneIsNoContent DEF MustStop
  <2>6. ASSUME confirms = 0 PROVE InTurn'
    <3>0. RepairsInTurn /\ ReviewsInTurn /\ WorkerInTurn BY <2>6 DEF SettledInvariant, InTurn
    <3>1. Latest(r) /\ r[2] \in pending BY <2>5, <3>0 DEF ReviewsInTurn
    <3>2. RepairsInTurn'
      <4>1. p[2] \in pending /\ Latest(p) BY <1>3, <3>1 DEF Latest
      <4>2. QED BY <1>2, <2>1, <2>4, <3>0, <4>1 DEF RepairsInTurn, Latest
    <3>3. ReviewsInTurn'
      <4>1. ASSUME NEW s \in reviews'
            PROVE  consumer'[<<"repair", s[2], s[3]>>] = consumer[<<"repair", s[2], s[3]>>]
        <5>1. s \in reviews /\ s # r BY <1>2
        <5>2. <<"repair", s[2], s[3]>> # p BY <1>3, <1>4, <5>1
        <5>3. QED BY <1>5, <2>4, <5>1, <5>2
      <4>2. QED BY <1>2, <2>1, <3>0, <4>1 DEF ReviewsInTurn, Latest, PageOf
    <3>4. WorkerInTurn' BY <1>2, <2>3, <3>0 DEF WorkerInTurn, Unended
    <3>5. QED BY <3>2, <3>3, <3>4 DEF InTurn
  <2>7. NoneInterferes' => Owed' BY <1>2, <2>3 DEF SettledInvariant, NoneInterferes
  <2>8. QED BY <1>2, <2>3, <2>6, <2>7 DEF SettledInvariant
<1>8. QED BY <1>1, <1>6, <1>7

\* An owner asks for a repair, which takes no lock; it may interfere if there are progress events.
LEMMA ConfirmSettles ==
    ASSUME TypeInvariant, SettledInvariant, ConfirmRepair
    PROVE  SettledInvariant'
<1>1. /\ confirms' = confirms + 1 /\ confirms \in Nat
      /\ UNCHANGED <<job, var, pages, pending, reviews, finals, writes>>
  BY TypeParts, Bounds DEF ConfirmRepair, rowVars, CountsTyped
<1>2. PICK v \in Variation : \E n \in DOMAIN pages[v] : EnqueueRepair(v, n) BY DEF ConfirmRepair
<1>3. PICK n \in DOMAIN pages[v] : EnqueueRepair(v, n) BY <1>2
<1>4. n \in 1 .. MaxPages
  <2>0. PagesTyped /\ PagesKnown BY TypeParts
  <2>1. n \in 1 .. Len(pages[v]) /\ Len(pages[v]) \in Nat BY <2>0, SequenceDomain
  <2>2. Len(pages[v]) + Cardinality(Storing(v)) <= MaxPages BY <2>0 DEF PagesKnown, PagesBounded
  <2>3. QED BY <2>1, <2>2, StoringFinite, Bounds
<1>5. Queues' /\ Rows' /\ LocksOwned' /\ (Owed => Owed') BY <1>1, <1>3, <1>4, QueuedSettles
<1>6. confirms' # 0 BY <1>1
<1>7. NoneInterferes' => Owed' BY <1>5, <1>6 DEF SettledInvariant, NoneInterferes
<1>8. QED BY <1>1, <1>5, <1>6, <1>7 DEF SettledInvariant

-----------------------------------------------------------------------------
(* Finalization and cancel.                                                *)

\* What touches neither the queue nor the reviews.
LEMMA OthersSettle ==
    ASSUME SettledInvariant, UNCHANGED <<pages, pending, consumer, reviews, writes, confirms>>,
           \A v \in Variation : var[v].artifact # 0 => var'[v].artifact # 0,
           \A v \in Variation : var'[v].status = var[v].status \/ var'[v].status \in Terminal,
           NoneInterferes => Owed'
    PROVE  SettledInvariant'
<1>1. Queues' BY DEF SettledInvariant, Queues, ConsumersTidy, RepairsTidy, RepairsOfPages, NotBegun
<1>2. Rows' BY RowsKept DEF SettledInvariant
<1>3. LocksOwned' BY DEF SettledInvariant, LocksOwned, Latest
<1>4. InTurn => InTurn'
  BY DEF InTurn, RepairsInTurn, ReviewsInTurn, WorkerInTurn, Latest, PageOf, Unended
<1>5. QED BY <1>1, <1>2, <1>3, <1>4 DEF SettledInvariant, NoneInterferes

\* With every variation saved, a finalization completes all that are open, decides with
\* none open, and ends the job; whatever it writes leaves fewer open for another.
LEMMA FinalSettles ==
    ASSUME TypeInvariant, InMemory, SettledInvariant, NEW f \in finals, FinalizeQueuedDesignJob(f)
    PROVE  SettledInvariant'
<1>0. RowsTyped /\ f \in FinalRecord /\ (f.at = "concluding" => f.status \in Terminal)
  BY TypeParts DEF FinalsTyped, Finalization, FinalRecord
<1>1. CASE FinalizeSnapshot(f)
  <2>. DEFINE open == {v \in Variation : var[v].status \notin Terminal /\ var[v].artifact # 0}
  <2>0. PICK g : g = [f EXCEPT !.at = "reconciling", !.snapshot = var, !.todo = open] OBVIOUS
  <2>1. f.at = "snapshot" /\ finals' = (finals \ {f}) \cup {g}
        /\ UNCHANGED <<job, var, pages, pending, consumer, reviews, writes, confirms>>
    BY <1>1, <2>0 DEF FinalizeSnapshot, ReplaceFinal, rowVars
  <2>2. g.at = "reconciling" /\ g.todo = open BY <1>0, <2>0 DEF FinalRecord
  <2>3. ASSUME Owed PROVE Owed'
    <3>1. CASE Unended \/ pending # {} \/ Over BY <2>1, <3>1 DEF Owed, Unended, Over, Open
    <3>2. CASE ~Unended /\ pending = {} /\ Concludes(f)
      <4>1. Open \subseteq open BY <2>1, <3>2 DEF SettledInvariant, Rows, Salvaged, Saved, Open, Unended
      <4>2. Concludes(g)' BY <2>1, <2>2, <4>1 DEF Concludes, Open
      <4>3. QED BY <2>1, <4>2 DEF Owed
    <3>3. CASE \E h \in finals \ {f} : Concludes(h) BY <2>1, <3>3 DEF Owed, Concludes, Open
    <3>4. QED BY <2>3, <3>1, <3>2, <3>3 DEF Owed
  <2>4. QED BY <2>1, <2>3, OthersSettle DEF SettledInvariant
<1>2. CASE Reconcile(f)
  <2>1. PICK v \in f.todo : /\ Apply(f.by, v, "completed", f.snapshot[v].artifact)
                            /\ ReplaceFinal(f, [f EXCEPT !.todo = @ \ {v}])
    BY <1>2 DEF Reconcile
  <2>. DEFINE g == [f EXCEPT !.todo = @ \ {v}]
  <2>2. f.at = "reconciling" /\ finals' = (finals \ {f}) \cup {g}
        /\ UNCHANGED <<job, pages, pending, consumer, reviews, confirms>>
    BY <1>2, <2>1 DEF Reconcile, ReplaceFinal
  <2>3. v \in Variation /\ g.at = "reconciling" /\ g.todo = f.todo \ {v}
    BY <1>0, <2>1, <2>2 DEF FinalRecord
  <2>. HIDE DEF g
  <2>4. /\ writes' = writes /\ var'[v].status = "completed"
        /\ var[v].artifact # 0 => var'[v].artifact # 0
        /\ \A u \in Variation \ {v} : var'[u] = var[u]
    BY <1>0, <2>1, <2>3, ApplyIs
  <2>5. /\ Open' \subseteq Open \ {v}
        /\ \A u \in Variation : var[u].artifact # 0 => var'[u].artifact # 0
        /\ \A u \in Variation : var'[u].status = var[u].status \/ var'[u].status \in Terminal
    BY <2>4 DEF Open, Terminal
  <2>6. ASSUME Owed PROVE Owed'
    <3>1. CASE Unended \/ pending # {} \/ Over BY <2>2, <2>5, <3>1 DEF Owed, Unended, Over
    <3>2. CASE Concludes(f)
      <4>1. Concludes(g)' BY <2>2, <2>3, <2>5, <3>2 DEF Concludes
      <4>2. QED BY <2>2, <4>1 DEF Owed
    <3>3. CASE \E h \in finals \ {f} : Concludes(h) BY <2>2, <2>5, <3>3 DEF Owed, Concludes
    <3>4. QED BY <2>6, <3>1, <3>2, <3>3 DEF Owed
  <2>7. QED BY <2>2, <2>4, <2>5, <2>6, OthersSettle DEF SettledInvariant
<1>3. CASE JudgeJob(f)
  <2>0. PICK g : g = [f EXCEPT !.at = "concluding", !.status = FinalStatus] OBVIOUS
  <2>1. /\ f.at = "reconciling" /\ f.todo = {}
        /\ finals' = IF AllTerminal THEN (finals \ {f}) \cup {g} ELSE finals \ {f}
        /\ UNCHANGED <<job, var, pages, pending, consumer, reviews, writes, confirms>>
    BY <1>3, <2>0 DEF JudgeJob, ReplaceFinal, rowVars
  <2>2. g.at = "concluding" BY <1>0, <2>0 DEF FinalRecord
  <2>3. ASSUME Owed PROVE Owed'
    <3>1. CASE Unended \/ pending # {} \/ Over BY <2>1, <3>1 DEF Owed, Unended, Over, Open
    <3>2. CASE Concludes(f)
      <4>1. Open = {} BY <2>1, <3>2 DEF Concludes
      <4>2. AllTerminal BY <4>1 DEF Open, AllTerminal
      <4>3. Concludes(g)' BY <2>1, <2>2, <4>1 DEF Concludes, Open
      <4>4. QED BY <2>1, <4>2, <4>3 DEF Owed
    <3>3. CASE \E h \in finals \ {f} : Concludes(h) BY <2>1, <3>3 DEF Owed, Concludes, Open
    <3>4. QED BY <2>3, <3>1, <3>2, <3>3 DEF Owed
  <2>4. QED BY <2>1, <2>3, OthersSettle DEF SettledInvariant
<1>4. CASE ConcludeJob(f)
  <2>1. /\ f.at = "concluding" /\ job' = f.status /\ finals' = finals \ {f}
        /\ UNCHANGED <<var, pages, pending, consumer, reviews, writes, confirms>>
    BY <1>4 DEF ConcludeJob
  <2>2. ASSUME Owed PROVE Owed'
    <3>1. job' \in Terminal /\ Open' = Open BY <1>0, <2>1 DEF Open
    <3>2. CASE Unended \/ pending # {} \/ Over BY <2>1, <3>1, <3>2 DEF Owed, Unended, Over
    <3>3. CASE Concludes(f) BY <2>1, <3>1, <3>3 DEF Owed, Over, Concludes
    <3>4. CASE \E h \in finals \ {f} : Concludes(h) BY <2>1, <3>1, <3>4 DEF Owed, Concludes
    <3>5. QED BY <2>2, <3>2, <3>3, <3>4 DEF Owed
  <2>3. QED BY <2>1, <2>2, OthersSettle DEF SettledInvariant
<1>5. QED BY <1>1, <1>2, <1>3, <1>4 DEF FinalizeQueuedDesignJob

LEMMA CancelSettles ==
    ASSUME TypeInvariant, InMemory, SettledInvariant, RequestCancel \/ CancelJobAsAdmin
    PROVE  SettledInvariant'
<1>0. RowsTyped /\ CancelTyped BY TypeParts
<1>1. /\ UNCHANGED <<pages, pending, consumer, reviews, finals, confirms>>
      /\ job' = job \/ job' = "cancelled"
      /\ \/ UNCHANGED <<var, writes>>
         \/ \E v \in cancel.todo : Apply(Canceller, v, "cancelled", 0)
  BY DEF RequestCancel, CancelJobAsAdmin, CancelJob, CancelVariation, EndCancel, rowVars
<1>2. /\ writes' = writes
      /\ \A u \in Variation : var'[u].artifact = var[u].artifact
      /\ \A u \in Variation : var'[u].status = var[u].status \/ var'[u].status \in Terminal
  <2>1. ASSUME NEW v \in cancel.todo, Apply(Canceller, v, "cancelled", 0)
        PROVE  /\ writes' = writes
               /\ \A u \in Variation : var'[u].artifact = var[u].artifact
               /\ \A u \in Variation : var'[u].status = var[u].status \/ var'[u].status \in Terminal
    <3>1. v \in Variation BY <1>0, <2>1 DEF CancelTyped
    <3>2. QED BY <1>0, <2>1, <3>1, ApplyIs DEF Terminal
  <2>2. QED BY <1>1, <2>1
<1>3. Owed => Owed'
  <2>1. Open' \subseteq Open BY <1>2 DEF Open
  <2>2. job' = job \/ job' \in Terminal BY <1>1 DEF Terminal
  <2>3. QED BY <1>1, <2>1, <2>2, OwedKept DEF Unended
<1>4. QED BY <1>1, <1>2, <1>3, OthersSettle DEF SettledInvariant

LEMMA SettledStep ==
    ASSUME InMemory, TypeInvariant, SettledInvariant, [Next /\ ~WorkerDies]_vars
    PROVE  SettledInvariant'
<1>1. CASE CreateDesignJob \/ RunMockJob \/ AbandonJob
  BY <1>1, CreationSettles, SalvageSettles, EndSettles DEF RunMockJob
<1>2. CASE \E p \in Consumer : FollowStream(p)
  <2>1. PICK p \in Consumer : FollowStream(p) BY <1>2
  <2>2. \/ ReceiveProgress(p) \/ ReceiveResult(p) \/ ReceiveBreak(p)
        \/ HandleProgress(p) \/ HandleFailure(p) \/ HandleUpdate(p) \/ ApplyArtifact(p)
        \/ HandlePage(p) \/ MaterializeArtifact(p) \/ MaterializeFails(p)
    BY <2>1 DEF FollowStream, HandleEvent
  <2>3. CASE MaterializeArtifact(p) BY <2>3, PageSettles
  <2>4. CASE p = Worker BY <2>2, <2>3, <2>4, WorkerReceives, WorkerHandles
  <2>5. CASE p \in Repair BY <2>2, <2>3, <2>5, RepairGoesOn, RepairWrites
  <2>6. QED BY <2>4, <2>5 DEF Consumer
<1>3. CASE \E p \in Repair : RunRepair(p) BY <1>3, RepairGoesOn, ReleaseSettles DEF RunRepair
<1>4. CASE \E r \in reviews : Review(r) BY <1>4, ReviewSettles
<1>5. CASE \E f \in finals : FinalizeQueuedDesignJob(f) BY <1>5, FinalSettles
<1>6. CASE CancelJobAsAdmin \/ RequestCancel BY <1>6, CancelSettles
<1>7. ~StoreStep BY DEF SettledInvariant, StoreStep
<1>8. CASE ConfirmRepair BY <1>8, ConfirmSettles
<1>9. CASE UNCHANGED vars
  <2>1. UNCHANGED <<job, var, pages, pending, consumer, reviews, finals, writes, confirms>>
    BY <1>9 DEF vars, rowVars
  <2>2. Owed => Owed' BY <2>1, OwedKept DEF Unended, Open
  <2>3. QED BY <2>1, <2>2, OthersSettle DEF SettledInvariant
<1>10. QED BY <1>1, <1>2, <1>3, <1>4, <1>5, <1>6, <1>7, <1>8, <1>9 DEF Next, Work

LEMMA SettledInit == Init => SettledInvariant
<1>1. SUFFICES ASSUME Init PROVE SettledInvariant OBVIOUS
<1>2. /\ \A p \in Consumer : consumer[p] = Idle
      /\ \A v \in Variation : pages[v] = <<>>
      /\ pending = {} /\ reviews = {} /\ finals = {} /\ writes = {}
  BY <1>1 DEF Init
<1>3. Idle.at = "absent" /\ Idle.results = {} BY DEF Idle
<1>4. Worker \in Consumer /\ Repair \subseteq Consumer BY Tasks
<1>. HIDE DEF Idle
<1>5. Queues
  <2>1. ConsumersTidy BY <1>2, <1>3 DEF ConsumersTidy, Tidy
  <2>2. RepairsTidy BY <1>2, <1>3, <1>4 DEF RepairsTidy, TidyRepair
  <2>3. RepairsOfPages BY <1>2, <1>3, <1>4 DEF RepairsOfPages
  <2>4. NotBegun BY <1>2 DEF NotBegun
  <2>5. QED BY <2>1, <2>2, <2>3, <2>4 DEF Queues
<1>6. Rows BY <1>2, <1>3, <1>4 DEF Rows, PagesShown, Salvaged
<1>7. LocksOwned BY <1>2 DEF LocksOwned
<1>8. InTurn
  BY <1>2, <1>3, <1>4 DEF InTurn, RepairsInTurn, ReviewsInTurn, WorkerInTurn, Holds, Stores
<1>9. Owed BY <1>2, <1>3, <1>4 DEF Owed, Unended
<1>10. QED BY <1>2, <1>5, <1>6, <1>7, <1>8, <1>9 DEF SettledInvariant

\* Nothing under way holds a lock, so none is held, and what is owed has been done.
LEMMA QuietIsSettled == SettledInvariant /\ NoneInterferes => SettledWhenQuiet
<1>1. SUFFICES ASSUME SettledInvariant, NoneInterferes, Quiet PROVE job \in Terminal /\ AllTerminal
  BY DEF SettledWhenQuiet
<1>2. /\ \A p \in Repair : ~Holds(consumer[p])
      /\ reviews = {} /\ finals = {} /\ ~Unended
  BY <1>1 DEF Quiet, Holds, Unended
<1>3. pending = {} BY <1>1, <1>2 DEF SettledInvariant, LocksOwned
<1>4. Over BY <1>1, <1>2, <1>3 DEF SettledInvariant, Owed
<1>5. QED BY <1>4 DEF Over, Open, AllTerminal

\* In memory, with the CLI agent's streams and base pages that can be read, the job and
\* its variations have ended when all tasks have, in whatever order they wrote the rows:
\* while no owner has asked for a repair, or without progress events; the process lives.
THEOREM JobsAreSettled ==
    Store = "memory" /\ Gateway = "cli-agent" /\ ~LostBase =>
        (Spec /\ [][~WorkerDies]_vars => []((MaxEvents = 0 \/ confirms = 0) => SettledWhenQuiet))
<1>1. SUFFICES ASSUME InMemory
               PROVE  Spec /\ [][~WorkerDies]_vars => [](NoneInterferes => SettledWhenQuiet)
  BY DEF InMemory, NoneInterferes
<1>2. TypeInvariant /\ SettledInvariant /\ [Next]_vars /\ [~WorkerDies]_vars => SettledInvariant'
  BY <1>1, SettledStep
<1>3. TypeInvariant /\ [Next]_vars => TypeInvariant' BY StepKeeps
<1>4. SettledInvariant => (NoneInterferes => SettledWhenQuiet) BY QuietIsSettled
<1>5. QED BY <1>2, <1>3, <1>4, TypeInit, SettledInit, PTL DEF Spec
=============================================================================
