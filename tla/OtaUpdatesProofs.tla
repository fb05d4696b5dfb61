-------------------------- MODULE OtaUpdatesProofs --------------------------
(***************************************************************************)
(* Proofs about OtaUpdates, for any catalogue, any versions, any page size *)
(* and any number of changes.                                              *)
(***************************************************************************)
EXTENDS OtaUpdates, FiniteSetTheorems, WellFoundedInduction, TLAPS

-----------------------------------------------------------------------------
(* The inductive invariant *)

\* A check between its statements selected a version above the client's, and a
\* client that waits for an answer has none yet.
AskedOK ==
    client.asked # Null =>
        /\ client.answer = Null
        /\ client.asked.op = "check" =>
               Precedence(client.asked.picked, FALSE) > ClientPrecedence

\* How many releases of the client's channel a listing has before r.
Before(r) == {s \in Eligible(client.channel) : Precedes(s, r)}
Rank(r) == Cardinality(Before(r))
Ranked(k) == {r \in Eligible(client.channel) : Rank(r) < k}

\* An undisturbed listing has seen the releases of the pages before its own, has
\* counted all of them, and ends with all of them.
ListingOK ==
    listing # Null /\ ~listing.changed =>
        /\ listing.page > 0
        /\ listing.seen = Ranked((listing.page - 1) * Limit)
        /\ listing.total # Null => listing.total = Cardinality(Eligible(client.channel))
        /\ ~listing.repeated
        /\ listing.done => listing.seen = Eligible(client.channel)

Inductive == TypeOK /\ OffersNewerUnlessRenumbered /\ AskedOK /\ ListingOK

-----------------------------------------------------------------------------
(* Versions as numbers *)

Parts == [major: 0..MaxPart, minor: 0..MaxPart, patch: 0..MaxPart]
Number(v) == (v.major * (MaxPart + 1) + v.minor) * (MaxPart + 1) + v.patch

\* A larger digit outweighs every digit behind it.
LEMMA Digits ==
    ASSUME NEW a \in Nat, NEW b \in Nat, NEW p \in 0..MaxPart, NEW q \in 0..MaxPart, a > b
    PROVE  a * (MaxPart + 1) + p > b * (MaxPart + 1) + q
<1> PICK c \in Nat : c = MaxPart + 1 /\ p < c /\ q < c
  BY OtaAssumption
<1>1. PICK k \in Nat : a = b + 1 + k
  <2>1. a - b - 1 \in Nat
    OBVIOUS
  <2> QED BY <2>1
<1>2. a * c = b * c + c + k * c
  BY <1>1
<1>3. k * c \in Nat /\ b * c \in Nat /\ p \in Nat /\ q \in Nat
  BY OtaAssumption
<1> QED BY <1>2, <1>3

\* Numbers whose last digit is 0 are compared without it.
LEMMA DigitsFrom ==
    ASSUME NEW a \in Nat, NEW b \in Nat, NEW p \in 0..MaxPart
    PROVE  b * (MaxPart + 1) + 0 <= a * (MaxPart + 1) + p <=> b <= a
<1>1. 0 \in 0..MaxPart /\ p \in Nat
  BY OtaAssumption
<1>2. PICK x \in Nat, y \in Nat : x = a * (MaxPart + 1) /\ y = b * (MaxPart + 1)
  <2> PICK c \in Nat : c = MaxPart + 1
    BY OtaAssumption
  <2>1. a * c \in Nat /\ b * c \in Nat
    OBVIOUS
  <2> QED BY <2>1
<1>3. CASE b > a
  <2>1. b * (MaxPart + 1) + 0 > a * (MaxPart + 1) + p
    BY <1>1, <1>3, Digits
  <2> QED BY <1>1, <1>2, <1>3, <2>1
<1>4. CASE b < a
  <2>1. a * (MaxPart + 1) + p > b * (MaxPart + 1) + 0
    BY <1>1, <1>4, Digits
  <2> QED BY <1>1, <1>2, <1>4, <2>1
<1>5. CASE a = b
  <2>1. x = y
    BY <1>2, <1>5
  <2> QED BY <1>1, <1>2, <1>5, <2>1
<1> QED BY <1>3, <1>4, <1>5

LEMMA NumberType == ASSUME NEW v \in Parts PROVE Number(v) \in Nat
<1>1. v.major \in Nat /\ v.minor \in Nat /\ v.patch \in Nat
  BY OtaAssumption DEF Parts
<1> PICK c \in Nat : c = MaxPart + 1
  BY OtaAssumption
<1>2. PICK m \in Nat : m = v.major * c + v.minor
  <2>1. v.major * c \in Nat
    BY <1>1
  <2> QED BY <1>1, <2>1
<1>3. m * c \in Nat
  OBVIOUS
<1> QED BY <1>1, <1>2, <1>3 DEF Number

\* The clauses of checkForUpdate compare the numbers.
LEMMA AboveNumber ==
    ASSUME NEW v \in Parts, NEW w \in Parts, CoreAbove(v, w)
    PROVE  Number(v) > Number(w)
<1>1. /\ v.major \in 0..MaxPart /\ v.minor \in 0..MaxPart /\ v.patch \in 0..MaxPart
      /\ w.major \in 0..MaxPart /\ w.minor \in 0..MaxPart /\ w.patch \in 0..MaxPart
  BY DEF Parts
<1> DEFINE a == v.major * (MaxPart + 1) + v.minor
           b == w.major * (MaxPart + 1) + w.minor
<1>2. a \in Nat /\ b \in Nat
  <2> PICK c \in Nat : c = MaxPart + 1
    BY OtaAssumption
  <2>1. v.major * c \in Nat /\ w.major * c \in Nat
    BY <1>1, OtaAssumption
  <2> QED BY <1>1, <2>1, OtaAssumption
<1>3. v.major \in Nat /\ w.major \in Nat /\ v.minor \in Nat /\ w.minor \in Nat
        /\ v.patch \in Nat /\ w.patch \in Nat
  BY <1>1, OtaAssumption
<1>4. a > b => Number(v) > Number(w)
  <2> HIDE DEF a, b
  <2>1. a > b => a * (MaxPart + 1) + v.patch > b * (MaxPart + 1) + w.patch
    BY <1>1, <1>2, Digits
  <2> QED BY <2>1 DEF a, b, Number
<1>5. CASE v.major > w.major
  BY <1>1, <1>3, <1>4, <1>5, Digits
<1>6. CASE v.major = w.major /\ v.minor > w.minor
  <2> PICK x \in Nat : x = v.major * (MaxPart + 1)
    <3> PICK c \in Nat : c = MaxPart + 1
      BY OtaAssumption
    <3> QED BY <1>3
  <2>1. a = x + v.minor /\ b = x + w.minor
    BY <1>6
  <2> QED BY <1>3, <1>4, <1>6, <2>1
<1>7. CASE v.major = w.major /\ v.minor = w.minor /\ v.patch > w.patch
  <2>1. a = b
    BY <1>7
  <2> HIDE DEF a, b
  <2> PICK c \in Nat : c = MaxPart + 1
    BY OtaAssumption
  <2>2. a * c \in Nat
    BY <1>2
  <2>3. Number(v) = a * c + v.patch /\ Number(w) = a * c + w.patch
    BY <2>1 DEF Number, a, b
  <2> QED BY <1>3, <1>7, <2>2, <2>3
<1> QED BY <1>5, <1>6, <1>7 DEF CoreAbove

\* Two versions are the same or one is above the other.
LEMMA Comparable ==
    ASSUME NEW v \in Parts, NEW w \in Parts
    PROVE  CoreAbove(v, w) \/ v = w \/ CoreAbove(w, v)
<1>1. /\ v.major \in Nat /\ v.minor \in Nat /\ v.patch \in Nat
      /\ w.major \in Nat /\ w.minor \in Nat /\ w.patch \in Nat
  BY OtaAssumption DEF Parts
<1>2. v.major = w.major /\ v.minor = w.minor /\ v.patch = w.patch => v = w
  BY DEF Parts
<1> QED BY <1>1, <1>2 DEF CoreAbove

\* The version order is the order of the numbers.
LEMMA Order ==
    ASSUME NEW v \in Parts, NEW w \in Parts
    PROVE  /\ CoreAbove(v, w) <=> Number(v) > Number(w)
           /\ v = w <=> Number(v) = Number(w)
<1>1. Number(v) \in Nat /\ Number(w) \in Nat
  BY NumberType
<1>2. CoreAbove(v, w) => Number(v) > Number(w)
  BY AboveNumber
<1>3. CoreAbove(w, v) => Number(w) > Number(v)
  BY AboveNumber
<1>4. v = w => Number(v) = Number(w)
  OBVIOUS
<1> QED BY <1>1, <1>2, <1>3, <1>4, Comparable

\* The precedence orders by number, then a release before its pre-releases.
LEMMA PrecedenceNumber ==
    ASSUME NEW v \in Parts, NEW pre \in BOOLEAN
    PROVE  Precedence(v, pre) = 2 * Number(v) + IF pre THEN 0 ELSE 1
BY DEF Precedence, Number

\* checkForUpdate's clauses select what precedence puts above the installed version.
LEMMA NewerPrecedence ==
    ASSUME NEW v \in Parts, NEW w \in Parts, NEW pre \in BOOLEAN
    PROVE  NewerThan(v, [core |-> w, pre |-> pre])
               <=> Precedence(v, FALSE) > Precedence(w, pre)
<1>1. Number(v) \in Nat /\ Number(w) \in Nat
  BY NumberType
<1>2. NewerThan(v, [core |-> w, pre |-> pre]) <=> CoreAbove(v, w) \/ (pre /\ v = w)
  BY DEF NewerThan
<1>3. /\ CoreAbove(v, w) <=> Number(v) > Number(w)
      /\ v = w <=> Number(v) = Number(w)
  BY Order
<1>4. PICK n \in Nat, m \in Nat : n = Number(v) /\ m = Number(w)
  BY <1>1
<1>5. Precedence(v, FALSE) = 2 * n + 1
  BY <1>4, PrecedenceNumber
<1>6. CASE pre
  <2>1. Precedence(w, pre) = 2 * m + 0
    BY <1>4, <1>6, PrecedenceNumber
  <2>2. 2 * n + 1 > 2 * m + 0 <=> n > m \/ n = m
    OBVIOUS
  <2>3. n > m \/ n = m <=> CoreAbove(v, w) \/ v = w
    BY <1>3, <1>4
  <2> QED BY <1>2, <1>5, <1>6, <2>1, <2>2, <2>3
<1>7. CASE ~pre
  <2>1. Precedence(w, pre) = 2 * m + 1
    BY <1>4, <1>7, PrecedenceNumber
  <2>2. 2 * n + 1 > 2 * m + 1 <=> n > m
    OBVIOUS
  <2>3. n > m <=> CoreAbove(v, w)
    BY <1>3, <1>4
  <2> QED BY <1>2, <1>5, <1>7, <2>1, <2>2, <2>3
<1> QED BY <1>6, <1>7

\* semver.gt agrees with the clauses.
LEMMA GtNewer ==
    ASSUME NEW v \in Parts, NEW w \in Parts, NEW pre \in BOOLEAN
    PROVE  Gt(v, [core |-> w, pre |-> pre]) <=> NewerThan(v, [core |-> w, pre |-> pre])
<1> DEFINE d == {p \in {"major", "minor", "patch"} : v[p] # w[p]}
<1>1. /\ v.major \in Nat /\ v.minor \in Nat /\ v.patch \in Nat
      /\ w.major \in Nat /\ w.minor \in Nat /\ w.patch \in Nat
  BY OtaAssumption DEF Parts
<1>2. v.major = w.major /\ v.minor = w.minor /\ v.patch = w.patch => v = w
  BY DEF Parts
<1>3. /\ "major" \in d <=> v.major # w.major
      /\ "minor" \in d <=> v.minor # w.minor
      /\ "patch" \in d <=> v.patch # w.patch
  OBVIOUS
<1>4. d = {} <=> v = w
  BY <1>2, <1>3
<1> DEFINE first == IF "major" \in d THEN "major" ELSE IF "minor" \in d THEN "minor" ELSE "patch"
<1>5. Gt(v, [core |-> w, pre |-> pre]) <=> IF d = {} THEN pre ELSE v[first] > w[first]
  BY DEF Gt
<1>6. NewerThan(v, [core |-> w, pre |-> pre]) <=> CoreAbove(v, w) \/ (pre /\ v = w)
  BY DEF NewerThan
<1>7. CASE "major" \in d
  <2> HIDE DEF d
  <2>1. first = "major" /\ d # {}
    BY <1>7
  <2> HIDE DEF first
  <2> QED BY <1>1, <1>3, <1>4, <1>5, <1>6, <1>7, <2>1 DEF CoreAbove
<1>8. CASE "major" \notin d /\ "minor" \in d
  <2> HIDE DEF d
  <2>1. first = "minor" /\ d # {}
    BY <1>8
  <2> HIDE DEF first
  <2> QED BY <1>1, <1>3, <1>4, <1>5, <1>6, <1>8, <2>1 DEF CoreAbove
<1>9. CASE "major" \notin d /\ "minor" \notin d /\ "patch" \in d
  <2> HIDE DEF d
  <2>1. first = "patch" /\ d # {}
    BY <1>9
  <2> HIDE DEF first
  <2> QED BY <1>1, <1>3, <1>4, <1>5, <1>6, <1>9, <2>1 DEF CoreAbove
<1>10. CASE d = {}
  <2> HIDE DEF d, first
  <2>1. v = w /\ ~CoreAbove(v, w)
    BY <1>1, <1>4, <1>10 DEF CoreAbove
  <2> QED BY <1>5, <1>6, <1>10, <2>1
<1> QED BY <1>7, <1>8, <1>9, <1>10

-----------------------------------------------------------------------------
(* The CMS version filter *)

\* Each comparison of parseSemverFilter compares precedences.
LEMMA FilterClauses ==
    ASSUME NEW v \in Parts, NEW w \in Parts
    PROVE  LET lt == \/ v.major < w.major
                     \/ v.major = w.major /\ v.minor < w.minor
               gt == \/ v.major > w.major
                     \/ v.major = w.major /\ v.minor > w.minor
               d == Precedence(v, FALSE)
               e == Precedence(w, FALSE)
           IN  /\ gt \/ (SamePair(v, w) /\ v.patch >= w.patch) <=> d >= e
               /\ gt \/ (SamePair(v, w) /\ v.patch > w.patch) <=> d > e
               /\ lt \/ (SamePair(v, w) /\ v.patch <= w.patch) <=> d <= e
               /\ lt \/ (SamePair(v, w) /\ v.patch < w.patch) <=> d < e
               /\ v = w <=> d = e
<1>1. /\ v.major \in Nat /\ v.minor \in Nat /\ v.patch \in Nat
      /\ w.major \in Nat /\ w.minor \in Nat /\ w.patch \in Nat
  BY OtaAssumption DEF Parts
<1>2. Number(v) \in Nat /\ Number(w) \in Nat
  BY NumberType
<1>3. /\ CoreAbove(v, w) <=> Number(v) > Number(w)
      /\ CoreAbove(w, v) <=> Number(w) > Number(v)
      /\ v = w <=> Number(v) = Number(w)
  BY Order
<1>4. PICK d \in Nat, e \in Nat :
          /\ d = Precedence(v, FALSE) /\ d = 2 * Number(v) + 1
          /\ e = Precedence(w, FALSE) /\ e = 2 * Number(w) + 1
  <2>1. Precedence(v, FALSE) = 2 * Number(v) + 1 /\ Precedence(w, FALSE) = 2 * Number(w) + 1
    BY PrecedenceNumber
  <2>2. 2 * Number(v) + 1 \in Nat /\ 2 * Number(w) + 1 \in Nat
    BY <1>2
  <2> QED BY <2>1, <2>2
<1>5. v.major = w.major /\ v.minor = w.minor /\ v.patch = w.patch <=> v = w
  BY DEF Parts
<1>a. PICK n \in Nat, m \in Nat : n = Number(v) /\ m = Number(w)
  BY <1>2
<1>b. (d > e <=> n > m) /\ (d < e <=> m > n) /\ (d = e <=> n = m)
  <2>1. d = 2 * n + 1 /\ e = 2 * m + 1
    BY <1>4, <1>a
  <2> QED BY <2>1
<1>6. /\ CoreAbove(v, w) <=> d > e
      /\ CoreAbove(w, v) <=> d < e
      /\ v = w <=> d = e
  BY <1>3, <1>a, <1>b
<1>7. /\ (CoreAbove(v, w) \/ v = w) <=> d >= e
      /\ (CoreAbove(w, v) \/ v = w) <=> d <= e
  BY <1>6
<1> DEFINE lt == v.major < w.major \/ (v.major = w.major /\ v.minor < w.minor)
           gt == v.major > w.major \/ (v.major = w.major /\ v.minor > w.minor)
<1>8. /\ gt \/ (SamePair(v, w) /\ v.patch >= w.patch) <=> CoreAbove(v, w) \/ v = w
      /\ gt \/ (SamePair(v, w) /\ v.patch > w.patch) <=> CoreAbove(v, w)
      /\ lt \/ (SamePair(v, w) /\ v.patch <= w.patch) <=> CoreAbove(w, v) \/ v = w
      /\ lt \/ (SamePair(v, w) /\ v.patch < w.patch) <=> CoreAbove(w, v)
  BY <1>1, <1>5 DEF SamePair, CoreAbove
<1> QED BY <1>4, <1>6, <1>7, <1>8

\* A release's version has parts within the bound.
LEMMA ReleaseFacts ==
    ASSUME TypeOK, NEW r \in Release, catalogue[r] # Null
    PROVE  /\ catalogue[r] \in Published /\ catalogue[r].version \in Version
           /\ CoreOf(r) \in Core /\ CoreOf(r) \in Parts /\ catalogue[r].channel \in Channel
<1>1. catalogue[r] \in Published
  BY DEF TypeOK
<1>2. catalogue[r].version \in Version /\ catalogue[r].channel \in Channel
  BY <1>1 DEF Published
<1>3. CoreOf(r) \in Core
  BY <1>2 DEF TypeOK, Numberings, CoreOf
<1> QED BY <1>1, <1>2, <1>3, OtaAssumption DEF Parts

\* A filter with its missing parts filled in is a version.
LEMMA PaddedFacts ==
    ASSUME NEW f \in Filter
    PROVE  Padded(f) \in Parts /\ Padded(f).major = f.major
<1>1. 0 \in 0..MaxPart
  BY OtaAssumption
<1>2. f.major \in 0..MaxPart /\ f.minor \in 0..MaxPart \cup {Null}
        /\ f.patch \in 0..MaxPart \cup {Null}
  BY DEF Filter
<1> QED BY <1>1, <1>2 DEF Padded, Parts

\* The versions with a given major number are an interval of precedences, and so are
\* those with a given major and minor number.
LEMMA Wildcards ==
    ASSUME NEW v \in Parts, NEW w \in Parts
    PROVE  LET d == Precedence(v, FALSE)
           IN  /\ v.major = w.major <=>
                     /\ Precedence([major |-> w.major, minor |-> 0, patch |-> 0], FALSE) <= d
                     /\ d < Precedence([major |-> w.major + 1, minor |-> 0, patch |-> 0], FALSE)
               /\ v.major = w.major /\ v.minor = w.minor <=>
                     /\ Precedence([major |-> w.major, minor |-> w.minor, patch |-> 0], FALSE) <= d
                     /\ d < Precedence([major |-> w.major, minor |-> w.minor + 1, patch |-> 0],
                                       FALSE)
<1> DEFINE P(x, y) == Precedence([major |-> x, minor |-> y, patch |-> 0], FALSE)
<1>1. /\ v.major \in Nat /\ v.minor \in 0..MaxPart /\ v.patch \in 0..MaxPart
      /\ w.major \in Nat /\ w.minor \in 0..MaxPart
      /\ v.minor \in Nat /\ w.minor \in Nat
  BY OtaAssumption DEF Parts
<1>2. PICK A \in Nat : A = v.major * (MaxPart + 1) + v.minor
  <2> PICK c \in Nat : c = MaxPart + 1
    BY OtaAssumption
  <2>1. v.major * c \in Nat
    BY <1>1
  <2> QED BY <1>1, <2>1
<1>3. ASSUME NEW x \in Nat, NEW y \in Nat, NEW X \in Nat, X = x * (MaxPart + 1) + y
      PROVE  P(x, y) <= Precedence(v, FALSE) <=> X <= A
  <2>1. P(x, y) = 2 * (X * (MaxPart + 1) + 0) + 1
    BY <1>3 DEF Precedence
  <2>2. Precedence(v, FALSE) = 2 * (A * (MaxPart + 1) + v.patch) + 1
    BY <1>2 DEF Precedence
  <2>3. X * (MaxPart + 1) + 0 <= A * (MaxPart + 1) + v.patch <=> X <= A
    BY <1>1, <1>2, DigitsFrom
  <2>4. PICK i \in Nat, j \in Nat :
            i = X * (MaxPart + 1) + 0 /\ j = A * (MaxPart + 1) + v.patch
    <3> PICK c \in Nat : c = MaxPart + 1
      BY OtaAssumption
    <3>1. X * c \in Nat /\ A * c \in Nat /\ v.patch \in Nat
      BY <1>1, OtaAssumption
    <3> QED BY <3>1
  <2>5. 2 * i + 1 <= 2 * j + 1 <=> i <= j
    OBVIOUS
  <2> HIDE DEF P
  <2> QED BY <2>1, <2>2, <2>3, <2>4, <2>5
<1>4. PICK d \in Nat : d = Precedence(v, FALSE)
  <2>1. PICK k \in Nat : k = Number(v)
    BY NumberType
  <2>2. Precedence(v, FALSE) = 2 * k + 1
    BY <2>1, PrecedenceNumber
  <2>3. 2 * k + 1 \in Nat
    OBVIOUS
  <2> QED BY <2>2, <2>3
<1>5. \A x \in Nat, y \in Nat : P(x, y) \in Nat
  <2> SUFFICES ASSUME NEW x \in Nat, NEW y \in Nat PROVE P(x, y) \in Nat
    OBVIOUS
  <2> PICK c \in Nat : c = MaxPart + 1
    BY OtaAssumption
  <2>1. PICK X \in Nat : X = x * c + y
    <3>1. x * c \in Nat
      OBVIOUS
    <3> QED BY <3>1
  <2>2. X * c \in Nat
    OBVIOUS
  <2>3. P(x, y) = 2 * (X * c + 0) + 1
    BY <2>1 DEF Precedence
  <2> HIDE DEF P
  <2> QED BY <2>2, <2>3
<1> HIDE DEF P
<1>6. \A x \in Nat, y \in Nat : d < P(x, y) <=> ~(P(x, y) <= Precedence(v, FALSE))
  <2> SUFFICES ASSUME NEW x \in Nat, NEW y \in Nat
               PROVE  d < P(x, y) <=> ~(P(x, y) <= Precedence(v, FALSE))
    OBVIOUS
  <2>1. PICK k \in Nat : k = P(x, y)
    BY <1>5
  <2>2. d < k <=> ~(k <= d)
    OBVIOUS
  <2> QED BY <1>4, <2>1, <2>2, Zenon
<1>7. v.major = w.major <=> P(w.major, 0) <= d /\ d < P(w.major + 1, 0)
  <2>1. PICK X \in Nat, Y \in Nat :
            X = w.major * (MaxPart + 1) + 0 /\ Y = (w.major + 1) * (MaxPart + 1) + 0
    <3> PICK c \in Nat : c = MaxPart + 1
      BY OtaAssumption
    <3>1. w.major * c \in Nat /\ (w.major + 1) * c \in Nat
      BY <1>1
    <3> QED BY <3>1
  <2>2. X <= A <=> w.major <= v.major
    BY <1>1, <1>2, <2>1, DigitsFrom
  <2>3. Y <= A <=> w.major + 1 <= v.major
    <3>1. w.major + 1 \in Nat
      BY <1>1
    <3> QED BY <1>1, <1>2, <2>1, <3>1, DigitsFrom
  <2>4. P(w.major, 0) <= Precedence(v, FALSE) <=> X <= A
    BY <1>1, <1>3, <2>1
  <2>5. P(w.major + 1, 0) <= Precedence(v, FALSE) <=> Y <= A
    <3>1. w.major + 1 \in Nat
      BY <1>1
    <3> QED BY <1>3, <2>1, <3>1
  <2>6. d < P(w.major + 1, 0) <=> ~(Y <= A)
    <3>1. w.major + 1 \in Nat
      BY <1>1
    <3> QED BY <1>6, <2>5, <3>1
  <2>7. v.major = w.major <=> w.major <= v.major /\ ~(w.major + 1 <= v.major)
    BY <1>1
  <2> QED BY <1>4, <2>2, <2>3, <2>4, <2>6, <2>7
<1>8. v.major = w.major /\ v.minor = w.minor <=>
          P(w.major, w.minor) <= d /\ d < P(w.major, w.minor + 1)
  <2>1. PICK X \in Nat : X = w.major * (MaxPart + 1) + w.minor
    <3> PICK c \in Nat : c = MaxPart + 1
      BY OtaAssumption
    <3>1. w.major * c \in Nat
      BY <1>1
    <3> QED BY <1>1, <3>1
  <2>2. X + 1 = w.major * (MaxPart + 1) + (w.minor + 1)
    <3> PICK e \in Nat : e = w.major * (MaxPart + 1)
      <4> PICK c \in Nat : c = MaxPart + 1
        BY OtaAssumption
      <4> QED BY <1>1
    <3> QED BY <1>1, <2>1
  <2>3. P(w.major, w.minor) <= Precedence(v, FALSE) <=> X <= A
    BY <1>1, <1>3, <2>1
  <2>4. P(w.major, w.minor + 1) <= Precedence(v, FALSE) <=> X + 1 <= A
    <3>1. w.minor + 1 \in Nat /\ X + 1 \in Nat
      BY <1>1
    <3> QED BY <1>1, <1>3, <2>2, <3>1
  <2>5. d < P(w.major, w.minor + 1) <=> ~(X + 1 <= A)
    <3>1. w.minor + 1 \in Nat
      BY <1>1
    <3> QED BY <1>1, <1>6, <2>4, <3>1
  <2>6. A = X <=> v.major = w.major /\ v.minor = w.minor
    <3>1. v.major > w.major => A > X
      BY <1>1, <1>2, <2>1, Digits
    <3>2. w.major > v.major => X > A
      BY <1>1, <1>2, <2>1, Digits
    <3>3. v.major = w.major => (A = X <=> v.minor = w.minor)
      <4> SUFFICES ASSUME v.major = w.major PROVE A = X <=> v.minor = w.minor
        OBVIOUS
      <4> PICK e \in Nat : e = w.major * (MaxPart + 1)
        <5> PICK c \in Nat : c = MaxPart + 1
          BY OtaAssumption
        <5> QED BY <1>1
      <4> QED BY <1>1, <1>2, <2>1
    <3> QED BY <1>1, <3>1, <3>2, <3>3
  <2>7. A = X <=> X <= A /\ ~(X + 1 <= A)
    OBVIOUS
  <2> QED BY <1>4, <2>3, <2>5, <2>6, <2>7
<1> QED BY <1>4, <1>7, <1>8 DEF P

LEMMA FiltersTyped == TypeOK => FiltersByPrecedence
<1> SUFFICES ASSUME TypeOK, NEW f \in ValidFilters, NEW r \in Release, catalogue[r] # Null
             PROVE  LET d == Precedence(CoreOf(r), FALSE)
                        w == Padded(f)
                        e == Precedence(w, FALSE)
                        from == Precedence([w EXCEPT !.patch = 0], FALSE)
                        upto == IF f.minor = Null
                                THEN Precedence([major |-> w.major + 1, minor |-> 0,
                                                 patch |-> 0], FALSE)
                                ELSE Precedence([major |-> w.major, minor |-> w.minor + 1,
                                                 patch |-> 0], FALSE)
                    IN  parseSemverFilter(f, CoreOf(r)) <=>
                            CASE f.wildcard = "*" -> from <= d /\ d < upto
                              [] f.op = "<"       -> d < e
                              [] f.op = "<="      -> d <= e
                              [] f.op = ">"       -> d > e
                              [] f.op = ">="      -> d >= e
                              [] OTHER            -> d = e
  BY DEF FiltersByPrecedence
<1>1. f \in Filter /\ (f.wildcard = "*" => f.op = "==")
  BY DEF ValidFilters
<1>2. PICK v \in Parts, w \in Parts : v = CoreOf(r) /\ w = Padded(f)
  BY <1>1, ReleaseFacts, PaddedFacts
<1>3. f.op \in {"<", "<=", ">", ">=", "=="}
  BY <1>1 DEF Filter
<1> DEFINE lt == v.major < w.major \/ (v.major = w.major /\ v.minor < w.minor)
           gt == v.major > w.major \/ (v.major = w.major /\ v.minor > w.minor)
           d == Precedence(v, FALSE)
           e == Precedence(w, FALSE)
           from == Precedence([w EXCEPT !.patch = 0], FALSE)
           upto == IF f.minor = Null
                   THEN Precedence([major |-> w.major + 1, minor |-> 0, patch |-> 0], FALSE)
                   ELSE Precedence([major |-> w.major, minor |-> w.minor + 1, patch |-> 0],
                                   FALSE)
           selected == parseSemverFilter(f, v)
<1>4. /\ gt \/ (SamePair(v, w) /\ v.patch >= w.patch) <=> d >= e
      /\ gt \/ (SamePair(v, w) /\ v.patch > w.patch) <=> d > e
      /\ lt \/ (SamePair(v, w) /\ v.patch <= w.patch) <=> d <= e
      /\ lt \/ (SamePair(v, w) /\ v.patch < w.patch) <=> d < e
      /\ v = w <=> d = e
  BY FilterClauses
<1>5. /\ f.wildcard = "*" =>
            (selected <=> v.major = f.major /\ (f.minor # Null => v.minor = f.minor))
      /\ f.wildcard # "*" =>
            /\ f.op = ">=" => (selected <=> gt \/ (SamePair(v, w) /\ v.patch >= w.patch))
            /\ f.op = ">"  => (selected <=> gt \/ (SamePair(v, w) /\ v.patch > w.patch))
            /\ f.op = "<=" => (selected <=> lt \/ (SamePair(v, w) /\ v.patch <= w.patch))
            /\ f.op = "<"  => (selected <=> lt \/ (SamePair(v, w) /\ v.patch < w.patch))
            /\ f.op = "==" => (selected <=> v = w)
  BY <1>2 DEF parseSemverFilter
<1>6. f.wildcard = "*" => (selected <=> from <= d /\ d < upto)
  <2> SUFFICES ASSUME f.wildcard = "*" PROVE selected <=> from <= d /\ d < upto
    OBVIOUS
  <2>1. w.major = f.major /\ w.minor = (IF f.minor = Null THEN 0 ELSE f.minor)
    BY <1>2 DEF Padded
  <2>2. [w EXCEPT !.patch = 0] = [major |-> w.major, minor |-> w.minor, patch |-> 0]
    BY <1>2 DEF Padded
  <2>3. /\ v.major = w.major <=>
              /\ Precedence([major |-> w.major, minor |-> 0, patch |-> 0], FALSE) <= d
              /\ d < Precedence([major |-> w.major + 1, minor |-> 0, patch |-> 0], FALSE)
        /\ v.major = w.major /\ v.minor = w.minor <=>
              /\ Precedence([major |-> w.major, minor |-> w.minor, patch |-> 0], FALSE) <= d
              /\ d < Precedence([major |-> w.major, minor |-> w.minor + 1, patch |-> 0], FALSE)
    BY Wildcards
  <2> HIDE DEF selected, d
  <2>4. CASE f.minor = Null
    <3>1. w.minor = 0 /\ (selected <=> v.major = w.major)
      BY <1>5, <2>1, <2>4
    <3> QED BY <2>2, <2>3, <2>4, <3>1
  <2>5. CASE f.minor # Null
    <3>1. selected <=> v.major = w.major /\ v.minor = w.minor
      BY <1>5, <2>1, <2>5
    <3> QED BY <2>2, <2>3, <2>5, <3>1
  <2> QED BY <2>4, <2>5
<1> DEFINE reference == CASE f.wildcard = "*" -> from <= d /\ d < upto
                          [] f.op = "<"       -> d < e
                          [] f.op = "<="      -> d <= e
                          [] f.op = ">"       -> d > e
                          [] f.op = ">="      -> d >= e
                          [] OTHER            -> d = e
<1> HIDE DEF d, e, lt, gt, selected, from, upto
<1>7. selected <=> reference
  <2>1. CASE f.wildcard = "*"
    BY <1>1, <1>6, <2>1
  <2>2. CASE f.wildcard # "*"
    <3>1. CASE f.op = "<"
      BY <1>4, <1>5, <2>2, <3>1
    <3>2. CASE f.op = "<="
      BY <1>4, <1>5, <2>2, <3>2
    <3>3. CASE f.op = ">"
      BY <1>4, <1>5, <2>2, <3>3
    <3>4. CASE f.op = ">="
      BY <1>4, <1>5, <2>2, <3>4
    <3>5. CASE f.op = "=="
      BY <1>4, <1>5, <2>2, <3>5
    <3> QED BY <1>3, <3>1, <3>2, <3>3, <3>4, <3>5
  <2> QED BY <2>1, <2>2
<1> QED BY <1>2, <1>7 DEF selected, d, e, from, upto

-----------------------------------------------------------------------------
(* The newest releases *)

\* A set of natural numbers has a least element.
LEMMA Least ==
    ASSUME NEW S \in SUBSET Nat, S # {} PROVE \E x \in S : \A y \in S : x <= y
<1>1. IsWellFoundedOn(OpToRel(<, Nat), Nat)
  BY NatLessThanWellFounded
<1>2. PICK x \in S : \A y \in S : ~ (<<y, x>> \in OpToRel(<, Nat))
  BY <1>1, WFMin
<1>3. \A y \in S : ~(y < x)
  BY <1>2 DEF OpToRel
<1> QED BY <1>3

\* Versions are bounded, so a set of releases that is not empty has newest ones.
LEMMA NewestExists ==
    ASSUME TypeOK, NEW rs \in SUBSET Release, \A r \in rs : catalogue[r] # Null, rs # {}
    PROVE  Newest(rs) # {}
<1> DEFINE n(r) == Number(CoreOf(r))
           top == Number([major |-> MaxPart, minor |-> MaxPart, patch |-> MaxPart])
<1>1. \A r \in rs : CoreOf(r) \in Parts
  BY ReleaseFacts
<1>2. \A r \in rs : n(r) \in Nat
  BY <1>1, NumberType
<1> DEFINE w == [major |-> MaxPart, minor |-> MaxPart, patch |-> MaxPart]
<1>3. w \in Parts /\ \A v \in Parts : ~CoreAbove(v, w)
  <2>1. MaxPart \in 0..MaxPart
    BY OtaAssumption
  <2>2. w \in Parts /\ w.major = MaxPart /\ w.minor = MaxPart /\ w.patch = MaxPart
    BY <2>1 DEF Parts
  <2>3. \A v \in Parts : /\ v.major \in 0..MaxPart /\ v.minor \in 0..MaxPart
                         /\ v.patch \in 0..MaxPart
    BY DEF Parts
  <2> HIDE DEF w
  <2> QED BY <2>2, <2>3, OtaAssumption DEF CoreAbove
<1>4. top \in Nat /\ \A r \in rs : n(r) <= top
  <2> HIDE DEF w
  <2>1. \A v \in Parts : Number(v) <= Number(w)
    BY <1>3, Order, NumberType
  <2>2. Number(w) \in Nat
    BY <1>3, NumberType
  <2> QED BY <1>1, <2>1, <2>2 DEF w
<1> HIDE DEF top
<1> DEFINE S == {top - n(r) : r \in rs}
<1>5. \A r \in rs : top - n(r) \in Nat
  <2> HIDE DEF n
  <2> QED BY <1>2, <1>4
<1>6. PICK x \in S : \A y \in S : x <= y
  <2>1. S \in SUBSET Nat /\ S # {}
    <3> HIDE DEF n
    <3> QED BY <1>5
  <2> HIDE DEF S
  <2> QED BY <2>1, Least
<1>7. PICK r \in rs : x = top - n(r)
  OBVIOUS
<1>8. \A s \in rs : n(s) <= n(r)
  <2> HIDE DEF n
  <2>1. \A s \in rs : top - n(r) <= top - n(s)
    BY <1>6, <1>7
  <2> QED BY <1>2, <1>4, <2>1
<1>9. \A s \in rs : ~CoreAbove(CoreOf(s), CoreOf(r))
  <2> SUFFICES ASSUME NEW s \in rs PROVE ~CoreAbove(CoreOf(s), CoreOf(r))
    OBVIOUS
  <2>1. n(s) <= n(r) /\ n(s) \in Nat /\ n(r) \in Nat
    BY <1>2, <1>8
  <2> QED BY <1>1, <2>1, Order
<1> QED BY <1>9 DEF Newest

\* The client runs a version with parts within the bound.
LEMMA ClientFacts ==
    ASSUME TypeOK
    PROVE  /\ client.version.core \in Core /\ client.version.core \in Parts
           /\ client.version.pre \in BOOLEAN /\ client.channel \in Channel
           /\ client.version = [core |-> client.version.core, pre |-> client.version.pre]
<1>1. client.version \in Installed /\ client.channel \in Channel
  BY DEF TypeOK, Client
<1> QED BY <1>1, OtaAssumption DEF Installed, Parts

\* The candidates are what precedence puts above the client's version.
LEMMA CandidatesAbove ==
    ASSUME TypeOK
    PROVE  /\ Candidates = {r \in Eligible(client.channel) :
                               Precedence(CoreOf(r), FALSE) > ClientPrecedence}
           /\ \A r \in Eligible(client.channel) :
                  Gt(CoreOf(r), client.version) <=> r \in Candidates
<1>1. PICK w \in Parts, pre \in BOOLEAN :
          /\ w = client.version.core /\ pre = client.version.pre
          /\ client.version = [core |-> w, pre |-> pre]
  BY ClientFacts
<1>2. ClientPrecedence = Precedence(w, pre)
  BY <1>1 DEF ClientPrecedence
<1>3. ASSUME NEW r \in Eligible(client.channel)
      PROVE  /\ NewerThan(CoreOf(r), client.version)
                    <=> Precedence(CoreOf(r), FALSE) > ClientPrecedence
             /\ Gt(CoreOf(r), client.version)
                    <=> NewerThan(CoreOf(r), client.version)
  <2>1. PICK v \in Parts : v = CoreOf(r)
    BY ReleaseFacts DEF Eligible
  <2>2. NewerThan(v, [core |-> w, pre |-> pre]) <=> Precedence(v, FALSE) > Precedence(w, pre)
    BY NewerPrecedence
  <2>3. Gt(v, [core |-> w, pre |-> pre]) <=> NewerThan(v, [core |-> w, pre |-> pre])
    BY GtNewer
  <2> QED BY <1>1, <1>2, <2>1, <2>2, <2>3
<1> QED BY <1>3 DEF Candidates

\* The newest releases of a set have the same version, the highest.
LEMMA NewestFacts ==
    ASSUME TypeOK, NEW rs \in SUBSET Release, \A r \in rs : catalogue[r] # Null,
           NEW r \in Newest(rs), NEW s \in rs
    PROVE  /\ r \in rs /\ Number(CoreOf(s)) <= Number(CoreOf(r))
           /\ Precedence(CoreOf(s), FALSE) <= Precedence(CoreOf(r), FALSE)
           /\ s \in Newest(rs) => CoreOf(s) = CoreOf(r)
<1>1. r \in rs /\ ~CoreAbove(CoreOf(s), CoreOf(r))
  BY DEF Newest
<1>2. PICK v \in Parts, w \in Parts : v = CoreOf(r) /\ w = CoreOf(s)
  BY <1>1, ReleaseFacts
<1>3. PICK n \in Nat, m \in Nat : n = Number(v) /\ m = Number(w)
  BY NumberType
<1>4. m <= n
  BY <1>1, <1>2, <1>3, Order
<1>5. Precedence(v, FALSE) = 2 * n + 1 /\ Precedence(w, FALSE) = 2 * m + 1
  BY <1>3, PrecedenceNumber
<1>6. 2 * m + 1 <= 2 * n + 1
  BY <1>4
<1>7. s \in Newest(rs) => v = w
  <2>1. s \in Newest(rs) => ~CoreAbove(v, w)
    BY <1>1, <1>2 DEF Newest
  <2> QED BY <1>1, <1>2, <2>1, Comparable
<1> QED BY <1>1, <1>2, <1>3, <1>4, <1>5, <1>6, <1>7

\* The first release of a listing is a newest one.
LEMMA FirstPage ==
    ASSUME TypeOK, NEW r \in Newest(Eligible(client.channel))
    PROVE  \E s \in PageOf(client.channel, 1) : CoreOf(s) = CoreOf(r)
<1> DEFINE rs == Eligible(client.channel)
<1>1. rs \in SUBSET Release /\ \A s \in rs : catalogue[s] # Null
  BY DEF Eligible
<1>2. Newest(rs) \subseteq rs /\ Newest(rs) # {}
  BY DEF Newest
<1>3. PICK s \in Newest(rs) : \A t \in Newest(rs) : s <= t
  <2>1. Newest(rs) \in SUBSET Nat
    BY <1>1, <1>2, OtaAssumption
  <2> QED BY <1>2, <2>1, Least
<1>4. {t \in rs : Precedes(t, s)} = {}
  <2> SUFFICES ASSUME NEW t \in rs, Precedes(t, s) PROVE FALSE
    OBVIOUS
  <2>1. ~CoreAbove(CoreOf(t), CoreOf(s))
    BY <1>3 DEF Newest
  <2>2. CoreOf(t) = CoreOf(s) /\ t < s
    BY <2>1 DEF Precedes
  <2>3. t \in Newest(rs)
    BY <1>3, <2>2 DEF Newest
  <2>4. s <= t /\ s \in Nat /\ t \in Nat
    <3> HIDE DEF rs
    <3> QED BY <1>1, <1>2, <1>3, <2>3, OtaAssumption
  <2> QED BY <2>2, <2>4
<1>5. Cardinality({t \in rs : Precedes(t, s)}) = 0
  BY <1>4, FS_EmptySet
<1>6. s \in PageOf(client.channel, 1)
  <2>1. (1 - 1) * Limit <= 0 /\ 0 < 1 * Limit
    BY OtaAssumption
  <2> QED BY <1>2, <1>3, <1>5, <2>1 DEF PageOf
<1>7. CoreOf(s) = CoreOf(r)
  BY <1>1, <1>2, <1>3, NewestFacts
<1> QED BY <1>6, <1>7

LEMMA OffersTyped == TypeOK => OffersNewest
<1> SUFFICES ASSUME TypeOK PROVE OffersNewest
  OBVIOUS
<1> DEFINE rs == Eligible(client.channel)
           above == {r \in rs : Precedence(CoreOf(r), FALSE) > ClientPrecedence}
<1>1. rs \in SUBSET Release /\ \A s \in rs : catalogue[s] # Null
  BY DEF Eligible
<1>2. Candidates = above /\ \A r \in rs : Gt(CoreOf(r), client.version) <=> r \in above
  BY CandidatesAbove
<1>3. above \in SUBSET Release /\ \A s \in above : catalogue[s] # Null
  BY <1>1
<1>4. Newest(above) = {} <=> above = {}
  <2>1. above # {} => Newest(above) # {}
    <3> HIDE DEF above
    <3> QED BY <1>3, NewestExists
  <2>2. Newest(above) \subseteq above
    BY DEF Newest
  <2> QED BY <2>1, <2>2
<1>5. ASSUME NEW r \in Newest(above)
      PROVE  /\ r \in above
             /\ \A s \in above : Precedence(CoreOf(s), FALSE)
                                   <= Precedence(CoreOf(r), FALSE)
  <2>1. r \in above
    BY DEF Newest
  <2>2. ASSUME NEW s \in above
        PROVE  Precedence(CoreOf(s), FALSE) <= Precedence(CoreOf(r), FALSE)
    <3> HIDE DEF above
    <3> QED BY <1>3, NewestFacts
  <2> QED BY <2>1, <2>2
<1>6. ASSUME NEW r \in Newest(rs)
      PROVE  /\ Gt(CoreOf(r), client.version) <=> above # {}
             /\ \A s \in Newest(above) : CoreOf(s) = CoreOf(r)
             /\ \E s \in PageOf(client.channel, 1) : CoreOf(s) = CoreOf(r)
  <2>0. r \in rs
    BY DEF Newest
  <2>1. ASSUME NEW s \in above PROVE r \in above
    <3>1. PICK v \in Parts, w \in Parts, x \in Parts, pre \in BOOLEAN :
              /\ v = CoreOf(r) /\ w = CoreOf(s)
              /\ ClientPrecedence = Precedence(x, pre)
      <4>1. CoreOf(r) \in Parts /\ CoreOf(s) \in Parts
        BY <1>1, <2>0, ReleaseFacts
      <4>2. client.version.core \in Parts /\ client.version.pre \in BOOLEAN
        BY ClientFacts
      <4> QED BY <4>1, <4>2 DEF ClientPrecedence
    <3>2. PICK n \in Nat, m \in Nat, k \in Nat : n = Number(v) /\ m = Number(w) /\ k = Number(x)
      BY NumberType
    <3>3. m <= n
      BY <1>1, <3>1, <3>2, NewestFacts
    <3>4. PICK c \in Nat : ClientPrecedence = c
      <4>1. Precedence(x, pre) = 2 * k + IF pre THEN 0 ELSE 1
        BY <3>2, PrecedenceNumber
      <4>2. 2 * k + 0 \in Nat /\ 2 * k + 1 \in Nat
        OBVIOUS
      <4>3. CASE pre
        BY <3>1, <4>1, <4>2, <4>3
      <4>4. CASE ~pre
        BY <3>1, <4>1, <4>2, <4>4
      <4> QED BY <4>3, <4>4
    <3>5. Precedence(v, FALSE) = 2 * n + 1 /\ Precedence(w, FALSE) = 2 * m + 1
      BY <3>2, PrecedenceNumber
    <3>6. 2 * m + 1 > c
      BY <3>1, <3>4, <3>5
    <3>7. 2 * n + 1 > c
      BY <3>3, <3>6
    <3> QED BY <2>0, <3>1, <3>4, <3>5, <3>7
  <2>2. Gt(CoreOf(r), client.version) <=> above # {}
    <3> HIDE DEF above
    <3> QED BY <1>2, <2>0, <2>1
  <2>3. ASSUME NEW s \in Newest(above) PROVE CoreOf(s) = CoreOf(r)
    <3>1. s \in above /\ s \in rs /\ r \in above
      BY <2>1 DEF Newest
    <3>2. ~CoreAbove(CoreOf(s), CoreOf(r))
      BY <3>1 DEF Newest
    <3>3. ~CoreAbove(CoreOf(r), CoreOf(s))
      <4> HIDE DEF above
      <4> QED BY <3>1 DEF Newest
    <3>4. CoreOf(r) \in Parts /\ CoreOf(s) \in Parts
      BY <1>1, <3>1, <2>0, ReleaseFacts
    <3> QED BY <3>2, <3>3, <3>4, Comparable
  <2> QED BY <2>2, <2>3, FirstPage
<1> HIDE DEF above
<1>7. OffersNewest <=>
          /\ Newest(Candidates) = {} <=> above = {}
          /\ \A r \in Newest(Candidates) :
                 /\ r \in above
                 /\ \A s \in above : Precedence(CoreOf(s), FALSE)
                                       <= Precedence(CoreOf(r), FALSE)
          /\ \A r \in Newest(rs) :
                 /\ Gt(CoreOf(r), client.version) <=> above # {}
                 /\ \A s \in Newest(Candidates) : CoreOf(s) = CoreOf(r)
                 /\ \E s \in PageOf(client.channel, 1) : CoreOf(s) = CoreOf(r)
  BY DEF OffersNewest, above
<1> QED BY <1>2, <1>4, <1>5, <1>6, <1>7

-----------------------------------------------------------------------------
(* Pages *)

LEMMA EligibleFinite ==
    ASSUME NEW c
    PROVE  /\ Eligible(c) \subseteq Release /\ IsFiniteSet(Eligible(c))
           /\ Cardinality(Eligible(c)) \in Nat
<1>1. Eligible(c) \in SUBSET Release
  BY DEF Eligible
<1>2. IsFiniteSet(Eligible(c))
  BY <1>1, FS_Subset, OtaAssumption
<1> QED BY <1>1, <1>2, FS_CardinalityType

\* A listing orders the releases of a channel strictly and totally.
LEMMA PrecedesOrder ==
    ASSUME TypeOK, NEW r \in Eligible(client.channel), NEW s \in Eligible(client.channel),
           NEW t \in Eligible(client.channel)
    PROVE  /\ ~Precedes(r, r)
           /\ Precedes(r, s) \/ r = s \/ Precedes(s, r)
           /\ Precedes(r, s) /\ Precedes(s, t) => Precedes(r, t)
<1>1. PICK u \in Parts, v \in Parts, w \in Parts :
          u = CoreOf(r) /\ v = CoreOf(s) /\ w = CoreOf(t)
  BY ReleaseFacts DEF Eligible
<1>2. r \in Nat /\ s \in Nat /\ t \in Nat
  BY EligibleFinite, OtaAssumption
<1>3. PICK i \in Nat, j \in Nat, k \in Nat : i = Number(u) /\ j = Number(v) /\ k = Number(w)
  BY NumberType
<1>4. /\ CoreAbove(u, v) <=> i > j
      /\ CoreAbove(v, u) <=> j > i
      /\ CoreAbove(v, w) <=> j > k
      /\ CoreAbove(u, w) <=> i > k
      /\ CoreAbove(u, u) <=> i > i
      /\ u = v <=> i = j
      /\ v = w <=> j = k
      /\ u = w <=> i = k
  BY <1>3, Order
<1>5. /\ Precedes(r, s) <=> i > j \/ (i = j /\ r < s)
      /\ Precedes(s, r) <=> j > i \/ (i = j /\ s < r)
      /\ Precedes(s, t) <=> j > k \/ (j = k /\ s < t)
      /\ Precedes(r, t) <=> i > k \/ (i = k /\ r < t)
      /\ Precedes(r, r) <=> i > i \/ r < r
  BY <1>1, <1>4 DEF Precedes
<1> QED BY <1>2, <1>5

\* A release has fewer releases before it than its channel has.
LEMMA RankBound ==
    ASSUME TypeOK, NEW r \in Eligible(client.channel)
    PROVE  Rank(r) \in Nat /\ Rank(r) < Cardinality(Eligible(client.channel))
<1> DEFINE E == Eligible(client.channel)
<1>1. IsFiniteSet(E) /\ Cardinality(E) \in Nat
  BY EligibleFinite
<1>2. Before(r) \in SUBSET E /\ r \notin Before(r)
  BY PrecedesOrder DEF Before
<1> HIDE DEF E
<1>3. IsFiniteSet(Before(r)) /\ Rank(r) <= Cardinality(E) /\ Rank(r) \in Nat
        /\ (Cardinality(E) = Rank(r) => E = Before(r))
  BY <1>1, <1>2, FS_Subset, FS_CardinalityType DEF Rank
<1>4. Rank(r) # Cardinality(E)
  BY <1>2, <1>3 DEF E
<1> QED BY <1>1, <1>3, <1>4 DEF E

\* The rank of a release grows along the listing.
LEMMA RankGrows ==
    ASSUME TypeOK, NEW r \in Eligible(client.channel), NEW s \in Eligible(client.channel),
           Precedes(r, s)
    PROVE  Rank(r) < Rank(s)
<1>1. Before(r) \in SUBSET Before(s)
  BY PrecedesOrder DEF Before
<1>2. r \in Before(s) /\ r \notin Before(r)
  BY PrecedesOrder DEF Before
<1>3. Before(s) \in SUBSET Eligible(client.channel)
  BY DEF Before
<1>4. IsFiniteSet(Before(s))
  BY <1>3, EligibleFinite, FS_Subset
<1>5. Rank(r) <= Rank(s) /\ (Rank(s) = Rank(r) => Before(s) = Before(r))
  BY <1>1, <1>4, FS_Subset DEF Rank
<1>6. Rank(r) \in Nat /\ Rank(s) \in Nat
  BY RankBound
<1> QED BY <1>2, <1>5, <1>6

\* Every position below the number of releases is the rank of one.
LEMMA RankReached ==
    ASSUME TypeOK, NEW k \in Nat, k < Cardinality(Eligible(client.channel))
    PROVE  \E r \in Eligible(client.channel) : Rank(r) = k
<1> DEFINE E == Eligible(client.channel)
           f == [r \in E |-> Rank(r)]
<1>1. PICK n \in Nat : n = Cardinality(E)
  BY EligibleFinite
<1> DEFINE T == 0..(n - 1)
<1>2. \A r \in E : Rank(r) \in T
  BY <1>1, RankBound
<1>3. \A r \in E, s \in E : Rank(r) = Rank(s) => r = s
  <2> SUFFICES ASSUME NEW r \in E, NEW s \in E, Rank(r) = Rank(s) PROVE r = s
    OBVIOUS
  <2>1. Rank(r) \in Nat /\ Rank(s) \in Nat
    BY RankBound
  <2>2. ~Precedes(r, s) /\ ~Precedes(s, r)
    BY <2>1, RankGrows
  <2> QED BY <2>2, PrecedesOrder
<1> HIDE DEF E
<1>4. f \in Injection(E, T)
  BY <1>2, <1>3 DEF Injection, IsInjective
<1>5. n > 0 /\ k \in T
  BY <1>1 DEF E
<1>6. IsFiniteSet(T) /\ Cardinality(T) = n
  <2>1. 0 \in Int /\ n - 1 \in Int
    OBVIOUS
  <2>2. IsFiniteSet(0..(n-1)) /\ Cardinality(0..(n-1)) = IF 0 > n - 1 THEN 0 ELSE (n-1)-0+1
    BY <2>1, FS_Interval
  <2> QED BY <1>5, <2>2
<1> HIDE DEF T
<1>7. f \in Surjection(E, T)
  <2> HIDE DEF f
  <2> QED BY <1>1, <1>4, <1>6, FS_Injection
<1>8. PICK r \in E : f[r] = k
  BY <1>5, <1>7 DEF Surjection
<1> QED BY <1>8 DEF E

\* A page has the releases of Limit consecutive ranks.
LEMMA PageRanks ==
    ASSUME TypeOK, NEW page \in Nat \ {0}
    PROVE  LET rows == PageOf(client.channel, page)
               seen == Ranked((page - 1) * Limit)
           IN  /\ rows \subseteq Release
               /\ rows \cap seen = {}
               /\ seen \cup rows = Ranked(page * Limit)
               /\ rows = {} => seen = Eligible(client.channel)
               /\ page * Limit >= Cardinality(Eligible(client.channel))
                      => Ranked(page * Limit) = Eligible(client.channel)
<1> DEFINE E == Eligible(client.channel)
<1>1. PICK a \in Nat, b \in Nat : a = (page - 1) * Limit /\ b = page * Limit /\ a < b
  <2>1. page - 1 \in Nat /\ Limit \in Nat /\ Limit > 0
    BY OtaAssumption
  <2>2. (page - 1) * Limit \in Nat /\ page * Limit = (page - 1) * Limit + Limit
    BY <2>1
  <2> QED BY <2>1, <2>2
<1>2. PageOf(client.channel, page) = {r \in E : a <= Rank(r) /\ Rank(r) < b}
  BY <1>1 DEF PageOf, Rank, Before
<1>3. PICK n \in Nat : n = Cardinality(E)
  BY EligibleFinite
<1>4. \A r \in E : Rank(r) \in Nat /\ Rank(r) < n
  BY <1>3, RankBound
<1>5. \A k : Ranked(k) = {r \in E : Rank(r) < k}
  BY DEF Ranked
<1>6. PageOf(client.channel, page) = {} => n <= a
  <2> SUFFICES ASSUME ~(n <= a) PROVE PageOf(client.channel, page) # {}
    OBVIOUS
  <2>1. PICK r \in E : Rank(r) = a
    BY <1>3, RankReached
  <2> HIDE DEF E
  <2> QED BY <1>1, <1>2, <2>1
<1>7. E \subseteq Release
  BY EligibleFinite
<1> HIDE DEF E
<1>8. n <= a => Ranked(a) = E
  BY <1>4, <1>5
<1>9. b >= n => Ranked(b) = E
  BY <1>4, <1>5
<1>10. Ranked(a) \cup PageOf(client.channel, page) = Ranked(b)
  BY <1>1, <1>2, <1>4, <1>5
<1>11. PageOf(client.channel, page) \cap Ranked(a) = {}
  BY <1>2, <1>4, <1>5
<1>12. PageOf(client.channel, page) \subseteq Release
  BY <1>2, <1>7
<1> QED BY <1>1, <1>3, <1>6, <1>8, <1>9, <1>10, <1>11, <1>12 DEF E

-----------------------------------------------------------------------------
(* The invariant holds initially and every step keeps it *)

LEMMA InitInductive == Init => Inductive
<1> SUFFICES ASSUME Init PROVE Inductive
  OBVIOUS
<1>1. client \in Client /\ client.asked = Null /\ client.answer = Null
  BY DEF Init, Client
<1>2. TypeOK
  BY <1>1, OtaAssumption DEF Init, TypeOK
<1>3. OffersNewerUnlessRenumbered /\ AskedOK /\ ListingOK
  BY <1>1 DEF Init, OffersNewerUnlessRenumbered, AskedOK, ListingOK
<1> QED BY <1>2, <1>3 DEF Inductive

\* A change of the catalogue marks a listing that is being read.
LEMMA ChangedFacts ==
    ASSUME TypeOK, Changed
    PROVE  /\ changes' \in 0..MaxChanges
           /\ listing' \in Listing \cup {Null}
           /\ ListingOK'
<1>1. changes' \in 0..MaxChanges
  BY OtaAssumption DEF TypeOK, Changed
<1>2. CASE listing = Null
  BY <1>1, <1>2 DEF Changed, ListingOK
<1>3. CASE listing # Null
  <2>1. listing \in Listing /\ listing' = [listing EXCEPT !.changed = TRUE]
    BY <1>3 DEF TypeOK, Changed
  <2>2. listing' \in Listing /\ listing'.changed
    BY <2>1 DEF Listing
  <2> QED BY <1>1, <2>2 DEF ListingOK
<1> QED BY <1>2, <1>3

\* The request and the answer are about the client's own state.
LEMMA ClientKept ==
    ASSUME UNCHANGED client
    PROVE  /\ ClientPrecedence' = ClientPrecedence
           /\ OffersNewerUnlessRenumbered => OffersNewerUnlessRenumbered'
           /\ AskedOK => AskedOK'
BY DEF ClientPrecedence, Precedence, OffersNewerUnlessRenumbered, AskedOK

\* The tables change; the client does not.
LEMMA ChangeStep ==
    ASSUME Inductive, Changed, UNCHANGED client, number' \in Numberings,
           catalogue' \in [Release -> Published \cup {Null}]
    PROVE  Inductive'
<1>1. TypeOK'
  BY ChangedFacts DEF Inductive, TypeOK
<1> QED BY <1>1, ChangedFacts, ClientKept DEF Inductive

LEMMA PublishStep ==
    ASSUME Inductive, NEW r \in Release, NEW v \in Version, NEW c \in Channel,
           Publish(r, v, c)
    PROVE  Inductive'
<1>1. catalogue' = [catalogue EXCEPT ![r] = [version |-> v, channel |-> c]]
  BY DEF Publish
<1>2. [version |-> v, channel |-> c] \in Published
  BY DEF Published
<1>3. catalogue' \in [Release -> Published \cup {Null}]
  BY <1>1, <1>2 DEF Inductive, TypeOK
<1>4. number' \in Numberings
  BY DEF Publish, Inductive, TypeOK
<1> QED BY <1>3, <1>4, ChangeStep DEF Publish

LEMMA WithdrawStep ==
    ASSUME Inductive, NEW r \in Release, Withdraw(r) PROVE Inductive'
<1>1. catalogue' \in [Release -> Published \cup {Null}] /\ number' \in Numberings
  BY DEF Inductive, TypeOK, Withdraw
<1> QED BY <1>1, ChangeStep DEF Withdraw

\* A number that no version has keeps the numbers apart.
LEMMA RenumberStep ==
    ASSUME Inductive, NEW v \in Version, NEW new \in Core, Renumber(v, new)
    PROVE  Inductive'
<1>1. number \in [Version -> Core] /\ \A x, y \in Version : number[x] = number[y] => x = y
  BY DEF Inductive, TypeOK, Numberings
<1>2. number' = [number EXCEPT ![v] = new] /\ \A w \in Version : number[w] # new
  BY DEF Renumber
<1>3. number' \in [Version -> Core] /\ \A x, y \in Version : number'[x] = number'[y] => x = y
  BY <1>1, <1>2
<1>4. number' \in Numberings
  BY <1>3 DEF Numberings
<1>5. catalogue' \in [Release -> Published \cup {Null}]
  BY DEF Inductive, TypeOK, Renumber
<1> QED BY <1>4, <1>5, ChangeStep DEF Renumber

\* Neither the tables nor the listing nor the client's channel changes.
LEMMA ListingKept ==
    ASSUME ListingOK, UNCHANGED <<number, catalogue, listing>>, client'.channel = client.channel
    PROVE  ListingOK'
<1>1. Eligible(client.channel)' = Eligible(client.channel)
  BY DEF Eligible
<1>2. \A k : Ranked(k)' = Ranked(k)
  BY DEF Ranked, Rank, Before, Eligible, Precedes, CoreOf
<1>3. CASE listing # Null /\ ~listing.changed
  BY <1>1, <1>2, <1>3 DEF ListingOK
<1>4. CASE ~(listing # Null /\ ~listing.changed)
  BY <1>4 DEF ListingOK
<1> QED BY <1>3, <1>4

\* The client's own steps: it keeps its channel, and what it is told fits what it runs.
LEMMA ClientStep ==
    ASSUME Inductive, UNCHANGED <<number, catalogue, listing, changes>>,
           client' \in Client, client'.channel = client.channel,
           OffersNewerUnlessRenumbered', AskedOK'
    PROVE  Inductive'
<1>1. TypeOK'
  BY DEF Inductive, TypeOK
<1> QED BY <1>1, ListingKept DEF Inductive

\* The first statement of a request: a check selects above the client's version.
LEMMA SelectStep ==
    ASSUME Inductive, NEW op \in {"check", "latest"}, NEW r \in Eligible(client.channel),
           op = "check" => r \in Candidates, Select(op, r)
    PROVE  Inductive'
<1>1. r \in Release /\ catalogue[r].version \in Version /\ CoreOf(r) \in Core
  BY ReleaseFacts DEF Eligible, Inductive
<1>2. PICK c \in Core, v \in Version : c = CoreOf(r) /\ v = catalogue[r].version
  BY <1>1
<1> DEFINE a == [op |-> op, release |-> r, version |-> v, picked |-> c]
<1>3. a \in Asked /\ a.op = op /\ a.picked = c
  BY <1>1 DEF Asked
<1>4. client' = [client EXCEPT !.asked = a] /\ client.answer = Null
  BY <1>2 DEF Select, Polling
<1> HIDE DEF a
<1>5. client \in Client
  BY DEF Inductive, TypeOK
<1>6. client' \in Client
  BY <1>3, <1>4, <1>5 DEF Client
<1>7. /\ client'.version = client.version /\ client'.channel = client.channel
      /\ client'.asked = a /\ client'.answer = Null
  BY <1>4, <1>5 DEF Client
<1>8. ClientPrecedence' = ClientPrecedence
  BY <1>7 DEF ClientPrecedence, Precedence
<1>9. op = "check" => Precedence(c, FALSE) > ClientPrecedence
  BY <1>2, CandidatesAbove DEF Inductive
<1>10. Precedence(client.asked.picked, FALSE)' = Precedence(c, FALSE)
  BY <1>3, <1>7 DEF Precedence
<1>11. AskedOK' /\ OffersNewerUnlessRenumbered'
  BY <1>3, <1>7, <1>8, <1>9, <1>10 DEF AskedOK, OffersNewerUnlessRenumbered
<1> QED BY <1>6, <1>7, <1>11, ClientStep DEF Select

LEMMA CheckSelectStep == ASSUME Inductive, CheckSelect PROVE Inductive'
<1>1. PICK r \in Newest(Candidates) : Select("check", r)
  BY DEF CheckSelect
<1>2. r \in Candidates /\ r \in Eligible(client.channel)
  BY DEF Newest, Candidates
<1> QED BY <1>1, <1>2, SelectStep

LEMMA LatestSelectStep == ASSUME Inductive, LatestSelect PROVE Inductive'
<1>1. PICK r \in Newest(Eligible(client.channel)) : Select("latest", r)
  BY DEF LatestSelect
<1>2. r \in Eligible(client.channel)
  BY DEF Newest
<1> QED BY <1>1, <1>2, SelectStep

\* A request between its statements names a release and a version.
LEMMA AskedFacts ==
    ASSUME TypeOK, client.asked # Null
    PROVE  /\ client.asked.op \in {"check", "latest"} /\ client.asked.release \in Release
           /\ client.asked.version \in Version /\ client.asked.picked \in Core
           /\ number[client.asked.version] \in Core
<1>1. client.asked \in Asked
  BY DEF TypeOK, Client
<1>2. /\ client.asked.op \in {"check", "latest"} /\ client.asked.release \in Release
      /\ client.asked.version \in Version /\ client.asked.picked \in Core
  BY <1>1 DEF Asked
<1> QED BY <1>2 DEF TypeOK, Numberings

\* An offer: latest has compared it, and a check whose version kept its number
\* offers what it selected.
LEMMA OfferStep ==
    ASSUME Inductive, client.asked # Null, Offer,
           client.asked.op = "latest" => Gt(number[client.asked.version], client.version)
    PROVE  Inductive'
<1>1. PICK op \in {"check", "latest"}, r \in Release, n \in Core, p \in Core :
          /\ op = client.asked.op /\ r = client.asked.release
          /\ n = number[client.asked.version] /\ p = client.asked.picked
  BY AskedFacts DEF Inductive
<1> DEFINE a == [op |-> op, release |-> r, core |-> n, picked |-> p]
<1>2. a \in Answer /\ a.op = op /\ a.core = n /\ a.picked = p
  BY DEF Answer
<1>3. client' = [client EXCEPT !.asked = Null, !.answer = a]
  BY <1>1 DEF Offer
<1> HIDE DEF a
<1>4. client \in Client
  BY DEF Inductive, TypeOK
<1>5. client' \in Client
  BY <1>2, <1>3, <1>4 DEF Client
<1>6. /\ client'.version = client.version /\ client'.channel = client.channel
      /\ client'.asked = Null /\ client'.answer = a
  BY <1>3, <1>4 DEF Client
<1>7. ClientPrecedence' = ClientPrecedence
  BY <1>6 DEF ClientPrecedence, Precedence
<1>8. op = "check" => Precedence(p, FALSE) > ClientPrecedence
  BY <1>1 DEF Inductive, AskedOK
<1>9. op = "latest" => Precedence(n, FALSE) > ClientPrecedence
  <2> SUFFICES ASSUME op = "latest" PROVE Precedence(n, FALSE) > ClientPrecedence
    OBVIOUS
  <2>1. PICK w \in Parts, pre \in BOOLEAN :
            /\ w = client.version.core /\ pre = client.version.pre
            /\ client.version = [core |-> w, pre |-> pre]
    BY ClientFacts DEF Inductive
  <2>2. n \in Parts
    BY OtaAssumption DEF Parts
  <2>3. Gt(n, [core |-> w, pre |-> pre])
    BY <1>1, <2>1
  <2>4. Precedence(n, FALSE) > Precedence(w, pre)
    BY <2>2, <2>3, GtNewer, NewerPrecedence
  <2> QED BY <2>1, <2>4 DEF ClientPrecedence
<1>10. Precedence(client.answer.core, FALSE)' = Precedence(n, FALSE)
  BY <1>2, <1>6 DEF Precedence
<1>11. OffersNewerUnlessRenumbered'
  <2>1. ~(Precedence(n, FALSE) > ClientPrecedence) => op = "check" /\ n # p
    BY <1>8, <1>9
  <2> QED BY <1>2, <1>6, <1>7, <1>10, <2>1 DEF OffersNewerUnlessRenumbered
<1>12. AskedOK'
  BY <1>6 DEF AskedOK
<1> QED BY <1>5, <1>6, <1>11, <1>12, ClientStep DEF Offer

\* The request ends without an offer.
LEMMA NoOfferStep == ASSUME Inductive, client.asked # Null, NoOffer PROVE Inductive'
<1>1. client \in Client /\ client.answer = Null
  BY DEF Inductive, TypeOK, AskedOK
<1>2. client' = [client EXCEPT !.asked = Null]
  BY DEF NoOffer
<1>3. client' \in Client
  BY <1>1, <1>2 DEF Client
<1>4. client'.channel = client.channel /\ client'.asked = Null /\ client'.answer = Null
  BY <1>1, <1>2 DEF Client
<1>5. AskedOK' /\ OffersNewerUnlessRenumbered'
  BY <1>4 DEF AskedOK, OffersNewerUnlessRenumbered
<1> QED BY <1>3, <1>4, <1>5, ClientStep DEF NoOffer

LEMMA LatestAnswerStep == ASSUME Inductive, LatestAnswer PROVE Inductive'
<1>1. client.asked # Null
  BY DEF LatestAnswer, Asking
<1>2. CASE Gt(number[client.asked.version], client.version)
  BY <1>1, <1>2, OfferStep DEF LatestAnswer
<1>3. CASE ~Gt(number[client.asked.version], client.version)
  BY <1>1, <1>3, NoOfferStep DEF LatestAnswer
<1> QED BY <1>2, <1>3

LEMMA CheckAnswerStep == ASSUME Inductive, CheckAnswer PROVE Inductive'
<1>1. client.asked # Null /\ client.asked.op = "check" /\ Offer
  BY DEF CheckAnswer, Asking
<1> QED BY <1>1, OfferStep

\* The client drops its answer, whatever version it then runs.
LEMMA AnswerGone ==
    ASSUME Inductive, UNCHANGED <<number, catalogue, listing, changes>>, NEW v \in Installed,
           client.answer # Null, client' = [client EXCEPT !.version = v, !.answer = Null]
    PROVE  Inductive'
<1>1. client \in Client /\ client.asked = Null
  BY DEF Inductive, TypeOK, AskedOK
<1>2. client' \in Client
  BY <1>1 DEF Client
<1>3. client'.channel = client.channel /\ client'.answer = Null /\ client'.asked = Null
  BY <1>1 DEF Client
<1>4. AskedOK' /\ OffersNewerUnlessRenumbered'
  BY <1>3 DEF AskedOK, OffersNewerUnlessRenumbered
<1> QED BY <1>2, <1>3, <1>4, ClientStep

LEMMA DownloadStep == ASSUME Inductive, Download PROVE Inductive'
<1>1. client.answer \in Answer
  BY DEF Inductive, TypeOK, Client, Download
<1>2. client.answer.core \in Core
  BY <1>1 DEF Answer
<1>3. [core |-> client.answer.core, pre |-> FALSE] \in Installed
  BY <1>2 DEF Installed
<1> QED BY <1>3, AnswerGone DEF Download

LEMMA RefusedStep == ASSUME Inductive, Refused PROVE Inductive'
<1>1. client \in Client
  BY DEF Inductive, TypeOK
<1>2. client.version \in Installed
  BY <1>1 DEF Client
<1>3. client' = [client EXCEPT !.version = client.version, !.answer = Null]
  BY <1>1 DEF Refused, Client
<1> QED BY <1>2, <1>3, AnswerGone DEF Refused

LEMMA SwitchChannelStep ==
    ASSUME Inductive, NEW c \in Channel, SwitchChannel(c) PROVE Inductive'
<1>1. client \in Client
  BY DEF Inductive, TypeOK
<1>2. /\ client' = [client EXCEPT !.channel = c] /\ listing' = Null
      /\ client.asked = Null /\ client.answer = Null
  BY DEF SwitchChannel, Polling
<1>3. client' \in Client
  BY <1>1, <1>2 DEF Client
<1>4. client'.answer = Null /\ client'.asked = Null
  BY <1>1, <1>2 DEF Client
<1>5. changes' \in 0..MaxChanges
  BY OtaAssumption DEF SwitchChannel, Inductive, TypeOK
<1>6. TypeOK'
  BY <1>2, <1>3, <1>5 DEF Inductive, TypeOK, SwitchChannel
<1>7. OffersNewerUnlessRenumbered' /\ AskedOK' /\ ListingOK'
  BY <1>2, <1>4 DEF OffersNewerUnlessRenumbered, AskedOK, ListingOK
<1> QED BY <1>6, <1>7 DEF Inductive

-----------------------------------------------------------------------------
(* The steps of a listing *)

\* A listing step leaves the order of the releases alone.
LEMMA RanksKept ==
    ASSUME UNCHANGED <<number, catalogue, client>>
    PROVE  /\ Eligible(client.channel)' = Eligible(client.channel)
           /\ \A k : Ranked(k)' = Ranked(k)
<1>1. Eligible(client.channel)' = Eligible(client.channel)
  BY DEF Eligible
<1>2. \A k : Ranked(k)' = Ranked(k)
  BY DEF Ranked, Rank, Before, Eligible, Precedes, CoreOf
<1> QED BY <1>1, <1>2

\* Nothing has a negative rank, so the first page begins with nothing seen.
LEMMA NoneBeforeFirst == ASSUME TypeOK PROVE Ranked(0) = {}
<1>1. \A r \in Eligible(client.channel) : Rank(r) \in Nat
  BY RankBound
<1> QED BY <1>1 DEF Ranked

LEMMA ListStartStep == ASSUME Inductive, ListStart PROVE Inductive'
<1> DEFINE l == [page |-> 1, total |-> Null, seen |-> {}, repeated |-> FALSE,
                 changed |-> FALSE, done |-> FALSE]
<1>1. l \in Listing /\ l.page = 1 /\ l.total = Null /\ l.seen = {} /\ ~l.repeated /\ ~l.done
  BY DEF Listing
<1>2. listing' = l /\ UNCHANGED <<number, catalogue, client, changes>>
  BY DEF ListStart
<1> HIDE DEF l
<1>3. TypeOK'
  BY <1>1, <1>2 DEF Inductive, TypeOK
<1>4. (1 - 1) * Limit = 0
  BY OtaAssumption
<1>5. Ranked(0)' = {}
  BY <1>2, NoneBeforeFirst, RanksKept DEF Inductive
<1>6. ListingOK'
  BY <1>1, <1>2, <1>4, <1>5 DEF ListingOK
<1> QED BY <1>2, <1>3, <1>6, ClientKept DEF Inductive

LEMMA ListCountStep == ASSUME Inductive, ListCount PROVE Inductive'
<1>1. listing \in Listing
  BY DEF Inductive, TypeOK, ListCount
<1>2. PICK n \in Nat : n = Cardinality(Eligible(client.channel))
  BY EligibleFinite
<1>3. listing' = [listing EXCEPT !.total = n] /\ UNCHANGED <<number, catalogue, client, changes>>
  BY <1>2 DEF ListCount
<1>4. /\ listing' \in Listing /\ listing'.page = listing.page /\ listing'.total = n
      /\ listing'.seen = listing.seen /\ listing'.repeated = listing.repeated
      /\ listing'.changed = listing.changed /\ listing'.done = listing.done
  BY <1>1, <1>3 DEF Listing
<1>5. TypeOK'
  BY <1>3, <1>4 DEF Inductive, TypeOK
<1>6. ListingOK'
  <2> SUFFICES ASSUME ~listing.changed PROVE ListingOK'
    BY <1>4 DEF ListingOK
  <2>1. /\ listing.page > 0 /\ listing.seen = Ranked((listing.page - 1) * Limit)
        /\ ~listing.repeated /\ (listing.done => listing.seen = Eligible(client.channel))
    BY DEF Inductive, ListingOK, ListCount
  <2>2. Ranked((listing.page - 1) * Limit)' = Ranked((listing.page - 1) * Limit)
    BY <1>3, <1>4, RanksKept DEF Ranked, Rank, Before, Eligible, Precedes, CoreOf
  <2> QED BY <1>2, <1>3, <1>4, <2>1, <2>2, RanksKept DEF ListingOK
<1> QED BY <1>3, <1>5, <1>6, ClientKept DEF Inductive

LEMMA ListRowsStep == ASSUME Inductive, ListRows PROVE Inductive'
<1>1. listing \in Listing
  BY DEF Inductive, TypeOK, ListRows
<1>2. PICK rows : rows = PageOf(client.channel, listing.page)
  OBVIOUS
<1>3. /\ listing' = [listing EXCEPT !.page = @ + 1, !.total = Null, !.seen = @ \cup rows,
                        !.repeated = @ \/ rows \cap listing.seen # {},
                        !.done = rows = {} \/ IsLastPage(listing.page, listing.total)]
      /\ UNCHANGED <<number, catalogue, client, changes>>
      /\ listing # Null /\ ~listing.done /\ listing.total # Null
  BY <1>2 DEF ListRows
<1>4. PICK p \in Nat : p = listing.page
  BY <1>1 DEF Listing
<1>5. /\ listing'.page = p + 1 /\ listing'.total = Null
      /\ listing'.seen = listing.seen \cup rows
      /\ listing'.repeated = (listing.repeated \/ rows \cap listing.seen # {})
      /\ listing'.changed = listing.changed
      /\ listing'.done = (rows = {} \/ IsLastPage(p, listing.total))
  BY <1>1, <1>3, <1>4 DEF Listing
<1>6. rows \subseteq Release
  BY <1>2, EligibleFinite DEF PageOf
<1>7. listing' \in Listing
  <2>1. p + 1 \in Nat /\ listing.seen \cup rows \subseteq Release
    BY <1>1, <1>6 DEF Listing
  <2> QED BY <1>1, <1>3, <1>4, <2>1 DEF Listing
<1>8. TypeOK'
  BY <1>3, <1>7 DEF Inductive, TypeOK
<1>9. ListingOK'
  <2> SUFFICES ASSUME ~listing.changed PROVE ListingOK'
    BY <1>5 DEF ListingOK
  <2>1. /\ p > 0 /\ listing.seen = Ranked((p - 1) * Limit)
        /\ listing.total = Cardinality(Eligible(client.channel))
        /\ ~listing.repeated
    BY <1>3, <1>4 DEF Inductive, ListingOK
  <2>2. p \in Nat \ {0}
    BY <2>1
  <2>3. /\ rows \cap listing.seen = {}
        /\ listing.seen \cup rows = Ranked(p * Limit)
        /\ rows = {} => listing.seen = Eligible(client.channel)
        /\ p * Limit >= listing.total => Ranked(p * Limit) = Eligible(client.channel)
    BY <1>2, <1>4, <2>1, <2>2, PageRanks DEF Inductive
  <2>4. listing'.seen = Ranked(p * Limit) /\ ~listing'.repeated
    BY <1>5, <2>1, <2>3
  <2>5. listing'.done => listing'.seen = Eligible(client.channel)
    <3>1. CASE rows = {}
      BY <1>5, <2>3, <3>1
    <3>2. CASE IsLastPage(p, listing.total)
      BY <2>3, <2>4, <3>2 DEF IsLastPage
    <3> QED BY <1>5, <3>1, <3>2
  <2>6. (listing.page - 1)' = p /\ listing'.page > 0
    BY <1>5
  <2>7. PICK k : k = p * Limit
    OBVIOUS
  <2>8. ((listing.page - 1) * Limit)' = k
    BY <2>6, <2>7
  <2>9. Ranked((listing.page - 1) * Limit)' = Ranked(k)'
    BY <2>8 DEF Ranked, Rank
  <2>10. Ranked(k)' = Ranked(k)
    BY <1>3, RanksKept
  <2> QED BY <1>3, <1>5, <2>4, <2>5, <2>6, <2>7, <2>9, <2>10, RanksKept DEF ListingOK
<1> QED BY <1>3, <1>8, <1>9, ClientKept DEF Inductive

LEMMA ListEndStep == ASSUME Inductive, ListEnd PROVE Inductive'
<1>1. listing' = Null /\ UNCHANGED <<number, catalogue, client, changes>>
  BY DEF ListEnd
<1>2. TypeOK' /\ ListingOK'
  BY <1>1 DEF Inductive, TypeOK, ListingOK
<1> QED BY <1>1, <1>2, ClientKept DEF Inductive

-----------------------------------------------------------------------------
(* Theorems *)

LEMMA NextInductive == Inductive /\ [Next]_vars => Inductive'
<1> SUFFICES ASSUME Inductive, [Next]_vars PROVE Inductive'
  OBVIOUS
<1>1. ASSUME NEW r \in Release, NEW v \in Version, NEW c \in Channel, Publish(r, v, c)
      PROVE  Inductive'
  BY <1>1, PublishStep
<1>2. ASSUME NEW r \in Release, Withdraw(r) PROVE Inductive'
  BY <1>2, WithdrawStep
<1>3. ASSUME NEW v \in Version, NEW new \in Core, Renumber(v, new) PROVE Inductive'
  BY <1>3, RenumberStep
<1>4. CASE CheckSelect
  BY <1>4, CheckSelectStep
<1>5. CASE LatestSelect
  BY <1>5, LatestSelectStep
<1>6. CASE CheckAnswer
  BY <1>6, CheckAnswerStep
<1>7. CASE LatestAnswer
  BY <1>7, LatestAnswerStep
<1>8. CASE AnswerFails
  BY <1>8, NoOfferStep DEF AnswerFails
<1>9. CASE Download
  BY <1>9, DownloadStep
<1>10. CASE DownloadMissing \/ DownloadUnavailable
  BY <1>10, RefusedStep DEF DownloadMissing, DownloadUnavailable
<1>11. ASSUME NEW c \in Channel, SwitchChannel(c) PROVE Inductive'
  BY <1>11, SwitchChannelStep
<1>12. CASE ListStart
  BY <1>12, ListStartStep
<1>13. CASE ListCount
  BY <1>13, ListCountStep
<1>14. CASE ListRows
  BY <1>14, ListRowsStep
<1>15. CASE ListEnd
  BY <1>15, ListEndStep
<1>16. CASE UNCHANGED vars
  <2>1. UNCHANGED <<number, catalogue, client, listing, changes>>
    BY <1>16 DEF vars
  <2>2. TypeOK'
    BY <2>1 DEF Inductive, TypeOK
  <2>3. ListingOK'
    BY <2>1, ListingKept DEF Inductive
  <2> QED BY <2>1, <2>2, <2>3, ClientKept DEF Inductive
<1> QED
  BY <1>1, <1>2, <1>3, <1>4, <1>5, <1>6, <1>7, <1>8, <1>9, <1>10, <1>11, <1>12, <1>13, <1>14,
     <1>15, <1>16 DEF Next

\* The invariant the other theorems rest on.
THEOREM InductiveCorrect == Spec => []Inductive
BY InitInductive, NextInductive, PTL DEF Spec

\* The tables, the client, its listing and the counter keep their types.
THEOREM TypeCorrect == Spec => []TypeOK
<1>1. Inductive => TypeOK
  BY DEF Inductive
<1> QED BY <1>1, InductiveCorrect, PTL

\* checkForUpdate, getLatest and the first page of getReleases agree on the newest
\* release by semantic-version precedence, whatever is in the catalogue.
THEOREM OffersCorrect == Spec => []OffersNewest
BY TypeCorrect, OffersTyped, PTL

\* parseSemverFilter selects an interval of precedences, for every filter it accepts,
\* those with an asterisk included.
THEOREM FiltersCorrect == Spec => []FiltersByPrecedence
BY TypeCorrect, FiltersTyped, PTL

\* Reading page after page while nothing changes shows every release once, for every
\* page size and every number of releases.
THEOREM ListingCorrect == Spec => []ListingComplete
<1>1. Inductive => ListingComplete
  BY DEF Inductive, ListingOK, ListingComplete
<1> QED BY <1>1, InductiveCorrect, PTL

\* latest never offers a version that is not above the client's; check does so only
\* when the version it selected is renumbered before preload reads it.
THEOREM OffersNewerCorrect == Spec => []OffersNewerUnlessRenumbered
<1>1. Inductive => OffersNewerUnlessRenumbered
  BY DEF Inductive
<1> QED BY <1>1, InductiveCorrect, PTL
=============================================================================
