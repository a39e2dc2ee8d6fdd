---------------------------- MODULE RolloutProofs ----------------------------
(***************************************************************************)
(* For any users, targets, retired and other servers, lists and number of  *)
(* events: the variables of the script keep their type; the backup covers  *)
(* every list changed; no list names a server without a row, unless the    *)
(* panel edited servers; a rollback that is reported has restored lists;   *)
(* and success means that clients are as they should be.  Then, for any    *)
(* listing, plan and limits: the scans of edge addresses lose nothing.     *)
(***************************************************************************)
EXTENDS MCCdn, FiniteSetTheorems, TLAPS

-----------------------------------------------------------------------------
(* Sequences *)

\* A set of numbers has a least one: induction, for a set.
LEMMA LeastNumber ==
    ASSUME NEW T, T \subseteq Nat, T # {}
    PROVE  \E x \in T : \A y \in T : x <= y
<1>1. IsWellFoundedOn(OpToRel(<, Nat), Nat)
  BY NatLessThanWellFounded
<1>2. PICK x \in T : \A y \in T : ~ (<<y, x>> \in OpToRel(<, Nat))
  BY <1>1, WFMin
<1>3. ASSUME NEW y \in T, y < x PROVE FALSE
  <2>1. <<y, x>> \in OpToRel(<, Nat)
    BY <1>3 DEF OpToRel
  <2> QED BY <1>2, <2>1
<1>4. \A y \in T : x <= y
  <2>1. \A y \in Nat : ~(y < x) => x <= y
    OBVIOUS
  <2> QED BY <1>3, <2>1
<1> QED BY <1>4

\* Induction over numbers, for a set of them.
LEMMA Numbers ==
    ASSUME NEW T, 0 \in T, \A n \in Nat : n \in T => n + 1 \in T
    PROVE  Nat \subseteq T
<1> SUFFICES ASSUME Nat \ T # {} PROVE FALSE
  OBVIOUS
<1>1. PICK x \in Nat \ T : \A y \in Nat \ T : x <= y
  <2>1. Nat \ T \subseteq Nat
    OBVIOUS
  <2>2. \E x \in Nat \ T : \A y \in Nat \ T : x <= y
    BY <2>1, LeastNumber
  <2> QED BY <2>2
<1>2. x # 0
  OBVIOUS
<1>3. x - 1 \in Nat /\ x - 1 < x /\ (x - 1) + 1 = x
  BY <1>2
<1>4. x - 1 \in T
  BY <1>1, <1>3
<1> QED BY <1>3, <1>4

\* What is in a sequence is its head, or in its tail.
LEMMA HeadTail ==
    ASSUME NEW S, NEW s \in Seq(S), s # <<>>
    PROVE  /\ Head(s) \in S /\ Tail(s) \in Seq(S) /\ Head(s) \in ToSet(s)
           /\ ToSet(s) \subseteq ToSet(Tail(s)) \cup {Head(s)}
           /\ ToSet(Tail(s)) \subseteq ToSet(s)
<1>1. Len(s) \in Nat /\ Len(s) > 0 /\ DOMAIN s = 1 .. Len(s) /\ Len(Tail(s)) = Len(s) - 1
  OBVIOUS
<1>2. Head(s) \in S /\ Tail(s) \in Seq(S) /\ Head(s) = s[1]
  OBVIOUS
<1>3. ASSUME NEW i \in DOMAIN s, i # 1
      PROVE  i - 1 \in DOMAIN Tail(s) /\ Tail(s)[i - 1] = s[i]
  BY <1>1, <1>3
<1>4. ASSUME NEW i \in DOMAIN Tail(s)
      PROVE  i + 1 \in DOMAIN s /\ Tail(s)[i] = s[i + 1]
  BY <1>1, <1>2, <1>4
<1>5. ToSet(s) \subseteq ToSet(Tail(s)) \cup {Head(s)}
  <2>1. ASSUME NEW i \in DOMAIN s
        PROVE  s[i] \in ToSet(Tail(s)) \cup {Head(s)}
    BY <1>2, <1>3 DEF ToSet
  <2> QED BY <2>1 DEF ToSet
<1>6. ToSet(Tail(s)) \subseteq ToSet(s)
  BY <1>4 DEF ToSet
<1>7. Head(s) \in ToSet(s)
  <2>1. 1 \in DOMAIN s
    BY <1>1
  <2> QED BY <1>2, <2>1 DEF ToSet
<1> QED BY <1>2, <1>5, <1>6, <1>7

\* The elements of a sequence.
LEMMA SetOfSeq ==
    ASSUME NEW S, NEW s \in Seq(S)
    PROVE  ToSet(s) \subseteq S /\ s \in Seq(ToSet(s))
BY DEF ToSet

\* The empty sequence has none.
LEMMA SetOfEmpty == ToSet(<<>>) = {}
BY DEF ToSet

\* Append adds one element.
LEMMA SetOfAppend ==
    ASSUME NEW S, NEW s \in Seq(S), NEW x \in S
    PROVE  ToSet(Append(s, x)) = ToSet(s) \cup {x}
<1>1. /\ Len(Append(s, x)) = Len(s) + 1 /\ Len(s) \in Nat
      /\ \A i \in 1 .. Len(s) : Append(s, x)[i] = s[i]
      /\ Append(s, x)[Len(s) + 1] = x
      /\ DOMAIN s = 1 .. Len(s) /\ DOMAIN Append(s, x) = 1 .. Len(s) + 1
  OBVIOUS
<1>2. 1 .. Len(s) + 1 = (1 .. Len(s)) \cup {Len(s) + 1}
  BY <1>1
<1> QED BY <1>1, <1>2 DEF ToSet

\* Concatenation joins the elements.
LEMMA SetOfConcat ==
    ASSUME NEW S, NEW s \in Seq(S), NEW t \in Seq(S)
    PROVE  s \o t \in Seq(S) /\ ToSet(s \o t) = ToSet(s) \cup ToSet(t)
<1>1. /\ s \o t \in Seq(S) /\ Len(s) \in Nat /\ Len(t) \in Nat
      /\ DOMAIN (s \o t) = 1 .. Len(s) + Len(t) /\ DOMAIN s = 1 .. Len(s) /\ DOMAIN t = 1 .. Len(t)
      /\ \A i \in 1 .. Len(s) + Len(t) : (s \o t)[i] = IF i <= Len(s) THEN s[i] ELSE t[i - Len(s)]
  OBVIOUS
<1>2. ToSet(s) \subseteq ToSet(s \o t)
  BY <1>1 DEF ToSet
<1>3. ToSet(t) \subseteq ToSet(s \o t)
  <2>1. ASSUME NEW i \in DOMAIN t
        PROVE  i + Len(s) \in DOMAIN (s \o t) /\ (s \o t)[i + Len(s)] = t[i]
    BY <1>1
  <2> QED BY <2>1 DEF ToSet
<1>4. ToSet(s \o t) \subseteq ToSet(s) \cup ToSet(t)
  <2>1. ASSUME NEW i \in DOMAIN (s \o t)
        PROVE  \/ i \in DOMAIN s /\ (s \o t)[i] = s[i]
               \/ i - Len(s) \in DOMAIN t /\ (s \o t)[i] = t[i - Len(s)]
    BY <1>1
  <2> QED BY <2>1 DEF ToSet
<1> QED BY <1>1, <1>2, <1>3, <1>4

\* Reversal keeps them.
LEMMA SetOfReverse ==
    ASSUME NEW S, NEW s \in Seq(S)
    PROVE  Reverse(s) \in Seq(S) /\ ToSet(Reverse(s)) = ToSet(s)
<1>1. /\ Len(s) \in Nat /\ DOMAIN s = 1 .. Len(s) /\ DOMAIN Reverse(s) = 1 .. Len(s)
      /\ \A i \in 1 .. Len(s) : Reverse(s)[i] = s[(Len(s) - i) + 1]
  BY DEF Reverse
<1>2. \A i \in 1 .. Len(s) : /\ (Len(s) - i) + 1 \in 1 .. Len(s)
                             /\ (Len(s) - ((Len(s) - i) + 1)) + 1 = i
  BY <1>1
<1>3. Reverse(s) \in [1 .. Len(s) -> S]
  BY <1>1, <1>2 DEF Reverse
<1>4. Reverse(s) \in Seq(S)
  BY <1>1, <1>3
<1>5. \A i \in DOMAIN s : (Len(s) - i) + 1 \in DOMAIN Reverse(s) /\ Reverse(s)[(Len(s) - i) + 1] = s[i]
  BY <1>1, <1>2
<1>6. \A i \in DOMAIN Reverse(s) : (Len(s) - i) + 1 \in DOMAIN s /\ Reverse(s)[i] = s[(Len(s) - i) + 1]
  BY <1>1, <1>2
<1>7. ToSet(s) \subseteq ToSet(Reverse(s))
  BY <1>5 DEF ToSet
<1>8. ToSet(Reverse(s)) \subseteq ToSet(s)
  BY <1>6 DEF ToSet
<1> QED BY <1>4, <1>7, <1>8

\* The elements of a finite set in some order.
LEMMA SetOfOrder ==
    ASSUME NEW S, IsFiniteSet(S)
    PROVE  SetToSeq(S) \in Seq(S) /\ ToSet(SetToSeq(S)) = S
<1>1. Cardinality(S) \in Nat /\ \E f \in Bijection(1 .. Cardinality(S), S) : TRUE
  BY FS_CardinalityType DEF ExistsBijection
<1>2. PICK f \in [1 .. Cardinality(S) -> S] : IsInjective(f)
  BY <1>1 DEF Bijection, Injection
<1>3. /\ SetToSeq(S) \in [1 .. Cardinality(S) -> S] /\ IsInjective(SetToSeq(S))
  BY <1>2 DEF SetToSeq
<1>4. SetToSeq(S) \in Injection(1 .. Cardinality(S), S)
  BY <1>3 DEF Injection
<1>5. SetToSeq(S) \in Seq(S)
  BY <1>1, <1>3
<1>6. IsFiniteSet(1 .. Cardinality(S)) /\ Cardinality(1 .. Cardinality(S)) = Cardinality(S)
  BY <1>1, FS_Interval
<1>7. \A y \in S : \E i \in 1 .. Cardinality(S) : SetToSeq(S)[i] = y
  <2>1. PICK order \in Injection(1 .. Cardinality(S), S) : order = SetToSeq(S)
    BY <1>4
  <2>2. order \in Surjection(1 .. Cardinality(S), S)
    BY <1>6, FS_Injection
  <2> QED BY <2>1, <2>2 DEF Surjection
<1> QED BY <1>3, <1>5, <1>7 DEF ToSet

-----------------------------------------------------------------------------
(* Keep, and the lists of the scripts *)

\* What Keep has kept of the first n elements.
KeptStep(s, ids, f, n) ==
    IF n = 0 THEN <<>> ELSE IF s[n] \in ids THEN Append(f[n - 1], s[n]) ELSE f[n - 1]

\* Keep is the last of a function's values, each given by the one before.
LEMMA KeepSteps ==
    ASSUME NEW S, NEW s \in Seq(S), NEW ids
    PROVE  \E f : Keep(s, ids) = f[Len(s)] /\ \A n \in 0 .. Len(s) : f[n] = KeptStep(s, ids, f, n)
<1>1. PICK T : T = {m \in Nat : \E g : g = [n \in 0 .. m |-> KeptStep(s, ids, g, n)]}
  OBVIOUS
<1>2. 0 \in T
  <2>1. PICK g : g = [n \in 0 .. 0 |-> <<>>]
    OBVIOUS
  <2>2. g = [n \in 0 .. 0 |-> KeptStep(s, ids, g, n)]
    BY <2>1 DEF KeptStep
  <2> QED BY <1>1, <2>2
<1>3. ASSUME NEW m \in Nat, m \in T
      PROVE  m + 1 \in T
  <2>1. PICK g : g = [n \in 0 .. m |-> KeptStep(s, ids, g, n)]
    BY <1>1, <1>3
  <2>2. PICK h : h = [n \in 0 .. m + 1 |-> IF n = m + 1 THEN KeptStep(s, ids, g, n) ELSE g[n]]
    OBVIOUS
  <2>3. \A n \in 0 .. m : h[n] = g[n]
    BY <2>2
  <2>4. ASSUME NEW n \in 0 .. m + 1
        PROVE  h[n] = KeptStep(s, ids, h, n)
    <3>1. n = 0 \/ n - 1 \in 0 .. m
      OBVIOUS
    <3>2. KeptStep(s, ids, h, n) = KeptStep(s, ids, g, n)
      BY <2>3, <3>1 DEF KeptStep
    <3>3. CASE n = m + 1
      BY <2>2, <3>2, <3>3
    <3>4. CASE n # m + 1
      <4>1. n \in 0 .. m
        BY <3>4
      <4> QED BY <2>1, <2>3, <3>2, <4>1
    <3> QED BY <3>3, <3>4
  <2>5. h = [n \in 0 .. m + 1 |-> KeptStep(s, ids, h, n)]
    BY <2>2, <2>4
  <2> QED BY <1>1, <2>5
<1>4. Len(s) \in T
  BY <1>2, <1>3, Numbers
<1>5. PICK g : g = [n \in 0 .. Len(s) |-> KeptStep(s, ids, g, n)]
  BY <1>1, <1>4
<1>6. PICK f : f = CHOOSE kept : kept = [n \in 0 .. Len(s) |-> KeptStep(s, ids, kept, n)]
  OBVIOUS
<1>7. f = [n \in 0 .. Len(s) |-> KeptStep(s, ids, f, n)]
  BY <1>5, <1>6
<1>8. Keep(s, ids) = f[Len(s)]
  BY <1>6 DEF Keep, KeptStep
<1> QED BY <1>7, <1>8

\* Keep returns the elements of the list that are to be kept.
LEMMA KeptElements ==
    ASSUME NEW S, NEW s \in Seq(S), NEW ids
    PROVE  Keep(s, ids) \in Seq(S) /\ ToSet(Keep(s, ids)) = ToSet(s) \cap ids
<1>1. PICK f : Keep(s, ids) = f[Len(s)] /\ \A n \in 0 .. Len(s) : f[n] = KeptStep(s, ids, f, n)
  BY KeepSteps
<1>2. PICK T : T = {m \in Nat : m <= Len(s) =>
                     f[m] \in Seq(S) /\ ToSet(f[m]) = {s[i] : i \in 1 .. m} \cap ids}
  OBVIOUS
<1>3. 0 \in T
  <2>1. f[0] = <<>>
    BY <1>1 DEF KeptStep
  <2>2. {s[i] : i \in 1 .. 0} = {}
    <3>1. 1 .. 0 = {}
      OBVIOUS
    <3> QED BY <3>1
  <2>3. <<>> \in Seq(S)
    OBVIOUS
  <2> QED BY <1>2, <2>1, <2>2, <2>3, SetOfEmpty
<1>4. ASSUME NEW m \in Nat, m \in T
      PROVE  m + 1 \in T
  <2>1. SUFFICES ASSUME m + 1 <= Len(s)
                 PROVE  f[m + 1] \in Seq(S) /\ ToSet(f[m + 1]) = {s[i] : i \in 1 .. m + 1} \cap ids
    BY <1>2
  <2>2. /\ f[m] \in Seq(S) /\ ToSet(f[m]) = {s[i] : i \in 1 .. m} \cap ids
        /\ s[m + 1] \in S
    BY <1>2, <1>4, <2>1
  <2>3. f[m + 1] = IF s[m + 1] \in ids THEN Append(f[m], s[m + 1]) ELSE f[m]
    BY <1>1, <2>1 DEF KeptStep
  <2>4. {s[i] : i \in 1 .. m + 1} = {s[i] : i \in 1 .. m} \cup {s[m + 1]}
    <3>1. 1 .. m + 1 = (1 .. m) \cup {m + 1}
      OBVIOUS
    <3> QED BY <3>1
  <2>5. CASE s[m + 1] \in ids
    <3>1. ToSet(Append(f[m], s[m + 1])) = ToSet(f[m]) \cup {s[m + 1]}
      BY <2>2, SetOfAppend
    <3> QED BY <2>2, <2>3, <2>4, <2>5, <3>1
  <2>6. CASE s[m + 1] \notin ids
    BY <2>2, <2>3, <2>4, <2>6
  <2> QED BY <2>5, <2>6
<1>5. Len(s) \in T /\ Len(s) \in Nat
  BY <1>3, <1>4, Numbers
<1>6. ToSet(s) = {s[i] : i \in 1 .. Len(s)}
  BY DEF ToSet
<1> QED BY <1>1, <1>2, <1>5, <1>6

\* The targets and the retired servers are servers of the script.
LEMMA OwnIds ==
    /\ Targets \in Seq(Ids) /\ Retired \in Seq(Ids) /\ Own \in Seq(Ids) /\ Own \in Seq(ToSet(Own))
    /\ ToSet(Targets) \subseteq ToSet(Own) /\ ToSet(Own) \subseteq Ids
    /\ ToSet(Own) \subseteq ToSet(Targets) \cup ToSet(Retired)
    /\ ToSet(Targets) \cap ToSet(Retired) = {} /\ ToSet(Targets) # {}
    /\ (kind \notin {"bunny", "video"} => Own = Targets)
<1>1. Targets \in Seq(Ids) /\ Retired \in Seq(Ids)
  BY TargetsAssumption DEF Ids
<1>2. Targets \o Retired \in Seq(Ids) /\ ToSet(Targets \o Retired) = ToSet(Targets) \cup ToSet(Retired)
  BY <1>1, SetOfConcat
<1>3. Own \in Seq(Ids) /\ ToSet(Targets) \subseteq ToSet(Own) /\ ToSet(Own) \subseteq Ids
      /\ ToSet(Own) \subseteq ToSet(Targets) \cup ToSet(Retired)
  BY <1>1, <1>2 DEF Own, Ids
<1>4. ToSet(Targets) \cap ToSet(Retired) = {}
  BY TargetsAssumption, SetOfSeq
<1>5. ToSet(Targets) # {}
  BY <1>1, HeadTail, TargetsAssumption
<1>6. Own \in Seq(ToSet(Own))
  BY <1>3, SetOfSeq
<1> QED BY <1>1, <1>3, <1>4, <1>5, <1>6 DEF Own

\* The last of the elder servers (SelectLastInSeq) is in the list, or there is
\* none.
LastElder(list) ==
    LET found == {i \in 1 .. Len(list) : list[i] \in ToSet(Retired)} IN
    IF found # {} THEN Max(found) ELSE 0

\* The last retired server of a list has a position, 0 if there is none.
LEMMA LastPosition ==
    ASSUME NEW S, NEW s \in Seq(S)
    PROVE  LastElder(s) \in 0 .. Len(s)
<1>1. PICK found : found = {i \in 1 .. Len(s) : s[i] \in ToSet(Retired)}
  OBVIOUS
<1>2. LastElder(s) = IF found # {} THEN Max(found) ELSE 0
  BY <1>1 DEF LastElder
<1>3. ASSUME found # {}
      PROVE  Max(found) \in found
  <2>1. PICK T : T = {Len(s) - i : i \in found}
    OBVIOUS
  <2>2. T \subseteq Nat /\ T # {}
    BY <1>1, <1>3, <2>1
  <2>3. PICK x \in T : \A y \in T : x <= y
    BY <2>2, LeastNumber
  <2>4. PICK i \in found : x = Len(s) - i
    BY <2>1, <2>3
  <2>5. \A j \in found : i >= j
    <3>1. ASSUME NEW j \in found
          PROVE  i >= j
      <4>1. Len(s) - i <= Len(s) - j
        BY <2>1, <2>3, <2>4, <3>1
      <4> QED BY <1>1, <4>1
    <3> QED BY <3>1
  <2> QED BY <2>5 DEF Max
<1> QED BY <1>1, <1>2, <1>3

\* The parts before and after a position.
LEMMA PartsOfSeq ==
    ASSUME NEW S, NEW s \in Seq(S), NEW e \in 0 .. Len(s)
    PROVE  SubSeq(s, 1, e) \in Seq(S) /\ SubSeq(s, e + 1, Len(s)) \in Seq(S)
<1>1. SubSeq(s, 1, e) \in Seq(S)
  OBVIOUS
<1>2. SubSeq(s, e + 1, Len(s)) \in Seq(S)
  <2>1. Len(s) \in Nat /\ e + 1 \in 1 .. Len(s) + 1 /\ \A i \in 1 .. Len(s) : s[i] \in S
    OBVIOUS
  <2>2. \A i \in e + 1 .. Len(s) : s[i] \in S
    BY <2>1
  <2> QED BY <2>1, <2>2
<1> QED BY <1>1, <1>2

\* fr1 puts the targets between two parts of the list.
LEMMA Fr1Parts ==
    ASSUME NEW list \in Seq(Ids)
    PROVE  \E one, two \in Seq(Ids) : Fr1After(list) = (one \o Targets) \o two
<1>1. Rest(list) \in Seq(Ids)
  BY KeptElements DEF Rest
<1>2. LastElder(Rest(list)) \in 0 .. Len(Rest(list))
  BY <1>1, LastPosition
<1>3. Fr1After(list) = (SubSeq(Rest(list), 1, LastElder(Rest(list))) \o Targets)
                         \o SubSeq(Rest(list), LastElder(Rest(list)) + 1, Len(Rest(list)))
  BY DEF Fr1After, LastElder, SelectLastInSeq
<1> QED BY <1>1, <1>2, <1>3, PartsOfSeq

\* The list that a script computes is a list of servers.
LEMMA AfterTyped ==
    ASSUME kind \in Kinds, NEW list \in Seq(Ids)
    PROVE  After(list) \in Seq(Ids)
<1>1. Rest(list) \in Seq(Ids) /\ VideoAfter(list) \in Seq(Ids)
  BY KeptElements DEF Rest, VideoAfter
<1>2. Targets \o Rest(list) \in Seq(Ids)
  BY <1>1, OwnIds
<1>3. Fr1After(list) \in Seq(Ids)
  <2>1. PICK one \in Seq(Ids), two \in Seq(Ids) : Fr1After(list) = (one \o Targets) \o two
    BY Fr1Parts
  <2>2. one \o Targets \in Seq(Ids)
    BY OwnIds
  <2>3. PICK front : front = one \o Targets
    OBVIOUS
  <2>4. front \o two \in Seq(Ids)
    BY <2>2, <2>3
  <2> QED BY <2>1, <2>3, <2>4
<1> QED BY <1>1, <1>2, <1>3
        DEF Kinds, After, CloudflareAfter, FinalmaskAfter, EdgeAfter, BunnyAfter

\* What is in a list as a script wants it.
LEMMA AfterElements ==
    ASSUME kind \in Kinds, NEW list \in Seq(Ids)
    PROVE  /\ kind \notin {"video", "mask"} => ToSet(Targets) \subseteq ToSet(After(list))
           /\ kind \in {"cloudflare", "finalmask", "bunny"} => TargetsFirst(After(list))
           /\ kind = "video" => ToSet(After(list)) = ToSet(list) \ ToSet(Retired)
<1>1. Rest(list) \in Seq(Ids) /\ Targets \in Seq(Ids)
  BY KeptElements, OwnIds DEF Rest
<1>2. ToSet(Targets) \subseteq ToSet(Targets \o Rest(list))
  BY <1>1, SetOfConcat
<1>3. TargetsFirst(Targets \o Rest(list))
  <2>1. /\ Len(Targets) <= Len(Targets \o Rest(list)) /\ Len(Targets) \in Nat
        /\ Targets \o Rest(list) \in Seq(Ids)
        /\ \A i \in 1 .. Len(Targets) : (Targets \o Rest(list))[i] = Targets[i]
    BY <1>1
  <2>2. SubSeq(Targets, 1, Len(Targets)) = SubSeq(Targets \o Rest(list), 1, Len(Targets))
    BY <1>1, <2>1
  <2> QED BY <2>1, <2>2 DEF TargetsFirst, IsPrefix
<1>4. ToSet(Targets) \subseteq ToSet(Fr1After(list))
  <2>1. PICK one \in Seq(Ids), two \in Seq(Ids) : Fr1After(list) = (one \o Targets) \o two
    BY Fr1Parts
  <2>2. one \o Targets \in Seq(Ids) /\ ToSet(Targets) \subseteq ToSet(one \o Targets)
    BY <1>1, SetOfConcat
  <2>3. PICK front : front = one \o Targets
    OBVIOUS
  <2>4. ToSet(front) \subseteq ToSet(front \o two)
    <3>1. front \in Seq(Ids)
      BY <2>2, <2>3
    <3>2. ToSet(front \o two) = ToSet(front) \cup ToSet(two)
      BY <3>1, SetOfConcat
    <3> QED BY <3>2
  <2> QED BY <2>1, <2>2, <2>3, <2>4
<1>5. ToSet(VideoAfter(list)) = ToSet(list) \ ToSet(Retired)
  BY KeptElements, SetOfSeq DEF VideoAfter
<1> QED BY <1>2, <1>3, <1>4, <1>5
        DEF Kinds, After, CloudflareAfter, FinalmaskAfter, EdgeAfter, BunnyAfter

\* Targets at the head of a list are in it.
LEMMA FirstAreThere ==
    ASSUME NEW list \in Seq(Ids), TargetsFirst(list)
    PROVE  ToSet(Targets) \subseteq ToSet(list)
<1>1. /\ Targets \in Seq(Ids) /\ Len(Targets) \in Nat /\ Len(list) \in Nat /\ Len(Targets) <= Len(list)
      /\ SubSeq(Targets, 1, Len(Targets)) = SubSeq(list, 1, Len(Targets))
  BY OwnIds DEF TargetsFirst, IsPrefix
<1>2. ASSUME NEW i \in DOMAIN Targets
      PROVE  i \in DOMAIN list /\ list[i] = Targets[i]
  <2>1. i \in 1 .. Len(Targets)
    BY <1>1
  <2>2. SubSeq(Targets, 1, Len(Targets))[i] = Targets[i]
    BY <1>1, <2>1
  <2>3. SubSeq(list, 1, Len(Targets))[i] = list[i]
    BY <1>1, <2>1
  <2> QED BY <1>1, <2>1, <2>2, <2>3
<1> QED BY <1>2 DEF ToSet

-----------------------------------------------------------------------------
(* Bodies and documents *)

Documents == [Ids -> Doc \cup {None}]

\* A body has the lines of the servers that are listed and enabled.
LEMMA BodyLines ==
    ASSUME row \in Documents, NEW list \in Seq(Ids)
    PROVE  /\ Body(list) \in Seq(Line)
           /\ \A id \in Ids : HasLine(Body(list), id) <=> id \in ToSet(list) /\ row[id] # None /\ row[id].enabled
           /\ (\A id \in ToSet(Targets) : row[id] # None => row[id].extra) => TargetsMasked(Body(list))
<1>1. PICK live : live = Keep(list, Live)
  OBVIOUS
<1>2. live \in Seq(Ids) /\ ToSet(live) = ToSet(list) \cap Live
  BY <1>1, KeptElements
<1>3. Body(list) = [i \in DOMAIN live |-> <<live[i], row[live[i]].extra>>]
  BY <1>1 DEF Body
<1>4. \A i \in DOMAIN live : live[i] \in Ids /\ live[i] \in Live
  BY <1>2 DEF ToSet
<1>5. \A i \in DOMAIN live : Body(list)[i] \in Line
  <2>1. \A i \in DOMAIN live : row[live[i]] \in Doc
    BY <1>4 DEF Live, Documents
  <2>2. \A i \in DOMAIN live : row[live[i]].extra \in BOOLEAN
    BY <2>1 DEF Doc
  <2> QED BY <1>3, <1>4, <2>2 DEF Line
<1>6. Body(list) \in Seq(Line)
  <2>1. DOMAIN live = 1 .. Len(live) /\ Len(live) \in Nat
    BY <1>2
  <2> QED BY <1>3, <1>5, <2>1
<1>7. \A id \in Ids : HasLine(Body(list), id) <=> id \in ToSet(live)
  BY <1>3 DEF HasLine, ToSet
<1>8. (\A id \in ToSet(Targets) : row[id] # None => row[id].extra) => TargetsMasked(Body(list))
  BY <1>3, <1>4 DEF TargetsMasked, Live
<1> QED BY <1>2, <1>6, <1>7, <1>8 DEF Live

Masks(doc) == doc \in Doc /\ doc.extra /\ (kind # "mask" => doc.enabled)

\* A script publishes documents, or None where video leaves a server alone.
LEMMA DocumentTyped ==
    ASSUME kind \in Kinds, NEW id \in ToSet(Own), NEW before \in Doc \cup {None},
           kind \in TunesTargets /\ id \in ToSet(Targets) => before # None,
           kind = "bunny" /\ id \in ToSet(Retired) => before # None
    PROVE  /\ Document(id, before) \in Doc \cup {None}
           /\ id \in ToSet(Targets) => Masks(Document(id, before))
<1>1. CASE id \in ToSet(Retired)
  <2>1. kind \in {"bunny", "video"} /\ id \notin ToSet(Targets)
    BY <1>1, OwnIds
  <2>2. kind = "bunny" => RetiredDocument(before) \in Doc
    BY <1>1 DEF RetiredDocument, Doc
  <2>3. Document(id, before) = IF kind = "video" THEN None ELSE RetiredDocument(before)
    BY <1>1 DEF Document
  <2> QED BY <2>1, <2>2, <2>3
<1>2. CASE id \notin ToSet(Retired)
  <2>1. id \in ToSet(Targets)
    BY <1>2, OwnIds
  <2>2. CloudflareDocument \in Doc /\ CloudflareDocument.extra /\ CloudflareDocument.enabled
    BY DEF CloudflareDocument, Doc
  <2>3. before \in Doc => /\ FinalmaskDocument(before) \in Doc /\ FinalmaskDocument(before).extra
                          /\ FinalmaskDocument(before).enabled
                          /\ MaskedDocument(before) \in Doc /\ MaskedDocument(before).extra
    BY DEF FinalmaskDocument, MaskedDocument, Doc
  <2> QED BY <1>2, <2>1, <2>2, <2>3
          DEF Document, Kinds, TunesTargets, Masks, BunnyDocument, Fr1Document, EdgeDocument, VideoDocument
<1> QED BY <1>1, <1>2

\* upsertServer's merge is a document.
LEMMA MergeTyped ==
    ASSUME NEW was \in Doc \cup {None}, NEW doc \in Doc \cup {None}
    PROVE  /\ Merge(was, doc) \in Doc \cup {None}
           /\ doc = None <=> Merge(was, doc) = None
           /\ Masks(doc) => Masks(Merge(was, doc))
<1>1. None \notin Doc
  BY NoneAssumption
<1>2. CASE was = None \/ doc = None
  BY <1>1, <1>2 DEF Merge, Masks
<1>3. CASE was \in Doc /\ doc \in Doc
  <2>1. PICK merged : merged = [doc EXCEPT !.extra = @ \/ was.extra]
    OBVIOUS
  <2>2. merged \in Doc /\ merged.enabled = doc.enabled /\ (doc.extra => merged.extra)
    BY <1>3, <2>1 DEF Doc
  <2>3. Merge(was, doc) = merged
    BY <1>1, <1>3, <2>1 DEF Merge
  <2> QED BY <1>1, <1>3, <2>2, <2>3 DEF Masks
<1> QED BY <1>2, <1>3

\* The body of a client, fresh or from the cache, and the file.
LEMMA FilesTyped ==
    ASSUME row \in Documents, NEW doc \in User, NEW u \in Users,
           cache \in [Users -> Seq(Line) \cup {None}]
    PROVE  FileOf(doc) \in Seq(Line) /\ BodyOf(u, doc) \in Seq(Line) /\ Body(doc.list) \in Seq(Line)
<1>1. doc.list \in Seq(Ids)
  BY DEF User
<1>2. Body(doc.list) \in Seq(Line) /\ <<>> \in Seq(Line)
  BY <1>1, BodyLines
<1> QED BY <1>2 DEF FileOf, BodyOf

-----------------------------------------------------------------------------
(* Types, and what a script still has to do at each stage *)

Seen == {u \in Users : seen[u] # None}
Listed == {u \in Users : listed[u] # None}
Bodies == [Users -> Seq(Line) \cup {None}]
Clients == [Users -> User \cup {None}]

\* Before a script changes anything, and when it has given up.
Early == {"list", "servers", "bodies", "backup"}
Idle == {"list", "backup", "ok", "refused", "failed", "rolled back", "died"}
OfServers == {"servers", "publish", "undo server"}
OfSeen == {"bodies", "preview", "apply", "apply file", "undo list", "undo file"}
Undoing == {"undo list", "undo file", "undo server", "rolled back"}

\* A server has been read, and was there.
Read(id) ==
    at \notin {"list", "refused", "failed", "died"} /\ ~(at = "servers" /\ id \in ToSet(left))
      => prev[id] # None

Data ==
    /\ kind \in Kinds
    /\ row \in Documents /\ prev \in Documents
    /\ user \in Clients /\ seen \in Clients /\ listed \in Clients
    /\ file \in Bodies /\ cache \in Bodies
    /\ published \subseteq ToSet(Own)
    /\ applied \in Seq(Seen)

Course ==
    /\ at \in Idle \cup OfServers \cup OfSeen \cup {"files", "verify"}
    /\ at \in Idle => left = <<>>
    /\ at \in OfServers => left \in Seq(ToSet(Own))
    /\ at \in OfSeen => left \in Seq(Seen)
    /\ at = "files" => left \in Seq(IF kind = "edge" THEN Listed ELSE Seen)
    /\ at = "verify" => left \in Seq(Listed)
    /\ at = "apply file" => left # <<>>
    /\ at = "undo file" /\ kind # "mask" => left # <<>>
    /\ kind = "edge" => at \notin Undoing /\ at # "preview"
    /\ kind = "mask" => at \notin {"apply", "apply file", "undo list"}
    /\ at = "list" => applied = <<>>

Reads ==
    /\ kind \in TunesTargets => \A id \in ToSet(Targets) : Read(id)
    /\ kind = "bunny" => \A id \in ToSet(Retired) : Read(id)

Typed == Data /\ Course /\ Reads

\* What stays when a step leaves the script's knowledge alone.
LEMMA KindStays ==
    ASSUME kind' = kind
    PROVE  Own' = Own
BY DEF Own

\* The order in which a set of clients is worked on.
LEMMA ListingTyped ==
    ASSUME NEW clients
    PROVE  /\ Listing(clients) \in Seq({u \in Users : clients[u] # None})
           /\ ToSet(Listing(clients)) = {u \in Users : clients[u] # None}
<1>1. PICK S : S = {u \in Users : clients[u] # None}
  OBVIOUS
<1>2. S \subseteq Users /\ IsFiniteSet(S)
  BY <1>1, UsersAssumption, FS_Subset
<1>3. SetToSeq(S) \in Seq(S) /\ ToSet(SetToSeq(S)) = S
  BY <1>2, SetOfOrder
<1> QED BY <1>1, <1>3 DEF Listing

\* Only clients that were listed are changed: all of them, but for edge.
LEMMA ToPatchTyped ==
    /\ ToPatch \in Seq(Seen)
    /\ kind # "edge" => ToSet(ToPatch) = Seen
<1>1. Listing(seen) \in Seq(Seen) /\ ToSet(Listing(seen)) = Seen
  BY ListingTyped DEF Seen
<1>2. PICK ids : ids = {u \in Users : seen[u] # None /\ (kind # "edge" \/ After(seen[u].list) # seen[u].list)}
  OBVIOUS
<1>3. Keep(Listing(seen), ids) \in Seq(Seen) /\ ToSet(Keep(Listing(seen), ids)) = Seen \cap ids
  BY <1>1, KeptElements
<1>4. kind # "edge" => Seen \cap ids = Seen
  BY <1>2 DEF Seen
<1> QED BY <1>2, <1>3, <1>4 DEF ToPatch

\* A rollback begins with the clients or with the servers.
LEMMA RollbackBegins ==
    ASSUME Data, Rollback
    PROVE  \/ kind = "edge" /\ at' = "died" /\ left' = <<>>
           \/ /\ kind \in UsersBackFirst /\ at' = "undo list"
              /\ left' \in Seq(Seen) /\ ToSet(left') = ToSet(applied)
           \/ /\ kind \in {"bunny", "video", "mask"} /\ at' = "undo server"
              /\ left' \in Seq(ToSet(Own)) /\ ToSet(left') = ToSet(Own) \cap published
<1>1. Reverse(applied) \in Seq(Seen) /\ ToSet(Reverse(applied)) = ToSet(applied)
  BY SetOfReverse DEF Data
<1>2. Keep(Own, published) \in Seq(ToSet(Own)) /\ ToSet(Keep(Own, published)) = ToSet(Own) \cap published
  BY OwnIds, KeptElements
<1> QED BY <1>1, <1>2 DEF Rollback, UndoUsers, UndoServers, Goto, Data, Kinds, UsersBackFirst

\* The rows at the start are typed.
LEMMA TypedInit ==
    ASSUME Init
    PROVE  Typed
<1>1. kind \in Kinds /\ at = "list" /\ left = <<>> /\ published = {} /\ applied = <<>>
  BY DEF Init
<1>2. row \in Documents /\ prev \in Documents
  <2>1. Before \in Doc
    BY DEF Before, Doc
  <2> QED BY <2>1 DEF Init, Documents
<1>3. seen \in Clients /\ listed \in Clients /\ cache \in Bodies
  BY DEF Init, Clients, Bodies
<1>4. user \in Clients
  <2>1. PICK list \in InitLists :
          user \in [Users -> {None} \cup [active : BOOLEAN, custom : {FALSE}, list : {list}]
                                   \cup [active : {TRUE}, custom : {TRUE}, list : {<<>>}]]
    BY DEF Init
  <2>2. list \in Seq(Ids) /\ <<>> \in Seq(Ids)
    BY <2>1, ListsAssumption
  <2>3. [active : BOOLEAN, custom : {FALSE}, list : {list}] \subseteq User
    BY <2>2 DEF User
  <2>4. [active : {TRUE}, custom : {TRUE}, list : {<<>>}] \subseteq User
    BY <2>2 DEF User
  <2> QED BY <2>1, <2>3, <2>4 DEF Clients
<1>5. file \in Bodies
  <2>1. \A u \in Users : user[u] # None => FileOf(user[u]) \in Seq(Line)
    <3> TAKE u \in Users
    <3> SUFFICES ASSUME user[u] # None PROVE FileOf(user[u]) \in Seq(Line)
      OBVIOUS
    <3> QED BY <1>2, <1>3, <1>4, FilesTyped DEF Clients, Bodies
  <2>2. file = [u \in Users |-> IF user[u] = None THEN None ELSE FileOf(user[u])]
    BY DEF Init
  <2> QED BY <2>1, <2>2 DEF Bodies
<1>6. Data
  BY <1>1, <1>2, <1>3, <1>4, <1>5 DEF Data
<1>7. Course
  BY <1>1 DEF Course, Idle, OfServers, OfSeen, Undoing
<1>8. Reads
  BY <1>1 DEF Reads, Read
<1> QED BY <1>6, <1>7, <1>8 DEF Typed

\* The servers a script may still have to read.
Unread == {"list", "servers", "refused", "failed", "died"}

\* What has been read stays read.
LEMMA ReadsStay ==
    ASSUME Reads, UNCHANGED <<kind, prev>>,
           \/ at \notin Unread \/ at' \in {"list", "refused", "failed", "died"}
           \/ UNCHANGED <<at, left>>
    PROVE  Reads'
BY DEF Reads, Read, Unread

\* The stages that only read, or only go on to the next stage.
LEMMA ListUsersTyped ==
    ASSUME Typed, ListUsers
    PROVE  Typed'
<1>1. UNCHANGED <<kind, row, prev, user, listed, file, cache, published, applied>> /\ seen' = Selected /\ at = "list"
  BY DEF ListUsers, progress, foreign
<1>2. Own' = Own /\ Own \in Seq(ToSet(Own))
  BY <1>1, KindStays, OwnIds
<1>3. seen' \in Clients
  BY <1>1 DEF Typed, Data, Clients, Selected
<1>4. applied = <<>> /\ applied' \in Seq(Seen')
  BY <1>1 DEF Typed, Course
<1>5. Data'
  BY <1>1, <1>2, <1>3, <1>4 DEF Typed, Data
<1>6. (at' = "refused" /\ left' = <<>>) \/ (at' = "servers" /\ left' = Own)
  BY DEF ListUsers, Goto
<1>7. Course'
  BY <1>2, <1>6 DEF Course, Idle, OfServers, OfSeen, Undoing
<1>8. Reads'
  <2>1. ToSet(Targets) \subseteq ToSet(Own)
    BY OwnIds
  <2>2. kind = "bunny" => ToSet(Retired) \subseteq ToSet(Own)
    BY OwnIds, SetOfConcat DEF Own
  <2> QED BY <1>1, <1>6, <2>1, <2>2 DEF Reads, Read
<1> QED BY <1>5, <1>7, <1>8 DEF Typed

\* Reading a server notes its document.
LEMMA ReadServerTyped ==
    ASSUME Typed, ReadServer
    PROVE  Typed'
<1>1. /\ UNCHANGED <<kind, row, user, seen, listed, file, cache, published, applied>>
      /\ prev' = [prev EXCEPT ![Head(left)] = row[Head(left)]]
      /\ at = "servers" /\ left # <<>>
  BY DEF ReadServer, progress, foreign
<1>2. Own' = Own /\ Seen' = Seen
  BY <1>1, KindStays DEF Seen
<1>3. left \in Seq(ToSet(Own)) /\ ToSet(Own) \subseteq Ids
  BY <1>1, OwnIds DEF Typed, Course, OfServers
<1>4. PICK id : id = Head(left)
  OBVIOUS
<1>5. id \in ToSet(Own) /\ id \in Ids /\ Tail(left) \in Seq(ToSet(Own)) /\ ToSet(left) \subseteq ToSet(Tail(left)) \cup {id}
  BY <1>1, <1>3, <1>4, HeadTail
<1>6. prev' \in Documents
  BY <1>1, <1>4, <1>5 DEF Typed, Data, Documents
<1>7. Data'
  BY <1>1, <1>2, <1>6 DEF Typed, Data
<1>8. \/ at' = "refused" /\ left' = <<>>
      \/ /\ at' = "servers" /\ left' = Tail(left)
         /\ kind \in TunesTargets /\ id \in ToSet(Targets) => row[id] # None
         /\ kind = "bunny" /\ id \in ToSet(Retired) => row[id] # None
  BY <1>1, <1>4 DEF ReadServer, Goto, NextOne
<1>9. Course'
  BY <1>1, <1>2, <1>5, <1>8 DEF Typed, Course, Idle, OfServers, OfSeen, Undoing
<1>10. Reads'
  <2>1. CASE at' = "refused"
    BY <2>1 DEF Reads, Read
  <2>2. CASE at' = "servers"
    <3>1. \A i \in Ids : prev'[i] = IF i = id THEN row[id] ELSE prev[i]
      BY <1>1, <1>4, <1>5 DEF Typed, Data, Documents
    <3>2. \A i \in Ids : Read(i) /\ (i = id => row[id] # None) => Read(i)'
      BY <1>1, <1>5, <1>8, <2>2, <3>1 DEF Read
    <3>3. ToSet(Targets) \subseteq Ids /\ ToSet(Retired) \subseteq Ids
      BY DEF Ids
    <3> QED BY <1>1, <1>8, <2>2, <3>2, <3>3 DEF Typed, Reads
  <2> QED BY <1>8, <2>1, <2>2
<1> QED BY <1>7, <1>9, <1>10 DEF Typed

\* Steps that change neither a row nor what the script knows.
LEMMA DataStays ==
    ASSUME Data, UNCHANGED <<kind, row, prev, user, seen, listed, file, cache, published, applied>>
    PROVE  Data' /\ Own' = Own /\ Seen' = Seen /\ Listed' = Listed
<1>1. Own' = Own /\ Seen' = Seen /\ Listed' = Listed
  BY KindStays DEF Seen, Listed
<1> QED BY <1>1 DEF Data

\* Steps to the next stage change no data.
LEMMA GoingOnTyped ==
    ASSUME Typed, ServersRead \/ BodiesBuilt \/ Previewed \/ Verified \/ Undone
    PROVE  Typed'
<1>1. UNCHANGED <<kind, row, prev, user, seen, listed, file, cache, published, applied>>
  BY DEF ServersRead, BodiesBuilt, Previewed, Verified, Undone, script, progress, foreign
<1>2. Data' /\ Own' = Own /\ Seen' = Seen /\ Listed' = Listed
  BY <1>1, DataStays DEF Typed
<1>3. Listing(seen) \in Seq(Seen) /\ ToPatch \in Seq(Seen)
  BY ListingTyped, ToPatchTyped DEF Seen
<1>4. CASE ServersRead
  <2>1. /\ at = "servers" /\ left = <<>>
        /\ (at' = "backup" /\ left' = <<>>) \/ (at' = "failed" /\ left' = <<>>)
           \/ (at' = "bodies" /\ left' = Listing(seen))
    BY <1>4 DEF ServersRead, Goto
  <2>2. Course'
    BY <1>1, <1>2, <1>3, <2>1 DEF Typed, Course, Idle, OfServers, OfSeen, Undoing
  <2>3. Reads'
    <3>1. ToSet(left) = {}
      BY <2>1, SetOfEmpty
    <3> QED BY <1>1, <2>1, <3>1 DEF Typed, Reads, Read
  <2> QED BY <1>2, <2>2, <2>3 DEF Typed
<1>5. CASE BodiesBuilt
  <2>1. at = "bodies" /\ at' = "backup" /\ left' = <<>>
    BY <1>5 DEF BodiesBuilt, Goto
  <2>2. Course'
    BY <1>1, <1>2, <2>1 DEF Typed, Course, Idle, OfServers, OfSeen, Undoing
  <2>3. Reads'
    BY <1>1, <2>1, ReadsStay DEF Typed, Unread
  <2> QED BY <1>2, <2>2, <2>3 DEF Typed
<1>6. CASE Previewed
  <2>1. /\ at = "preview"
        /\ \/ Rollback
           \/ kind = "mask" /\ at' = "files" /\ left' = Listing(seen)
           \/ kind # "mask" /\ at' = "apply" /\ left' = ToPatch
    BY <1>6 DEF Previewed, Goto
  <2>2. Course'
    <3>1. kind # "edge"
      BY <2>1 DEF Typed, Course
    <3>2. CASE Rollback
      <4>1. \/ at' = "undo list" /\ left' \in Seq(Seen) /\ kind # "mask"
            \/ at' = "undo server" /\ left' \in Seq(ToSet(Own))
        BY <3>1, <3>2, RollbackBegins DEF Typed, UsersBackFirst
      <4> QED BY <1>1, <1>2, <3>1, <4>1 DEF Course, Idle, OfServers, OfSeen, Undoing
    <3>3. CASE ~Rollback
      BY <1>1, <1>2, <1>3, <2>1, <3>1, <3>3 DEF Typed, Course, Idle, OfServers, OfSeen, Undoing
    <3> QED BY <3>2, <3>3
  <2>3. Reads'
    BY <1>1, <2>1, ReadsStay DEF Typed, Unread
  <2> QED BY <1>2, <2>2, <2>3 DEF Typed
<1>7. CASE Verified
  <2>1. /\ at = "verify"
        /\ \/ kind # "edge" /\ Rollback
           \/ at' \in {"failed", "ok"} /\ left' = <<>>
    BY <1>7 DEF Verified, Goto
  <2>2. Course'
    <3>1. CASE kind # "edge" /\ Rollback
      <4>1. \/ at' = "undo list" /\ left' \in Seq(Seen) /\ kind # "mask"
            \/ at' = "undo server" /\ left' \in Seq(ToSet(Own))
        BY <3>1, RollbackBegins DEF Typed, UsersBackFirst
      <4> QED BY <1>1, <1>2, <3>1, <4>1 DEF Course, Idle, OfServers, OfSeen, Undoing
    <3>2. CASE at' \in {"failed", "ok"} /\ left' = <<>>
      BY <1>1, <1>2, <3>2 DEF Typed, Course, Idle, OfServers, OfSeen, Undoing
    <3> QED BY <2>1, <3>1, <3>2
  <2>3. Reads'
    BY <1>1, <2>1, ReadsStay DEF Typed, Unread
  <2> QED BY <1>2, <2>2, <2>3 DEF Typed
<1>8. CASE Undone
  <2>1. /\ at \in {"undo list", "undo file", "undo server"} /\ left = <<>>
        /\ \/ kind \in {"bunny", "video"} /\ at' = "undo list" /\ left' = Reverse(applied)
           \/ kind = "mask" /\ at' = "undo file" /\ left' = Listing(seen)
           \/ kind \in UsersBackFirst /\ at' = "undo server" /\ left' = Keep(Own, published)
           \/ at' = "rolled back" /\ left' = <<>>
    BY <1>8 DEF Undone, Goto, UndoUsers, UndoServers
  <2>2. Course'
    <3>1. kind # "edge"
      BY <2>1 DEF Typed, Course, Undoing
    <3>2. Reverse(applied) \in Seq(Seen) /\ Keep(Own, published) \in Seq(ToSet(Own))
      BY SetOfReverse, OwnIds, KeptElements DEF Typed, Data
    <3> QED BY <1>1, <1>2, <1>3, <2>1, <3>1, <3>2 DEF Course, Idle, OfServers, OfSeen, Undoing
  <2>3. Reads'
    BY <1>1, <2>1, ReadsStay DEF Typed, Unread
  <2> QED BY <1>2, <2>2, <2>3 DEF Typed
<1> QED BY <1>4, <1>5, <1>6, <1>7, <1>8

\* Neither does a statement that fails, or a kill.
LEMMA FailingTyped ==
    ASSUME Typed, Fails \/ UndoFails \/ Killed
    PROVE  Typed'
<1>1. UNCHANGED <<kind, row, prev, user, seen, listed, file, cache, published, applied>>
  BY DEF Fails, UndoFails, Killed, script, progress, foreign
<1>2. Data' /\ Own' = Own /\ Seen' = Seen /\ Listed' = Listed
  BY <1>1, DataStays DEF Typed
<1>3. CASE Fails \/ Killed
  <2>1. \/ at' = "died" /\ left' = <<>>
        \/ at \notin Unread /\ Rollback
    BY <1>3 DEF Fails, Killed, Goto, Unread
  <2>2. CASE at' = "died" /\ left' = <<>>
    BY <1>1, <1>2, <2>2, ReadsStay DEF Typed, Course, Idle, OfServers, OfSeen, Undoing
  <2>3. CASE at \notin Unread /\ Rollback
    <3>1. \/ at' = "died" /\ left' = <<>>
          \/ kind # "edge" /\ kind # "mask" /\ at' = "undo list" /\ left' \in Seq(Seen)
          \/ kind # "edge" /\ at' = "undo server" /\ left' \in Seq(ToSet(Own))
      BY <2>3, RollbackBegins DEF Typed, UsersBackFirst
    <3>2. Course'
      BY <1>1, <1>2, <3>1 DEF Course, Idle, OfServers, OfSeen, Undoing
    <3> QED BY <1>1, <1>2, <2>3, <3>2, ReadsStay DEF Typed
  <2> QED BY <2>1, <2>2, <2>3
<1>4. CASE UndoFails
  <2>1. left # <<>> /\ at \in {"undo list", "undo file", "undo server"} /\ kind # "edge"
    BY <1>4 DEF UndoFails, Typed, Course, Undoing
  <2>2. at \in {"undo list", "undo file"} => left \in Seq(Seen) /\ Tail(left) \in Seq(Seen)
    BY <2>1, HeadTail DEF Typed, Course, OfSeen
  <2>3. at = "undo server" => Tail(left) \in Seq(ToSet(Own))
    BY <2>1, HeadTail DEF Typed, Course, OfServers
  <2>4. \/ at = "undo list" /\ at' = "undo file" /\ left' = left
        \/ at = "undo file" /\ kind = "mask" /\ at' = at /\ left' = Tail(left)
        \/ at = "undo file" /\ kind # "mask" /\ at' = "undo list" /\ left' = Tail(left)
        \/ at = "undo server" /\ at' = at /\ left' = Tail(left)
    BY <1>4, <2>1 DEF UndoFails, NextOne
  <2>5. Course'
    BY <1>1, <1>2, <2>1, <2>2, <2>3, <2>4 DEF Course, Idle, OfServers, OfSeen, Undoing
  <2>6. Reads'
    BY <1>1, <2>1, ReadsStay DEF Typed, Unread
  <2> QED BY <1>2, <2>5, <2>6 DEF Typed
<1> QED BY <1>3, <1>4

\* A body is put into the cache.
LEMMA CachingTyped ==
    ASSUME Data, NEW u \in Users, NEW doc \in User, Caching(u, doc)
    PROVE  cache' \in Bodies
<1>1. BodyOf(u, doc) \in Seq(Line)
  BY FilesTyped DEF Data, Bodies
<1> QED BY <1>1 DEF Caching, Data, Bodies

\* A file and a cached body are lines.
LEMMA StoreTyped ==
    ASSUME Data, NEW u \in Users, NEW doc \in User, Store(u, doc)
    PROVE  cache' \in Bodies /\ file' \in Bodies
<1>1. FileOf(doc) \in Seq(Line) /\ Body(doc.list) \in Seq(Line)
  BY FilesTyped DEF Data, Bodies
<1> QED BY <1>1 DEF Store, Data, Bodies

\* A client as it is to be is a client.
LEMMA WantedTyped ==
    ASSUME Data, NEW u \in Seen
    PROVE  /\ u \in Users /\ seen[u] \in User /\ Wanted(u) \in User /\ Then(u) \in User
           /\ After(seen[u].list) \in Seq(Ids) /\ seen[u].list \in Seq(Ids)
           /\ Wanted(u) = [seen[u] EXCEPT !.list = After(seen[u].list)]
<1>1. u \in Users /\ seen[u] \in User
  BY DEF Seen, Data, Clients
<1>2. seen[u].list \in Seq(Ids)
  BY <1>1 DEF User
<1>3. After(seen[u].list) \in Seq(Ids)
  BY <1>2, AfterTyped DEF Data
<1>4. Wanted(u) = [seen[u] EXCEPT !.list = After(seen[u].list)]
  BY DEF Wanted
<1>5. Wanted(u) \in User
  BY <1>1, <1>3, <1>4 DEF User
<1> QED BY <1>1, <1>2, <1>3, <1>4, <1>5 DEF Then

\* A list is written.
LEMMA WriteTyped ==
    ASSUME user \in Clients, NEW u \in Users, NEW list \in Seq(Ids), Write(u, list)
    PROVE  /\ user' \in Clients
           /\ \A v \in Users : user'[v] = None <=> user[v] = None
           /\ \A v \in Users : v # u => user'[v] = user[v]
           /\ user[u] # None => /\ user'[u].list = list /\ user'[u].active = user[u].active
                                /\ user'[u].custom = user[u].custom
<1>1. CASE user[u] = None
  BY <1>1 DEF Write
<1>2. CASE user[u] # None
  <2>1. user[u] \in User /\ None \notin User
    BY <1>2, NoneAssumption DEF Clients
  <2>2. PICK doc : doc = [user[u] EXCEPT !.list = list]
    OBVIOUS
  <2>3. doc \in User /\ doc.list = list /\ doc.active = user[u].active /\ doc.custom = user[u].custom
    BY <2>1, <2>2 DEF User
  <2>4. user' = [user EXCEPT ![u] = doc]
    BY <1>2, <2>2 DEF Write
  <2> QED BY <1>2, <2>1, <2>3, <2>4 DEF Clients
<1> QED BY <1>1, <1>2

\* A server is saved.
LEMMA SaveTyped ==
    ASSUME Typed, at = "publish", NEW id \in ToSet(Own), Save(id)
    PROVE  /\ row' \in Documents
           /\ \A i \in Ids : i # id => row'[i] = row[i]
           /\ id \in ToSet(Targets) => Masks(row'[id]) /\ row'[id] # None
           /\ id \in Ids
<1>1. id \in Ids /\ prev[id] \in Doc \cup {None} /\ row[id] \in Doc \cup {None} /\ kind \in Kinds
  BY OwnIds DEF Typed, Data, Documents
<1>2. /\ kind \in TunesTargets /\ id \in ToSet(Targets) => prev[id] # None
      /\ kind = "bunny" /\ id \in ToSet(Retired) => prev[id] # None
  BY DEF Typed, Reads, Read
<1>3. PICK doc : doc = Document(id, prev[id])
  OBVIOUS
<1>4. doc \in Doc \cup {None} /\ (id \in ToSet(Targets) => Masks(doc))
  BY <1>1, <1>2, <1>3, DocumentTyped
<1>5. PICK merged : merged = Merge(row[id], doc)
  OBVIOUS
<1>6. merged \in Doc \cup {None} /\ (Masks(doc) => Masks(merged)) /\ (Masks(merged) => merged # None)
  BY <1>1, <1>4, <1>5, MergeTyped, NoneAssumption DEF Masks
<1>7. row' = [row EXCEPT ![id] = merged]
  BY <1>3, <1>5 DEF Save
<1> QED BY <1>1, <1>4, <1>6, <1>7 DEF Typed, Data, Documents

\* The stages before a list is changed.
LEMMA PreparingTyped ==
    ASSUME Typed, OldBody \/ Backup \/ Publish \/ Published \/ Preview
    PROVE  Typed'
<1>1. CASE OldBody
  <2>1. /\ UNCHANGED <<kind, row, prev, user, seen, listed, file, published, applied>>
        /\ at = "bodies" /\ left # <<>> /\ at' = at /\ left' = Tail(left) /\ Caching(Head(left), Then(Head(left)))
    BY <1>1 DEF OldBody, NextOne, progress, foreign
  <2>2. Own' = Own /\ Seen' = Seen
    BY <2>1, KindStays DEF Seen
  <2>3. Head(left) \in Seen /\ Tail(left) \in Seq(Seen)
    BY <2>1, HeadTail DEF Typed, Course, OfSeen
  <2>4. cache' \in Bodies
    BY <2>1, <2>3, WantedTyped, CachingTyped DEF Typed
  <2>5. Data' /\ Course'
    BY <2>1, <2>2, <2>3, <2>4 DEF Typed, Data, Course, Idle, OfServers, OfSeen, Undoing
  <2> QED BY <2>1, <2>5, ReadsStay DEF Typed, Unread
<1>2. CASE Backup
  <2>1. /\ UNCHANGED <<kind, row, prev, user, seen, listed, file, cache, applied>>
        /\ published' \in {ToSet(Own), published}
        /\ at = "backup" /\ at' = "publish" /\ left' = Own
    BY <1>2 DEF Backup, Goto, script, foreign
  <2>2. Own' = Own /\ Seen' = Seen /\ Own \in Seq(ToSet(Own))
    BY <2>1, KindStays, OwnIds DEF Seen
  <2>3. Data' /\ Course'
    BY <2>1, <2>2 DEF Typed, Data, Course, Idle, OfServers, OfSeen, Undoing
  <2> QED BY <2>1, <2>3, ReadsStay DEF Typed, Unread
<1>3. CASE Publish
  <2>1. /\ UNCHANGED <<kind, prev, user, seen, listed, file, cache, applied>>
        /\ published' \in {published \cup {Head(left)}, published}
        /\ at = "publish" /\ left # <<>> /\ at' = at /\ left' = Tail(left) /\ Save(Head(left))
    BY <1>3 DEF Publish, NextOne, script, foreign
  <2>2. Own' = Own /\ Seen' = Seen
    BY <2>1, KindStays DEF Seen
  <2>3. Head(left) \in ToSet(Own) /\ Tail(left) \in Seq(ToSet(Own))
    BY <2>1, HeadTail DEF Typed, Course, OfServers
  <2>4. row' \in Documents
    BY <2>1, <2>3, SaveTyped
  <2>5. Data' /\ Course'
    BY <2>1, <2>2, <2>3, <2>4 DEF Typed, Data, Course, Idle, OfServers, OfSeen, Undoing
  <2> QED BY <2>1, <2>5, ReadsStay DEF Typed, Unread
<1>4. CASE Published
  <2>1. /\ UNCHANGED <<kind, row, prev, user, seen, listed, file, applied>>
        /\ published' = ToSet(Own) /\ cache' \in {[u \in Users |-> None], cache}
        /\ at = "publish"
        /\ \/ kind = "edge" /\ at' = "apply" /\ left' = ToPatch
           \/ kind # "edge" /\ at' = "preview" /\ left' = Listing(seen)
    BY <1>4 DEF Published, Goto, script, foreign
  <2>2. Own' = Own /\ Seen' = Seen
    BY <2>1, KindStays DEF Seen
  <2>3. ToPatch \in Seq(Seen) /\ Listing(seen) \in Seq(Seen)
    BY ListingTyped, ToPatchTyped DEF Seen
  <2>4. cache' \in Bodies
    BY <2>1 DEF Typed, Data, Bodies
  <2>5. Data' /\ Course'
    BY <2>1, <2>2, <2>3, <2>4 DEF Typed, Data, Course, Idle, OfServers, OfSeen, Undoing
  <2> QED BY <2>1, <2>5, ReadsStay DEF Typed, Unread
<1>5. CASE Preview
  <2>1. /\ UNCHANGED <<kind, row, prev, user, seen, listed, file, published, applied>>
        /\ at = "preview" /\ left # <<>> /\ at' = at /\ left' = Tail(left) /\ Caching(Head(left), Wanted(Head(left)))
    BY <1>5 DEF Preview, NextOne, script, foreign
  <2>2. Own' = Own /\ Seen' = Seen
    BY <2>1, KindStays DEF Seen
  <2>3. Head(left) \in Seen /\ Tail(left) \in Seq(Seen)
    BY <2>1, HeadTail DEF Typed, Course, OfSeen
  <2>4. cache' \in Bodies
    BY <2>1, <2>3, WantedTyped, CachingTyped DEF Typed
  <2>5. Data' /\ Course'
    BY <2>1, <2>2, <2>3, <2>4 DEF Typed, Data, Course, Idle, OfServers, OfSeen, Undoing
  <2> QED BY <2>1, <2>5, ReadsStay DEF Typed, Unread
<1> QED BY <1>1, <1>2, <1>3, <1>4, <1>5

\* The stages that change lists and files.
LEMMA ApplyingTyped ==
    ASSUME Typed, Apply \/ ApplyFile \/ Applied \/ StoreFile
    PROVE  Typed'
<1>1. CASE Apply
  <2>1. /\ UNCHANGED <<kind, row, prev, seen, listed, file, cache, published>>
        /\ at = "apply" /\ left # <<>> /\ applied' = Append(applied, Head(left))
        /\ Write(Head(left), After(seen[Head(left)].list))
        /\ \/ at' = "apply file" /\ left' = left
           \/ at' = "apply" /\ left' = Tail(left)
    BY <1>1 DEF Apply, NextOne, script, foreign
  <2>2. Own' = Own /\ Seen' = Seen
    BY <2>1, KindStays DEF Seen
  <2>3. left \in Seq(Seen) /\ Head(left) \in Seen /\ Tail(left) \in Seq(Seen)
    BY <2>1, HeadTail DEF Typed, Course, OfSeen
  <2>4. user' \in Clients
    BY <2>1, <2>3, WantedTyped, WriteTyped DEF Typed, Data
  <2>5. applied' \in Seq(Seen)
    <3>1. applied \in Seq(Seen)
      BY DEF Typed, Data
    <3>2. PICK u : u = Head(left)
      OBVIOUS
    <3>3. Append(applied, u) \in Seq(Seen)
      BY <2>3, <3>1, <3>2
    <3> QED BY <2>1, <3>2, <3>3
  <2>6. Data' /\ Course'
    BY <2>1, <2>2, <2>3, <2>4, <2>5 DEF Typed, Data, Course, Idle, OfServers, OfSeen, Undoing
  <2> QED BY <2>1, <2>6, ReadsStay DEF Typed, Unread
<1>2. CASE ApplyFile
  <2>1. /\ UNCHANGED <<kind, row, prev, user, seen, listed, published, applied>>
        /\ at = "apply file" /\ Store(Head(left), Wanted(Head(left)))
        /\ at' = "apply" /\ left' = Tail(left)
    BY <1>2 DEF ApplyFile, Goto, script, progress, foreign
  <2>2. Own' = Own /\ Seen' = Seen
    BY <2>1, KindStays DEF Seen
  <2>3. Head(left) \in Seen /\ Tail(left) \in Seq(Seen)
    BY <2>1, HeadTail DEF Typed, Course, OfSeen
  <2>4. cache' \in Bodies /\ file' \in Bodies
    BY <2>1, <2>3, WantedTyped, StoreTyped DEF Typed
  <2>5. Data' /\ Course'
    BY <2>1, <2>2, <2>3, <2>4 DEF Typed, Data, Course, Idle, OfServers, OfSeen, Undoing
  <2> QED BY <2>1, <2>5, ReadsStay DEF Typed, Unread
<1>3. CASE Applied
  <2>1. /\ UNCHANGED <<kind, row, prev, user, seen, file, published, applied>>
        /\ at = "apply" /\ at' = "files"
        /\ \/ kind = "edge" /\ listed' = [u \in Users |-> user[u]] /\ left' = Listing(user)
           \/ kind # "edge" /\ listed' = listed /\ left' \in {<<>>, Listing(seen)}
        /\ cache' \in {[u \in Users |-> None], cache}
    BY <1>3 DEF Applied, Goto, script, progress, foreign
  <2>2. Own' = Own /\ Seen' = Seen
    BY <2>1, KindStays DEF Seen
  <2>3. Listing(seen) \in Seq(Seen) /\ <<>> \in Seq(Seen)
    BY ListingTyped DEF Seen
  <2>4. listed' \in Clients /\ cache' \in Bodies
    BY <2>1 DEF Typed, Data, Clients, Bodies
  <2>5. kind = "edge" => left' \in Seq(Listed')
    <3>1. Listing(user) \in Seq({u \in Users : user[u] # None})
      BY ListingTyped
    <3>2. kind = "edge" => Listed' = {u \in Users : user[u] # None}
      BY <2>1 DEF Listed
    <3> QED BY <2>1, <3>1, <3>2
  <2>6. Data' /\ Course'
    BY <2>1, <2>2, <2>3, <2>4, <2>5 DEF Typed, Data, Course, Idle, OfServers, OfSeen, Undoing
  <2> QED BY <2>1, <2>6, ReadsStay DEF Typed, Unread
<1>4. CASE StoreFile
  <2>1. /\ UNCHANGED <<kind, row, prev, user, seen, listed, published, applied>>
        /\ at = "files" /\ left # <<>> /\ at' = at /\ left' = Tail(left)
        /\ Store(Head(left), IF kind = "edge" THEN listed[Head(left)] ELSE Wanted(Head(left)))
    BY <1>4 DEF StoreFile, NextOne, script, progress, foreign
  <2>2. Own' = Own /\ Seen' = Seen /\ Listed' = Listed
    BY <2>1, KindStays DEF Seen, Listed
  <2>3. /\ Head(left) \in IF kind = "edge" THEN Listed ELSE Seen
        /\ Tail(left) \in Seq(IF kind = "edge" THEN Listed ELSE Seen)
    BY <2>1, HeadTail DEF Typed, Course
  <2>4. Head(left) \in Users /\ (IF kind = "edge" THEN listed[Head(left)] ELSE Wanted(Head(left))) \in User
    BY <2>3, WantedTyped DEF Typed, Data, Clients, Listed
  <2>5. cache' \in Bodies /\ file' \in Bodies
    BY <2>1, <2>4, StoreTyped DEF Typed
  <2>6. Data' /\ Course'
    BY <2>1, <2>2, <2>3, <2>5 DEF Typed, Data, Course, Idle, OfServers, OfSeen, Undoing
  <2> QED BY <2>1, <2>6, ReadsStay DEF Typed, Unread
<1> QED BY <1>1, <1>2, <1>3, <1>4

\* The stages that verify, and those that undo.
LEMMA FilesStoredTyped ==
    ASSUME Typed, FilesStored
    PROVE  Typed'
<1>1. /\ UNCHANGED <<kind, row, prev, user, seen, file, published, applied>> /\ at = "files"
      /\ \/ at' = "ok" /\ left' = <<>> /\ UNCHANGED <<listed, cache>>
         \/ /\ kind = "edge" /\ at' = "verify" /\ listed' = listed /\ cache' = [u \in Users |-> None]
            /\ left' = Keep(Listing(listed), {u \in Users : listed[u] # None /\ listed[u].active})
         \/ at' = "verify" /\ listed' = Selected /\ left' = Listing(Selected) /\ cache' = cache
  BY DEF FilesStored, Goto, progress
<1>2. Own' = Own /\ Seen' = Seen
  BY <1>1, KindStays DEF Seen
<1>3. listed' \in Clients /\ cache' \in Bodies
  BY <1>1 DEF Typed, Data, Clients, Bodies, Selected
<1>4. at' = "verify" => left' \in Seq(Listed')
  <2>1. Listing(Selected) \in Seq({u \in Users : Selected[u] # None})
    BY ListingTyped
  <2>2. Keep(Listing(listed), {u \in Users : listed[u] # None /\ listed[u].active}) \in Seq(Listed)
    BY ListingTyped, KeptElements DEF Listed
  <2> QED BY <1>1, <2>1, <2>2 DEF Listed
<1>5. Data' /\ Course'
  BY <1>1, <1>2, <1>3, <1>4 DEF Typed, Data, Course, Idle, OfServers, OfSeen, Undoing
<1> QED BY <1>1, <1>5, ReadsStay DEF Typed, Unread

\* A verification reads, and may end the run.
LEMMA VerifyTyped ==
    ASSUME Typed, Verify
    PROVE  Typed'
<1>1. /\ UNCHANGED <<kind, row, prev, user, seen, listed, file, published, applied>>
      /\ at = "verify" /\ left # <<>>
      /\ \/ at' = "died" /\ left' = <<>> /\ cache' = cache
         \/ /\ at' = at /\ left' = Tail(left)
            /\ kind = "edge" => user[Head(left)] # None
            /\ Caching(Head(left), IF kind = "edge" THEN user[Head(left)] ELSE listed[Head(left)])
  BY DEF Verify, NextOne, Goto, script, foreign
<1>2. Own' = Own /\ Seen' = Seen /\ Listed' = Listed
  BY <1>1, KindStays DEF Seen, Listed
<1>3. Head(left) \in Listed /\ Tail(left) \in Seq(Listed)
  BY <1>1, HeadTail DEF Typed, Course
<1>4. cache' \in Bodies
  <2>1. CASE cache' = cache
    BY <2>1 DEF Typed, Data
  <2>2. CASE cache' # cache
    <3>1. PICK doc : doc = IF kind = "edge" THEN user[Head(left)] ELSE listed[Head(left)]
      OBVIOUS
    <3>2. doc \in User /\ Head(left) \in Users
      BY <1>1, <1>3, <2>2, <3>1 DEF Listed, Typed, Data, Clients
    <3> QED BY <1>1, <2>2, <3>1, <3>2, CachingTyped DEF Typed
  <2> QED BY <2>1, <2>2
<1>5. Data' /\ Course'
  BY <1>1, <1>2, <1>3, <1>4 DEF Typed, Data, Course, Idle, OfServers, OfSeen, Undoing
<1> QED BY <1>1, <1>5, ReadsStay DEF Typed, Unread

\* A rollback writes what was listed.
LEMMA UndoingTyped ==
    ASSUME Typed, UndoList \/ UndoFile \/ UndoServer
    PROVE  Typed'
<1>1. CASE UndoList
  <2>1. /\ UNCHANGED <<kind, row, prev, seen, listed, file, cache, published, applied>>
        /\ at = "undo list" /\ left # <<>> /\ at' = "undo file" /\ left' = left
        /\ Write(Head(left), seen[Head(left)].list)
    BY <1>1 DEF UndoList, script, progress, foreign
  <2>2. Own' = Own /\ Seen' = Seen
    BY <2>1, KindStays DEF Seen
  <2>3. left \in Seq(Seen) /\ Head(left) \in Seen
    BY <2>1, HeadTail DEF Typed, Course, OfSeen
  <2>4. user' \in Clients
    BY <2>1, <2>3, WantedTyped, WriteTyped DEF Typed, Data
  <2>5. Data' /\ Course'
    BY <2>1, <2>2, <2>3, <2>4 DEF Typed, Data, Course, Idle, OfServers, OfSeen, Undoing
  <2> QED BY <2>1, <2>5, ReadsStay DEF Typed, Unread
<1>2. CASE UndoFile
  <2>1. /\ UNCHANGED <<kind, row, prev, user, seen, listed, published, applied>>
        /\ at = "undo file" /\ left # <<>> /\ Store(Head(left), Then(Head(left)))
        /\ at' = (IF kind = "mask" THEN at ELSE "undo list") /\ left' = Tail(left)
    BY <1>2 DEF UndoFile, script, progress, foreign
  <2>2. Own' = Own /\ Seen' = Seen
    BY <2>1, KindStays DEF Seen
  <2>3. Tail(left) \in Seq(Seen) /\ Head(left) \in Seen
    BY <2>1, HeadTail DEF Typed, Course, OfSeen
  <2>4. cache' \in Bodies /\ file' \in Bodies
    BY <2>1, <2>3, WantedTyped, StoreTyped DEF Typed
  <2>5. Data' /\ Course'
    BY <2>1, <2>2, <2>3, <2>4 DEF Typed, Data, Course, Idle, OfServers, OfSeen, Undoing
  <2> QED BY <2>1, <2>5, ReadsStay DEF Typed, Unread
<1>3. CASE UndoServer
  <2>1. /\ UNCHANGED <<kind, prev, user, seen, listed, file, cache, published, applied>>
        /\ at = "undo server" /\ left # <<>> /\ at' = at /\ left' = Tail(left)
    BY <1>3 DEF UndoServer, NextOne, script, progress, foreign
  <2>2. Own' = Own /\ Seen' = Seen
    BY <2>1, KindStays DEF Seen
  <2>3. PICK id : id = Head(left)
    OBVIOUS
  <2>4. Tail(left) \in Seq(ToSet(Own)) /\ id \in Ids
    BY <2>1, <2>3, HeadTail, OwnIds DEF Typed, Course, OfServers
  <2>5. Merge(row[id], prev[id]) \in Doc \cup {None}
    BY <2>4, MergeTyped DEF Typed, Data, Documents
  <2>6. \/ row' = [row EXCEPT ![id] = Merge(row[id], prev[id])]
        \/ row' = [row EXCEPT ![id] = None]
        \/ row' = row
    BY <1>3, <2>3 DEF UndoServer
  <2>7. row' \in Documents
    BY <2>4, <2>5, <2>6 DEF Typed, Data, Documents
  <2>8. Data' /\ Course'
    BY <2>1, <2>2, <2>4, <2>7 DEF Typed, Data, Course, Idle, OfServers, OfSeen, Undoing
  <2> QED BY <2>1, <2>8, ReadsStay DEF Typed, Unread
<1> QED BY <1>1, <1>2, <1>3

\* A write whose answer is lost is a write.
LEMMA FailsLateTyped ==
    ASSUME Typed, FailsLate
    PROVE  Typed'
<1>1. /\ UNCHANGED <<kind, prev, seen, listed, file, cache, published, applied>>
      /\ left # <<>> /\ at \in {"publish", "apply"} /\ Rollback
      /\ \/ at = "publish" /\ Save(Head(left)) /\ user' = user
         \/ at = "apply" /\ Write(Head(left), After(seen[Head(left)].list)) /\ row' = row
  BY DEF FailsLate, script, progress, foreign
<1>2. Own' = Own /\ Seen' = Seen
  BY <1>1, KindStays DEF Seen
<1>3. row' \in Documents
  <2>1. CASE at = "publish"
    <3>1. Head(left) \in ToSet(Own)
      BY <1>1, <2>1, HeadTail DEF Typed, Course, OfServers
    <3> QED BY <1>1, <2>1, <3>1, SaveTyped
  <2>2. CASE at # "publish"
    BY <1>1, <2>2 DEF Typed, Data
  <2> QED BY <2>1, <2>2
<1>4. user' \in Clients
  <2>1. CASE at = "apply"
    <3>1. Head(left) \in Seen
      BY <1>1, <2>1, HeadTail DEF Typed, Course, OfSeen
    <3> QED BY <1>1, <2>1, <3>1, WantedTyped, WriteTyped DEF Typed, Data
  <2>2. CASE at # "apply"
    BY <1>1, <2>2 DEF Typed, Data
  <2> QED BY <2>1, <2>2
<1>5. Data'
  BY <1>1, <1>2, <1>3, <1>4 DEF Typed, Data
<1>6. \/ at' = "died" /\ left' = <<>>
      \/ kind # "edge" /\ kind # "mask" /\ at' = "undo list" /\ left' \in Seq(Seen)
      \/ kind # "edge" /\ at' = "undo server" /\ left' \in Seq(ToSet(Own))
  BY <1>1, RollbackBegins DEF Typed, UsersBackFirst
<1>7. Course'
  BY <1>1, <1>2, <1>6 DEF Course, Idle, OfServers, OfSeen, Undoing
<1> QED BY <1>1, <1>5, <1>7, ReadsStay DEF Typed, Unread

\* What the panel does leaves the script where it is.
LEMMA PanelTyped ==
    ASSUME Typed,
           UNCHANGED <<kind, prev, seen, listed, published, applied, at, left>>,
           row' \in Documents, user' \in Clients, file' \in Bodies, cache' \in Bodies
    PROVE  Typed'
<1>1. Own' = Own /\ Seen' = Seen /\ Listed' = Listed
  BY KindStays DEF Seen, Listed
<1>2. Data' /\ Course'
  BY <1>1 DEF Typed, Data, Course
<1> QED BY <1>2, ReadsStay DEF Typed

\* The list of a client that the panel creates.
LEMMA DefaultsTyped ==
    Defaults \in Seq(Ids) /\ ToSet(Defaults) \subseteq Live
<1>1. Keep(Own, Live) \in Seq(Ids) /\ ToSet(Keep(Own, Live)) \subseteq Live
  BY OwnIds, KeptElements
<1>2. <<>> \in Seq(Ids) /\ ToSet(<<>>) = {}
  BY SetOfEmpty
<1> QED BY <1>1, <1>2 DEF Defaults

\* Steps of the panel.
LEMMA PanelStepTyped ==
    ASSUME Typed,
           \/ \E u \in Users : Expire(u) \/ Refresh(u) \/ EditUser(u) \/ CreateUser(u) \/ DeleteUser(u)
           \/ \E id \in Ids : EditServer(id)
    PROVE  Typed'
<1>1. Data
  BY DEF Typed
<1>2. ASSUME NEW u \in Users, Expire(u) PROVE Typed'
  <2>1. UNCHANGED <<kind, prev, seen, listed, published, applied, at, left, row, user, file>>
    BY <1>2 DEF Expire, script, progress, foreign
  <2>2. cache' \in Bodies
    BY <1>1, <1>2 DEF Expire, Data, Bodies
  <2> QED BY <1>1, <2>1, <2>2, PanelTyped DEF Data
<1>3. ASSUME NEW u \in Users, Refresh(u) PROVE Typed'
  <2>1. UNCHANGED <<kind, prev, seen, listed, published, applied, at, left, row, user, cache>>
    BY <1>3 DEF Refresh, script, progress, foreign
  <2>2. FileOf(user[u]) \in Seq(Line)
    BY <1>1, <1>3, FilesTyped DEF Refresh, Data, Clients, Bodies
  <2>3. file' \in Bodies
    BY <1>1, <1>3, <2>2 DEF Refresh, Data, Bodies
  <2> QED BY <1>1, <2>1, <2>3, PanelTyped DEF Data
<1>4. ASSUME NEW u \in Users, EditUser(u) PROVE Typed'
  <2>1. UNCHANGED <<kind, prev, seen, listed, published, applied, at, left, row, file, cache>>
    BY <1>4 DEF EditUser, Panel, script, progress
  <2>2. user[u] \in User /\ user \in Clients
    BY <1>1, <1>4 DEF EditUser, Data, Clients
  <2>3. user' \in Clients
    <3>1. ASSUME NEW list \in AdminLists, user' = [user EXCEPT ![u].list = list] PROVE user' \in Clients
      <4>1. list \in Seq(Ids)
        BY <3>1, ListsAssumption
      <4>2. PICK doc : doc = [user[u] EXCEPT !.list = list]
        OBVIOUS
      <4>3. doc \in User
        BY <2>2, <4>1, <4>2 DEF User
      <4>4. user' = [user EXCEPT ![u] = doc]
        BY <3>1, <4>2
      <4> QED BY <2>2, <4>3, <4>4 DEF Clients
    <3>2. ASSUME user' = [user EXCEPT ![u].active = ~@] PROVE user' \in Clients
      <4>1. PICK doc : doc = [user[u] EXCEPT !.active = ~@]
        OBVIOUS
      <4>2. doc \in User
        BY <2>2, <4>1 DEF User
      <4>3. user' = [user EXCEPT ![u] = doc]
        BY <3>2, <4>1
      <4> QED BY <2>2, <4>2, <4>3 DEF Clients
    <3> QED BY <1>4, <3>1, <3>2 DEF EditUser
  <2> QED BY <1>1, <2>1, <2>3, PanelTyped DEF Data
<1>5. ASSUME NEW u \in Users, CreateUser(u) PROVE Typed'
  <2>1. /\ UNCHANGED <<kind, prev, seen, listed, published, applied, at, left, row, cache>>
        /\ user' = [user EXCEPT ![u] = [active |-> TRUE, custom |-> FALSE, list |-> Defaults]]
        /\ file' = [file EXCEPT ![u] = Body(Defaults)]
    BY <1>5 DEF CreateUser, Panel, script, progress
  <2>2. Defaults \in Seq(Ids) /\ Body(Defaults) \in Seq(Line)
    BY <1>1, DefaultsTyped, BodyLines DEF Data
  <2>3. [active |-> TRUE, custom |-> FALSE, list |-> Defaults] \in User
    BY <2>2 DEF User
  <2>4. user' \in Clients /\ file' \in Bodies
    BY <1>1, <2>1, <2>2, <2>3 DEF Data, Clients, Bodies
  <2> QED BY <1>1, <2>1, <2>4, PanelTyped DEF Data
<1>6. ASSUME NEW u \in Users, DeleteUser(u) PROVE Typed'
  <2>1. /\ UNCHANGED <<kind, prev, seen, listed, published, applied, at, left, row, cache>>
        /\ user' = [user EXCEPT ![u] = None] /\ file' = [file EXCEPT ![u] = None]
    BY <1>6 DEF DeleteUser, Panel, script, progress
  <2>2. user' \in Clients /\ file' \in Bodies
    BY <1>1, <2>1 DEF Data, Clients, Bodies
  <2> QED BY <1>1, <2>1, <2>2, PanelTyped DEF Data
<1>7. ASSUME NEW id \in Ids, EditServer(id) PROVE Typed'
  <2>1. UNCHANGED <<kind, prev, seen, listed, published, applied, at, left, user, file, cache>>
    BY <1>7 DEF EditServer, Panel, script, progress
  <2>2. row[id] \in Doc /\ row \in Documents
    BY <1>1, <1>7 DEF EditServer, Data, Documents
  <2>3. row' \in Documents
    <3>1. ASSUME row' = [row EXCEPT ![id].enabled = ~@] PROVE row' \in Documents
      <4>1. PICK doc : doc = [row[id] EXCEPT !.enabled = ~@]
        OBVIOUS
      <4>2. doc \in Doc
        BY <2>2, <4>1 DEF Doc
      <4>3. row' = [row EXCEPT ![id] = doc]
        BY <3>1, <4>1
      <4> QED BY <2>2, <4>2, <4>3 DEF Documents
    <3>2. ASSUME row' = [row EXCEPT ![id] = None] PROVE row' \in Documents
      BY <2>2, <3>2 DEF Documents
    <3> QED BY <1>7, <3>1, <3>2 DEF EditServer
  <2> QED BY <1>1, <2>1, <2>3, PanelTyped DEF Data
<1> QED BY <1>2, <1>3, <1>4, <1>5, <1>6, <1>7

\* Every step keeps the types.
LEMMA TypedStep ==
    ASSUME Typed, [Next]_vars
    PROVE  Typed'
<1>1. CASE UNCHANGED vars
  <2>1. UNCHANGED <<kind, row, prev, user, seen, listed, file, cache, published, applied, at, left>>
    BY <1>1 DEF vars, script, progress, foreign
  <2> QED BY <2>1, PanelTyped DEF Typed, Data
<1>2. CASE Step
  BY <1>2, ListUsersTyped, ReadServerTyped, GoingOnTyped, PreparingTyped, ApplyingTyped, FilesStoredTyped,
     VerifyTyped, UndoingTyped DEF Step
<1>3. CASE Fails \/ FailsLate \/ UndoFails \/ Killed
  BY <1>3, FailingTyped, FailsLateTyped
<1> QED BY <1>1, <1>2, <1>3, PanelStepTyped DEF Next

\* Rows, clients, files and what a script still has to do are always
\* servers, clients and lists of them.
THEOREM TypeCorrect == Spec => []TypeOK
<1>1. ASSUME Typed PROVE TypeOK
  <2>1. kind \in Kinds /\ row \in [Ids -> Doc \cup {None}] /\ file \in [Users -> Seq(Line) \cup {None}]
    BY <1>1 DEF Typed, Data, Documents, Bodies
  <2>2. /\ user \in [Users -> User \cup {None}] /\ seen \in [Users -> User \cup {None}]
        /\ listed \in [Users -> User \cup {None}] /\ published \subseteq ToSet(Own)
    BY <1>1 DEF Typed, Data, Clients
  <2>3. Seen \subseteq Users /\ Listed \subseteq Users /\ ToSet(Own) \subseteq Ids
    BY OwnIds DEF Seen, Listed
  <2>4. applied \in Seq(Users)
    <3>1. applied \in Seq(Seen)
      BY <1>1 DEF Typed, Data
    <3> QED BY <2>3, <3>1
  <2>5. left \in Seq(Users) \cup Seq(Ids)
    <3>1. <<>> \in Seq(Ids)
      OBVIOUS
    <3>2. CASE at \in OfServers
      <4>1. left \in Seq(ToSet(Own))
        BY <1>1, <3>2 DEF Typed, Course
      <4> QED BY <2>3, <4>1
    <3>3. CASE at \in OfSeen
      <4>1. left \in Seq(Seen)
        BY <1>1, <3>3 DEF Typed, Course
      <4> QED BY <2>3, <4>1
    <3>4. CASE at = "verify"
      BY <1>1, <2>3, <3>4 DEF Typed, Course
    <3>5. CASE at = "files"
      <4>1. left \in Seq(Listed) \/ left \in Seq(Seen)
        BY <1>1, <3>5 DEF Typed, Course
      <4> QED BY <2>3, <4>1
    <3> QED BY <1>1, <3>1, <3>2, <3>3, <3>4, <3>5 DEF Typed, Course
  <2> QED BY <2>1, <2>2, <2>4, <2>5 DEF TypeOK
<1> QED BY <1>1, TypedInit, TypedStep, PTL DEF Spec

-----------------------------------------------------------------------------
(* Lists, rows and the backup *)

\* A client nobody else has changed whose list is not the one the script read.
Changed(u) == u \in Seen \ edited /\ user[u].list # seen[u].list

\* The list a client had when the script read it, or has when it did not.
Original(u) == IF seen[u] = None THEN user[u].list ELSE seen[u].list

\* Targets in a list have rows.
Rowed(list) == \A id \in (ToSet(list) \cap ToSet(Targets)) \ edited : row[id] # None
TargetsRowed == \A id \in ToSet(Targets) \ edited : row[id] # None

\* The stages that change no list.
Still == Early \cup {"publish", "preview", "refused"}
Changing == {"apply", "apply file", "files", "verify"}

\* Where the script still knows of a client it has changed.
Placed(u) ==
    /\ at \in Changing => u \in ToSet(applied)
    /\ at = "undo server" => u \in ToSet(applied) /\ kind \notin UsersBackFirst
    /\ at = "undo list" => u \in ToSet(left)
    /\ at = "undo file" => u \in ToSet(Tail(left))
    /\ at # "rolled back"

Changes ==
    /\ \A u \in Seen \ edited : user[u] # None
    /\ at \in Still => \A u \in Users : ~Changed(u)
    /\ at \in Early => ~torn
    /\ kind = "mask" => \A u \in Users : ~Changed(u)
    /\ ~torn => \A u \in Users : Changed(u) => Placed(u)

Rows ==
    /\ ~torn => \A u \in Users \ edited : user[u] # None => Rowed(Original(u))
    /\ \A u \in Users \ edited : user[u] # None =>
         \A id \in (ToSet(Original(u)) \cap ToSet(Targets)) \ edited : Read(id)
    /\ at = "publish" => \A id \in ToSet(Targets) \ edited : id \in ToSet(left) \/ row[id] # None
    /\ at \in {"preview"} \cup Changing => TargetsRowed
    /\ ~torn /\ (\E u \in Users : Changed(u)) => TargetsRowed

Backups ==
    /\ backup # None => backup = [u \in Users |-> IF seen[u] = None THEN None ELSE seen[u].list]
    /\ backup = None => \A u \in Users : ~Changed(u)
    /\ at \notin Early \cup {"refused", "failed", "died"} => backup # None
    /\ at = "list" => backup = None /\ edited = {}

Safe == Typed /\ Changes /\ Rows /\ Backups

\* The invariant gives the three properties of a rollback.
LEMMA SafeImplies ==
    ASSUME Safe
    PROVE  RollbackRestoresLists /\ NoListNamesMissingServer /\ ChangedListsAreBackedUp
<1>1. RollbackRestoresLists
  BY DEF Safe, Changes, Placed, Changed, Seen, RollbackRestoresLists
<1>2. NoListNamesMissingServer
  <2> SUFFICES ASSUME ~torn, NEW u \in Users \ edited, user[u] # None,
                      NEW id \in (ToSet(user[u].list) \cap ToSet(Targets)) \ edited
               PROVE  row[id] # None
    BY DEF NoListNamesMissingServer
  <2>1. CASE Changed(u)
    BY <2>1 DEF Safe, Rows, TargetsRowed
  <2>2. CASE ~Changed(u)
    <3>1. Original(u) = user[u].list
      BY <2>2 DEF Original, Changed, Seen
    <3> QED BY <3>1 DEF Safe, Rows, Rowed
  <2> QED BY <2>1, <2>2
<1>3. ChangedListsAreBackedUp
  <2> SUFFICES ASSUME NEW u \in Users \ edited, seen[u] # None, user[u].list # seen[u].list
               PROVE  backup # None /\ backup[u] = seen[u].list
    BY DEF ChangedListsAreBackedUp
  <2>1. Changed(u)
    BY DEF Changed, Seen
  <2> QED BY <2>1 DEF Safe, Backups
<1> QED BY <1>1, <1>2, <1>3

\* It holds at the start.
LEMMA SafeInit ==
    ASSUME Init
    PROVE  Safe
<1>1. Typed
  BY TypedInit
<1>2. /\ at = "list" /\ edited = {} /\ torn = FALSE /\ backup = None /\ Seen = {}
      /\ \A u \in Users : seen[u] = None
      /\ \A u \in Users : user[u] # None => \A id \in ToSet(user[u].list) : row[id] # None
  BY DEF Init, Seen
<1>3. \A u \in Users : ~Changed(u)
  BY <1>2 DEF Changed
<1>4. Changes
  BY <1>2, <1>3 DEF Changes
<1>5. Rows
  BY <1>2, <1>3 DEF Rows, Rowed, Original, Read, Changing
<1>6. Backups
  BY <1>2, <1>3 DEF Backups, Early
<1> QED BY <1>1, <1>4, <1>5, <1>6 DEF Safe

\* Rows and clients may change that are somebody else's then.
OnlyForeign ==
    /\ UNCHANGED <<kind, seen>> /\ edited \subseteq edited' /\ (torn => torn')
    /\ \A u \in Users \ edited' : user'[u] = user[u]
    /\ \A id \in ToSet(Targets) \ edited' : row'[id] = row[id]

\* What others do beside the script makes no list its change.
LEMMA ForeignChanges ==
    ASSUME OnlyForeign
    PROVE  /\ Seen' = Seen
           /\ \A u \in Users : Changed(u)' => Changed(u)
           /\ \A u \in Users \ edited' : Original(u)' = Original(u)
           /\ TargetsRowed => TargetsRowed'
           /\ \A list : Rowed(list) => Rowed(list)'
<1>1. Seen' = Seen
  BY DEF OnlyForeign, Seen
<1>2. \A u \in Users : Changed(u)' => Changed(u)
  BY DEF OnlyForeign, Seen, Changed
<1>3. \A u \in Users \ edited' : Original(u)' = Original(u)
  BY DEF OnlyForeign, Original
<1>4. TargetsRowed => TargetsRowed'
  BY DEF OnlyForeign, TargetsRowed
<1>5. \A list : Rowed(list) => Rowed(list)'
  BY DEF OnlyForeign, Rowed
<1> QED BY <1>1, <1>2, <1>3, <1>4, <1>5

\* A step of nobody's lists keeps the lists changed among those noted.
LEMMA QuietChanges ==
    ASSUME Changes, OnlyForeign,
           at' \in Still => at \in Still,
           at' \in Early => at \in Early /\ torn' = torn,
           \A u \in Users : ~torn' /\ at \notin Still /\ kind # "mask" /\ Changed(u) /\ Placed(u) => Placed(u)'
    PROVE  Changes'
<1>1. /\ Seen' = Seen /\ kind' = kind
      /\ \A u \in Users : Changed(u)' => Changed(u)
      /\ \A u \in Users \ edited' : user'[u] = user[u]
      /\ edited \subseteq edited' /\ (torn => torn')
  BY ForeignChanges DEF OnlyForeign
<1>2. \A u \in Seen' \ edited' : user'[u] # None
  BY <1>1 DEF Changes, Seen
<1>3. at' \in Still => \A u \in Users : ~Changed(u)'
  BY <1>1 DEF Changes
<1>4. at' \in Early => ~torn'
  BY <1>1 DEF Changes
<1>5. kind' = "mask" => \A u \in Users : ~Changed(u)'
  BY <1>1 DEF Changes
<1>6. ~torn' => \A u \in Users : Changed(u)' => Placed(u)'
  <2> SUFFICES ASSUME ~torn', NEW u \in Users, Changed(u)' PROVE Placed(u)'
    OBVIOUS
  <2>1. Changed(u) /\ ~torn
    BY <1>1
  <2>2. at \notin Still /\ kind # "mask" /\ Placed(u)
    BY <2>1 DEF Changes
  <2> QED BY <2>1, <2>2
<1> QED BY <1>2, <1>3, <1>4, <1>5, <1>6 DEF Changes

\* A step that deletes no server keeps the servers that lists name.
LEMMA QuietRows ==
    ASSUME Rows, OnlyForeign,
           \A id \in ToSet(Targets) : Read(id) => Read(id)',
           at' \in {"preview"} \cup Changing => at \in {"preview"} \cup Changing \/ TargetsRowed,
           at' = "publish" => UNCHANGED <<at, left>> \/ ToSet(Targets) \subseteq ToSet(left'),
           \A u \in Users \ edited' : user'[u] # None => user[u] # None
    PROVE  Rows'
<1>1. /\ \A u \in Users : Changed(u)' => Changed(u)
      /\ \A u \in Users \ edited' : Original(u)' = Original(u)
      /\ TargetsRowed => TargetsRowed'
      /\ \A list : Rowed(list) => Rowed(list)'
      /\ edited \subseteq edited' /\ (torn => torn')
      /\ \A id \in ToSet(Targets) \ edited' : row'[id] = row[id]
  BY ForeignChanges DEF OnlyForeign
<1>2. ~torn' => \A u \in Users \ edited' : user'[u] # None => Rowed(Original(u))'
  <2> SUFFICES ASSUME ~torn', NEW u \in Users \ edited', user'[u] # None PROVE Rowed(Original(u))'
    OBVIOUS
  <2>1. PICK list : list = Original(u)
    OBVIOUS
  <2>2. Rowed(list)
    BY <1>1, <2>1 DEF Rows
  <2>3. Rowed(list)'
    BY <1>1, <2>2
  <2>4. list = Original(u)'
    BY <1>1, <2>1
  <2> QED BY <2>3, <2>4 DEF Rowed
<1>3. \A u \in Users \ edited' : user'[u] # None =>
         \A id \in (ToSet(Original(u)') \cap ToSet(Targets)) \ edited' : Read(id)'
  BY <1>1 DEF Rows
<1>4. at' = "publish" => \A id \in ToSet(Targets) \ edited' : id \in ToSet(left') \/ row'[id] # None
  BY <1>1 DEF Rows
<1>5. at' \in {"preview"} \cup Changing => TargetsRowed'
  BY <1>1 DEF Rows
<1>6. ~torn' /\ (\E u \in Users : Changed(u)') => TargetsRowed'
  BY <1>1 DEF Rows
<1> QED BY <1>2, <1>3, <1>4, <1>5, <1>6 DEF Rows

\* A step that leaves the backup alone keeps what it covers.
LEMMA QuietBackups ==
    ASSUME Backups, OnlyForeign, backup' = backup,
           at' = "list" => at = "list" /\ edited' = edited,
           at' \notin Early \cup {"refused", "failed", "died"} => at \notin Early \cup {"refused", "failed", "died"}
    PROVE  Backups'
<1>1. seen' = seen /\ \A u \in Users : Changed(u)' => Changed(u)
  BY ForeignChanges DEF OnlyForeign
<1>2. /\ backup' # None => backup' = [u \in Users |-> IF seen'[u] = None THEN None ELSE seen'[u].list]
      /\ backup' = None => \A u \in Users : ~Changed(u)'
      /\ at' \notin Early \cup {"refused", "failed", "died"} => backup' # None
      /\ at' = "list" => backup' = None /\ edited' = {}
  BY <1>1 DEF Backups
<1> QED BY <1>2 DEF Backups

\* The first listing.
LEMMA ListUsersSafe ==
    ASSUME Safe, ListUsers
    PROVE  Changes' /\ Rows' /\ Backups'
<1>1. /\ UNCHANGED <<kind, row, user, edited, torn, backup>> /\ seen' = Selected /\ at = "list"
      /\ \/ at' = "refused" /\ left' = <<>>
         \/ at' = "servers" /\ left' = Own
  BY DEF ListUsers, Goto, progress, foreign
<1>2. \A u \in Users : seen'[u] # None => seen'[u] = user[u]
  BY <1>1 DEF Selected
<1>3. \A u \in Users : ~Changed(u)'
  BY <1>1, <1>2 DEF Changed, Seen
<1>4. \A u \in Users : Original(u)' = user[u].list
  BY <1>1, <1>2 DEF Original
<1>5. \A u \in Users : user[u] # None => Original(u) = user[u].list
  <2>1. \A u \in Users : ~Changed(u)
    BY <1>1 DEF Safe, Changes, Still, Early
  <2> QED BY <1>1, <2>1 DEF Original, Changed, Seen, Safe, Backups
<1>6. \A id \in ToSet(Targets) : Read(id)'
  <2>1. ToSet(Targets) \subseteq ToSet(Own)
    BY OwnIds
  <2> QED BY <1>1, <2>1 DEF Read
<1>7. Changes'
  <2>1. ~torn
    BY <1>1 DEF Safe, Changes, Early
  <2>2. \A u \in Seen' : user'[u] # None
    BY <1>1, <1>2 DEF Seen
  <2> QED BY <1>1, <1>3, <2>1, <2>2 DEF Changes
<1>8. Rows'
  <2>1. ~torn => \A u \in Users \ edited' : user'[u] # None => Rowed(Original(u))'
    BY <1>1, <1>4, <1>5 DEF Safe, Rows, Rowed
  <2>2. \A u \in Users \ edited' : user'[u] # None =>
          \A id \in (ToSet(Original(u)') \cap ToSet(Targets)) \ edited' : Read(id)'
    BY <1>6
  <2> QED BY <1>1, <1>3, <2>1, <2>2 DEF Rows, Changing
<1>9. Backups'
  BY <1>1, <1>3 DEF Safe, Backups, Early
<1> QED BY <1>7, <1>8, <1>9

\* The steps that leave rows and clients alone.
LEMMA ReadingSafe ==
    ASSUME Safe, ReadServer \/ ServersRead \/ OldBody \/ BodiesBuilt \/ Backup
    PROVE  Changes' /\ Rows' /\ Backups'
<1>1. /\ UNCHANGED <<kind, row, user, seen, edited, torn>>
      /\ at \in {"servers", "bodies", "backup"}
      /\ at' \in {"servers", "bodies", "backup", "publish", "refused", "failed"}
      /\ at # "backup" => backup' = backup /\ at' # "publish"
      /\ at = "backup" => at' = "publish" /\ left' = Own /\ prev' = prev
                          /\ backup' = [u \in Users |-> IF seen[u] = None THEN None ELSE seen[u].list]
  BY DEF ReadServer, ServersRead, OldBody, BodiesBuilt, Backup, Goto, NextOne, script, progress, foreign
<1>2. OnlyForeign
  BY <1>1 DEF OnlyForeign
<1>3. \A u \in Users : ~Changed(u)
  BY <1>1 DEF Safe, Changes, Still, Early
<1>4. Changes'
  BY <1>1, <1>2, QuietChanges DEF Safe, Still, Early
<1>5. Rows'
  <2>1. CASE ReadServer
    <3>1. /\ at = "servers" /\ left # <<>> /\ prev' = [prev EXCEPT ![Head(left)] = row[Head(left)]]
          /\ (at' = "refused" \/ (at' = "servers" /\ left' = Tail(left)))
      BY <2>1 DEF ReadServer, Goto, NextOne
    <3>2. left \in Seq(ToSet(Own)) /\ ToSet(Own) \subseteq Ids
      BY <3>1, OwnIds DEF Safe, Typed, Course, OfServers
    <3>3. PICK id : id = Head(left)
      OBVIOUS
    <3>4. id \in Ids /\ ToSet(left) \subseteq ToSet(Tail(left)) \cup {id}
      BY <3>1, <3>2, <3>3, HeadTail
    <3>5. \A i \in Ids : prev'[i] = IF i = id THEN row[id] ELSE prev[i]
      BY <3>1, <3>3, <3>4 DEF Safe, Typed, Data, Documents
    <3>6. \A i \in Ids : Read(i) /\ row[i] # None => Read(i)'
      BY <3>1, <3>4, <3>5 DEF Read
    <3>7. ~torn /\ \A u \in Users : Original(u)' = Original(u)
      BY <1>1, <1>2, ForeignChanges DEF Safe, Changes, Early, Original
    <3>8. \A u \in Users \ edited : user[u] # None =>
            \A i \in (ToSet(Original(u)) \cap ToSet(Targets)) \ edited : Read(i) /\ row[i] # None
      BY <3>7 DEF Safe, Rows, Rowed
    <3>9. ToSet(Targets) \subseteq Ids
      BY DEF Ids
    <3>10. \A u \in Users \ edited' : user'[u] # None =>
            \A i \in (ToSet(Original(u)') \cap ToSet(Targets)) \ edited' : Read(i)'
      BY <1>1, <3>6, <3>7, <3>8, <3>9
    <3>11. ~torn' => \A u \in Users \ edited' : user'[u] # None => Rowed(Original(u))'
      BY <1>1, <3>7 DEF Safe, Rows, Rowed
    <3>12. \A u \in Users : ~Changed(u)'
      BY <1>2, <1>3, ForeignChanges
    <3> QED BY <3>1, <3>10, <3>11, <3>12 DEF Rows, Changing
  <2>2. CASE ~ReadServer
    <3>1. /\ prev' = prev
          /\ at = "servers" => left = <<>>
          /\ at' # "servers"
      BY <2>2 DEF ServersRead, OldBody, BodiesBuilt, Backup, Goto, NextOne, script
    <3>2. at = "servers" => ToSet(left) = {}
      BY <3>1, SetOfEmpty
    <3>3. \A id \in ToSet(Targets) : Read(id) => Read(id)'
      BY <1>1, <3>1, <3>2 DEF Read
    <3>4. ToSet(Targets) \subseteq ToSet(Own)
      BY OwnIds
    <3> QED BY <1>1, <1>2, <3>3, <3>4, QuietRows DEF Safe, Changing
  <2> QED BY <2>1, <2>2
<1>6. Backups'
  <2>1. CASE at = "backup"
    <3>1. backup' # None
      <4>1. backup' \in [Users -> Seq(Ids) \cup {None}]
        BY <1>1, <2>1, WantedTyped DEF Safe, Typed, Seen
      <4> QED BY <4>1, NoneAssumption
    <3> QED BY <1>1, <2>1, <3>1 DEF Backups
  <2>2. CASE at # "backup"
    BY <1>1, <1>2, <2>2, QuietBackups DEF Safe, Early
  <2> QED BY <2>1, <2>2
<1> QED BY <1>4, <1>5, <1>6

\* From publishing on every server has been read.
LEMMA ReadStays ==
    ASSUME prev' = prev, at \notin Unread \/ at' \in {"refused", "failed", "died"} \/ UNCHANGED <<at, left>>, NEW id
    PROVE  Read(id) => Read(id)'
BY DEF Read, Unread

\* A server is published: its row is there.
LEMMA PublishSafe ==
    ASSUME Safe, Publish
    PROVE  Changes' /\ Rows' /\ Backups'
<1>1. /\ UNCHANGED <<kind, prev, user, seen, edited, torn, backup>>
      /\ at = "publish" /\ at' = at /\ left # <<>> /\ left' = Tail(left) /\ Save(Head(left))
  BY DEF Publish, NextOne, script, foreign
<1>2. PICK id : id = Head(left)
  OBVIOUS
<1>3. id \in ToSet(Own) /\ ToSet(left) \subseteq ToSet(Tail(left)) \cup {id}
  <2>1. left \in Seq(ToSet(Own))
    BY <1>1 DEF Safe, Typed, Course, OfServers
  <2> QED BY <1>1, <1>2, <2>1, HeadTail
<1>4. /\ \A i \in Ids : i # id => row'[i] = row[i]
      /\ id \in ToSet(Targets) => row'[id] # None
  BY <1>1, <1>2, <1>3, SaveTyped DEF Safe
<1>5. \A i \in ToSet(Targets) : row[i] # None => row'[i] # None
  BY <1>4 DEF Ids
<1>6. \A u \in Users : ~Changed(u)
  BY <1>1 DEF Safe, Changes, Still
<1>7. \A u \in Users : (Changed(u)' <=> Changed(u)) /\ Original(u)' = Original(u)
  BY <1>1 DEF Changed, Seen, Original
<1>8. Changes'
  <2>1. Seen' = Seen
    BY <1>1 DEF Seen
  <2> QED BY <1>1, <1>6, <1>7, <2>1 DEF Safe, Changes, Still, Early
<1>9. Rows'
  <2>1. \A i \in ToSet(Targets) : Read(i) => Read(i)'
    BY <1>1, ReadStays DEF Unread
  <2>2. ~torn' => \A u \in Users \ edited' : user'[u] # None => Rowed(Original(u))'
    BY <1>1, <1>5, <1>7 DEF Safe, Rows, Rowed
  <2>3. \A u \in Users \ edited' : user'[u] # None =>
          \A i \in (ToSet(Original(u)') \cap ToSet(Targets)) \ edited' : Read(i)'
    BY <1>1, <1>7, <2>1 DEF Safe, Rows
  <2>4. \A i \in ToSet(Targets) \ edited' : i \in ToSet(left') \/ row'[i] # None
    BY <1>1, <1>2, <1>3, <1>4, <1>5 DEF Safe, Rows
  <2> QED BY <1>1, <1>6, <1>7, <2>2, <2>3, <2>4 DEF Rows, Changing
<1>10. Backups'
  BY <1>1, <1>6, <1>7 DEF Safe, Backups, Early
<1> QED BY <1>8, <1>9, <1>10

\* A rollback finds the clients it has to undo.
LEMMA RollbackPlaces ==
    ASSUME Safe, Rollback, UNCHANGED <<kind, applied>>, at \in {"publish", "preview"} \cup Changing
    PROVE  /\ at' \in {"died", "undo list", "undo server"}
           /\ \A u \in Users : ~torn /\ Changed(u) => Placed(u)'
<1>1. \/ kind = "edge" /\ at' = "died" /\ left' = <<>>
      \/ kind \in UsersBackFirst /\ at' = "undo list" /\ ToSet(left') = ToSet(applied)
      \/ kind \in {"bunny", "video", "mask"} /\ at' = "undo server"
  BY RollbackBegins DEF Safe, Typed
<1>2. \A u \in Users : ~torn /\ Changed(u) => u \in ToSet(applied)
  BY DEF Safe, Changes, Placed, Still
<1> QED BY <1>1, <1>2 DEF Placed, UsersBackFirst, Changing

\* The steps that go on to the next stage, with a failure or without one.
GoesOn ==
    /\ UNCHANGED <<kind, row, prev, user, seen, edited, backup, applied>> /\ (torn => torn')
    /\ at \notin Unread \cup Early \/ at' = "died"
    /\ at' \notin {"list", "servers", "bodies", "backup", "publish", "refused"}
    /\ at' = "preview" => at \in {"publish", "preview"}
    /\ at' \in {"preview"} \cup Changing => at \in {"preview"} \cup Changing \/ TargetsRowed
    /\ \A u \in Users : ~torn' /\ at \notin Still /\ kind # "mask" /\ Changed(u) /\ Placed(u) => Placed(u)'
    /\ at \in {"failed", "died"} => at' = "died"

\* A step that only goes on.
LEMMA GoesOnSafe ==
    ASSUME Safe, GoesOn
    PROVE  Changes' /\ Rows' /\ Backups'
<1>1. OnlyForeign
  BY DEF GoesOn, OnlyForeign
<1>2. Changes'
  BY <1>1, QuietChanges DEF Safe, GoesOn, Still, Early
<1>3. \A id \in ToSet(Targets) : Read(id) => Read(id)'
  BY ReadStays DEF GoesOn
<1>4. Rows'
  BY <1>1, <1>3, QuietRows DEF Safe, GoesOn
<1>5. Backups'
  BY <1>1, QuietBackups DEF Safe, GoesOn, Early, Unread
<1> QED BY <1>2, <1>4, <1>5

\* The stages that only go on: previews, reports, verification,
LEMMA StagesSafe ==
    ASSUME Safe, Published \/ Preview \/ Previewed \/ Verify \/ Verified
    PROVE  GoesOn
<1>1. UNCHANGED <<kind, row, prev, user, seen, edited, backup, applied, torn>>
  BY DEF Published, Preview, Previewed, Verify, Verified, script, progress, foreign
<1>2. \A u \in Users : ~torn /\ at \in Changing /\ at' \in Changing /\ Changed(u) /\ Placed(u) => Placed(u)'
  BY <1>1 DEF Placed, Changing
<1>3. CASE Published
  <2>1. at = "publish" /\ left = <<>> /\ at' \in {"apply", "preview"}
    BY <1>3 DEF Published, Goto
  <2>2. TargetsRowed
    BY <2>1, SetOfEmpty DEF Safe, Rows, TargetsRowed
  <2> QED BY <1>1, <2>1, <2>2 DEF GoesOn, Still, Early, Unread, Changing
<1>4. CASE Preview
  <2>1. at = "preview" /\ at' = at
    BY <1>4 DEF Preview, NextOne
  <2> QED BY <1>1, <2>1 DEF GoesOn, Still, Early, Unread, Changing
<1>5. CASE Previewed
  <2>1. at = "preview" /\ (Rollback \/ at' \in {"files", "apply"})
    BY <1>5 DEF Previewed, Goto
  <2>2. at' \in {"died", "undo list", "undo server", "files", "apply"}
    BY <1>1, <2>1, RollbackPlaces
  <2> QED BY <1>1, <2>1, <2>2 DEF GoesOn, Still, Early, Unread, Changing
<1>6. CASE Verify
  <2>1. at = "verify" /\ at' \in {"verify", "died"}
    BY <1>6 DEF Verify, NextOne, Goto
  <2> QED BY <1>1, <1>2, <2>1 DEF GoesOn, Still, Early, Unread, Changing, Placed
<1>7. CASE Verified
  <2>1. at = "verify" /\ (Rollback \/ at' \in {"failed", "ok"})
    BY <1>7 DEF Verified, Goto
  <2>2. CASE Rollback
    <3>1. at' \in {"died", "undo list", "undo server"} /\ \A u \in Users : ~torn /\ Changed(u) => Placed(u)'
      BY <1>1, <2>1, <2>2, RollbackPlaces DEF Changing
    <3> QED BY <1>1, <2>1, <3>1 DEF GoesOn, Still, Early, Unread, Changing
  <2>3. CASE at' \in {"failed", "ok"}
    BY <1>1, <2>1, <2>3 DEF GoesOn, Still, Early, Unread, Changing, Placed
  <2> QED BY <2>1, <2>2, <2>3
<1> QED BY <1>3, <1>4, <1>5, <1>6, <1>7

\* the files,
LEMMA FilesSafe ==
    ASSUME Safe, ApplyFile \/ Applied \/ StoreFile \/ FilesStored
    PROVE  GoesOn
<1>1. UNCHANGED <<kind, row, prev, user, seen, edited, backup, applied, torn>>
  BY DEF ApplyFile, Applied, StoreFile, FilesStored, script, progress, foreign
<1>2. at \in Changing /\ at' \in Changing \cup {"ok"}
  BY DEF ApplyFile, Applied, StoreFile, FilesStored, Changing, Goto, NextOne
<1> QED BY <1>1, <1>2 DEF GoesOn, Still, Early, Unread, Changing, Placed

\* the files put back and the end of a stage of the rollback,
LEMMA UndoneSafe ==
    ASSUME Safe, UndoFile \/ Undone
    PROVE  GoesOn
<1>1. UNCHANGED <<kind, row, prev, user, seen, edited, backup, applied, torn>>
  BY DEF UndoFile, Undone, script, progress, foreign
<1>2. CASE UndoFile
  <2>1. at = "undo file" /\ left' = Tail(left) /\ (kind # "mask" => at' = "undo list") /\ at' \in {"undo file", "undo list"}
    BY <1>2 DEF UndoFile
  <2>2. \A u \in Users : kind # "mask" /\ Placed(u) => Placed(u)'
    BY <1>1, <2>1 DEF Placed, Changing
  <2> QED BY <1>1, <2>1, <2>2 DEF GoesOn, Still, Early, Unread, Changing
<1>3. CASE Undone
  <2>1. /\ at \in {"undo list", "undo file", "undo server"} /\ left = <<>>
        /\ \/ at = "undo server" /\ kind \in {"bunny", "video"} /\ at' = "undo list" /\ left' = Reverse(applied)
           \/ at = "undo server" /\ kind = "mask" /\ at' = "undo file"
           \/ at = "undo list" /\ at' \in {"undo server", "rolled back"}
           \/ at = "undo file" /\ at' = "rolled back"
           \/ at = "undo server" /\ kind \notin {"bunny", "video", "mask"} /\ at' = "rolled back"
    BY <1>3 DEF Undone, Goto, UndoUsers, UndoServers
  <2>2. ToSet(Reverse(applied)) = ToSet(applied)
    BY SetOfReverse DEF Safe, Typed, Data
  <2>3. ToSet(left) = {}
    BY <2>1, SetOfEmpty
  <2>4. at = "undo file" => kind = "mask"
    BY <2>1 DEF Safe, Typed, Course
  <2>5. at = "undo server" /\ kind \notin {"bunny", "video", "mask"} => kind \in UsersBackFirst
    BY DEF Safe, Typed, Course, Data, Kinds, UsersBackFirst, Undoing
  <2>6. \A u \in Users : kind # "mask" /\ Placed(u) => Placed(u)'
    BY <1>1, <2>1, <2>2, <2>3, <2>4, <2>5 DEF Placed, Changing, UsersBackFirst
  <2> QED BY <1>1, <2>1, <2>6 DEF GoesOn, Still, Early, Unread, Changing
<1> QED BY <1>2, <1>3

\* and a failure.
LEMMA FailingSafe ==
    ASSUME Safe, Fails \/ UndoFails \/ Killed
    PROVE  GoesOn
<1>1. UNCHANGED <<kind, row, prev, user, seen, edited, backup, applied>> /\ (torn => torn')
  <2>1. UNCHANGED <<kind, row, prev, user, seen, edited, backup, applied>>
    BY DEF Fails, UndoFails, Killed, script, progress, foreign
  <2>2. torn' = torn \/ torn' = TRUE
    BY DEF Fails, UndoFails, Killed
  <2> QED BY <2>1, <2>2
<1>2. CASE Fails \/ Killed
  <2>1. \/ at' = "died"
        \/ at \in {"publish", "preview"} \cup Changing /\ Rollback
    BY <1>2 DEF Fails, Killed, Goto, Changing
  <2>2. CASE at' = "died"
    BY <1>1, <2>2 DEF GoesOn, Changing, Placed
  <2>3. CASE at \in {"publish", "preview"} \cup Changing /\ Rollback
    <3>1. at' \in {"died", "undo list", "undo server"} /\ \A u \in Users : ~torn /\ Changed(u) => Placed(u)'
      BY <1>1, <2>3, RollbackPlaces
    <3> QED BY <1>1, <2>3, <3>1 DEF GoesOn, Still, Early, Unread, Changing
  <2> QED BY <2>1, <2>2, <2>3
<1>3. CASE UndoFails
  <2>1. at \in {"undo list", "undo file", "undo server"} /\ at' \in {"undo list", "undo file", "undo server"} /\ torn'
    BY <1>3 DEF UndoFails, NextOne
  <2> QED BY <1>1, <2>1 DEF GoesOn, Still, Early, Unread, Changing
<1> QED BY <1>2, <1>3

\* A list is written.
LEMMA ApplySafe ==
    ASSUME Safe, Apply
    PROVE  Changes' /\ Rows' /\ Backups'
<1>1. /\ UNCHANGED <<kind, row, prev, seen, edited, torn, backup>>
      /\ at = "apply" /\ left # <<>> /\ at' \in {"apply", "apply file"}
      /\ applied' = Append(applied, Head(left)) /\ Write(Head(left), After(seen[Head(left)].list))
  BY DEF Apply, NextOne, script, foreign
<1>2. PICK h : h = Head(left)
  OBVIOUS
<1>3. h \in Seen /\ h \in Users /\ After(seen[h].list) \in Seq(Ids) /\ user \in Clients
  <2>1. left \in Seq(Seen)
    BY <1>1 DEF Safe, Typed, Course, OfSeen
  <2>2. h \in Seen
    BY <1>1, <1>2, <2>1, HeadTail
  <2> QED BY <2>2, WantedTyped DEF Safe, Typed, Data
<1>4. /\ \A v \in Users : user'[v] = None <=> user[v] = None
      /\ \A v \in Users : v # h => user'[v] = user[v]
  BY <1>1, <1>2, <1>3, WriteTyped
<1>5. ToSet(applied') = ToSet(applied) \cup {h}
  <2>1. applied \in Seq(Seen)
    BY DEF Safe, Typed, Data
  <2>2. ToSet(Append(applied, h)) = ToSet(applied) \cup {h}
    BY <1>3, <2>1, SetOfAppend
  <2> QED BY <1>1, <1>2, <2>2
<1>6. Seen' = Seen /\ \A v \in Users : v # h => (Changed(v)' => Changed(v))
  BY <1>1, <1>4 DEF Seen, Changed
<1>7. \A v \in Users : Original(v)' = Original(v)
  BY <1>1, <1>3, <1>4 DEF Original, Seen
<1>8. Changes'
  <2>1. \A v \in Users : ~torn /\ Changed(v)' => v \in ToSet(applied')
    BY <1>1, <1>5, <1>6 DEF Safe, Changes, Placed, Changing
  <2>2. kind # "mask"
    BY <1>1 DEF Safe, Typed, Course
  <2> QED BY <1>1, <1>4, <1>6, <2>1, <2>2 DEF Safe, Changes, Placed, Still, Early, Changing, Seen
<1>9. Rows'
  <2>1. \A id \in ToSet(Targets) : Read(id) => Read(id)'
    BY <1>1, ReadStays DEF Unread
  <2>2. TargetsRowed /\ TargetsRowed'
    BY <1>1 DEF Safe, Rows, TargetsRowed, Changing
  <2>3. \A list : Rowed(list) => Rowed(list)'
    BY <1>1 DEF Rowed
  <2>4. ~torn' => \A u \in Users \ edited' : user'[u] # None => Rowed(Original(u))'
    BY <1>1, <1>4, <1>7 DEF Safe, Rows, Rowed
  <2>5. \A u \in Users \ edited' : user'[u] # None =>
          \A i \in (ToSet(Original(u)') \cap ToSet(Targets)) \ edited' : Read(i)'
    BY <1>1, <1>4, <1>7, <2>1 DEF Safe, Rows
  <2> QED BY <1>1, <2>2, <2>4, <2>5 DEF Rows
<1>10. Backups'
  BY <1>1 DEF Safe, Backups, Early
<1> QED BY <1>8, <1>9, <1>10

\* The rollback writes a list back.
LEMMA UndoListSafe ==
    ASSUME Safe, UndoList
    PROVE  Changes' /\ Rows' /\ Backups'
<1>1. /\ UNCHANGED <<kind, row, prev, seen, edited, torn, backup, applied>>
      /\ at = "undo list" /\ left # <<>> /\ at' = "undo file" /\ left' = left
      /\ Write(Head(left), seen[Head(left)].list)
  BY DEF UndoList, script, progress, foreign
<1>2. PICK h : h = Head(left)
  OBVIOUS
<1>3. h \in Seen /\ h \in Users /\ seen[h].list \in Seq(Ids) /\ user \in Clients
      /\ ToSet(left) \subseteq ToSet(Tail(left)) \cup {h}
  <2>1. left \in Seq(Seen)
    BY <1>1 DEF Safe, Typed, Course, OfSeen
  <2>2. h \in Seen /\ ToSet(left) \subseteq ToSet(Tail(left)) \cup {h}
    BY <1>1, <1>2, <2>1, HeadTail
  <2> QED BY <2>2, WantedTyped DEF Safe, Typed, Data
<1>4. /\ \A v \in Users : user'[v] = None <=> user[v] = None
      /\ \A v \in Users : v # h => user'[v] = user[v]
      /\ user[h] # None => user'[h].list = seen[h].list
  BY <1>1, <1>2, <1>3, WriteTyped
<1>5. Seen' = Seen /\ \A v \in Users : v # h => (Changed(v)' => Changed(v))
  BY <1>1, <1>4 DEF Seen, Changed
<1>6. ~Changed(h)'
  BY <1>1, <1>3, <1>4, <1>5 DEF Safe, Changes, Changed
<1>7. \A v \in Users : Original(v)' = Original(v)
  BY <1>1, <1>3, <1>4 DEF Original, Seen
<1>8. Changes'
  <2>1. \A v \in Users : ~torn /\ Changed(v)' => v \in ToSet(Tail(left'))
    BY <1>1, <1>3, <1>5, <1>6 DEF Safe, Changes, Placed
  <2>2. kind # "mask"
    BY <1>1 DEF Safe, Typed, Course
  <2> QED BY <1>1, <1>4, <1>5, <2>1, <2>2 DEF Safe, Changes, Placed, Still, Early, Changing, Seen
<1>9. Rows'
  <2>1. \A id \in ToSet(Targets) : Read(id) => Read(id)'
    BY <1>1, ReadStays DEF Unread
  <2>2. TargetsRowed => TargetsRowed'
    BY <1>1 DEF TargetsRowed
  <2>3. ~torn' => \A u \in Users \ edited' : user'[u] # None => Rowed(Original(u))'
    BY <1>1, <1>4, <1>7 DEF Safe, Rows, Rowed
  <2>4. \A u \in Users \ edited' : user'[u] # None =>
          \A i \in (ToSet(Original(u)') \cap ToSet(Targets)) \ edited' : Read(i)'
    BY <1>1, <1>4, <1>7, <2>1 DEF Safe, Rows
  <2>5. ~torn' /\ (\E u \in Users : Changed(u)') => TargetsRowed'
    BY <1>1, <1>5, <1>6, <2>2 DEF Safe, Rows
  <2> QED BY <1>1, <2>3, <2>4, <2>5 DEF Rows, Changing
<1>10. Backups'
  BY <1>1 DEF Safe, Backups, Early
<1> QED BY <1>8, <1>9, <1>10

\* A server is put back or deleted.
LEMMA UndoServerSafe ==
    ASSUME Safe, UndoServer
    PROVE  Changes' /\ Rows' /\ Backups'
<1>1. /\ UNCHANGED <<kind, prev, user, seen, edited, torn, backup, applied>>
      /\ at = "undo server" /\ at' = at /\ left # <<>> /\ left' = Tail(left)
  BY DEF UndoServer, NextOne, script, progress, foreign
<1>2. PICK id : id = Head(left)
  OBVIOUS
<1>3. id \in Ids
  <2>1. left \in Seq(ToSet(Own)) /\ ToSet(Own) \subseteq Ids
    BY <1>1, OwnIds DEF Safe, Typed, Course, OfServers
  <2> QED BY <1>1, <1>2, <2>1, HeadTail
<1>4. /\ \A i \in Ids : i # id => row'[i] = row[i]
      /\ prev[id] # None => row'[id] # None
      /\ kind \notin DeletesNew /\ row[id] # None => row'[id] # None
  <2>1. Merge(row[id], prev[id]) \in Doc \cup {None} /\ (prev[id] # None => Merge(row[id], prev[id]) # None)
    BY <1>3, MergeTyped DEF Safe, Typed, Data, Documents
  <2>2. IF prev[id] # None THEN row' = [row EXCEPT ![id] = Merge(row[id], prev[id])]
        ELSE IF kind \in DeletesNew THEN row' = [row EXCEPT ![id] = None] ELSE row' = row
    BY <1>2 DEF UndoServer
  <2> QED BY <1>3, <2>1, <2>2 DEF Safe, Typed, Data, Documents
<1>5. \A i \in ToSet(Targets) : Read(i) /\ row[i] # None => row'[i] # None
  BY <1>1, <1>4 DEF Read, Ids
<1>6. Seen' = Seen /\ \A u \in Users : (Changed(u)' <=> Changed(u)) /\ Original(u)' = Original(u)
  BY <1>1 DEF Changed, Seen, Original
<1>7. \A i \in ToSet(Targets) : Read(i) => Read(i)'
  BY <1>1, ReadStays DEF Unread
<1>8. Changes'
  BY <1>1, <1>6 DEF Safe, Changes, Placed, Still, Early, Changing
<1>9. Rows'
  <2>1. ~torn' => \A u \in Users \ edited' : user'[u] # None => Rowed(Original(u))'
    BY <1>1, <1>5, <1>6 DEF Safe, Rows, Rowed
  <2>2. \A u \in Users \ edited' : user'[u] # None =>
          \A i \in (ToSet(Original(u)') \cap ToSet(Targets)) \ edited' : Read(i)'
    BY <1>1, <1>6, <1>7 DEF Safe, Rows
  <2>3. ASSUME ~torn', NEW u \in Users, Changed(u)' PROVE TargetsRowed'
    <3>1. TargetsRowed /\ kind \notin UsersBackFirst /\ kind # "mask" /\ kind # "edge"
      BY <1>1, <1>6, <2>3 DEF Safe, Rows, Changes, Placed, Typed, Course, Undoing
    <3>2. kind = "bunny" \/ kind = "video"
      BY <3>1 DEF Safe, Typed, Data, Kinds, UsersBackFirst
    <3>3. CASE kind = "video"
      <4>1. \A i \in ToSet(Targets) : Read(i)
        BY <3>3 DEF Safe, Typed, Reads, TunesTargets
      <4> QED BY <1>1, <1>5, <3>1, <4>1 DEF TargetsRowed
    <3>4. CASE kind = "bunny"
      BY <1>1, <1>4, <3>1, <3>4 DEF TargetsRowed, DeletesNew, Ids
    <3> QED BY <3>2, <3>3, <3>4
  <2> QED BY <1>1, <2>1, <2>2, <2>3 DEF Rows, Changing
<1>10. Backups'
  BY <1>1, <1>6 DEF Safe, Backups, Early
<1> QED BY <1>8, <1>9, <1>10

\* The server carried out what failed.
LEMMA FailsLateSafe ==
    ASSUME Safe, FailsLate
    PROVE  Changes' /\ Rows' /\ Backups'
<1>1. /\ UNCHANGED <<kind, prev, seen, edited, backup, applied>> /\ torn' = TRUE
      /\ left # <<>> /\ at \in {"publish", "apply"} /\ Rollback
      /\ \/ at = "publish" /\ Save(Head(left)) /\ user' = user
         \/ at = "apply" /\ Write(Head(left), After(seen[Head(left)].list)) /\ row' = row
  BY DEF FailsLate, script, progress, foreign
<1>2. at' \in {"died", "undo list", "undo server"}
  BY <1>1, RollbackPlaces DEF Changing
<1>3. /\ \A v \in Users : user'[v] = None <=> user[v] = None
      /\ \A v \in Users : Original(v)' = Original(v)
      /\ at = "publish" \/ kind = "mask" => user' = user
  <2>1. CASE at = "publish"
    BY <1>1, <2>1 DEF Original
  <2>2. CASE at = "apply"
    <3>1. left \in Seq(Seen) /\ kind # "mask"
      BY <1>1, <2>2 DEF Safe, Typed, Course, OfSeen
    <3>2. Head(left) \in Seen
      BY <1>1, <3>1, HeadTail
    <3>3. PICK h : h = Head(left)
      OBVIOUS
    <3>4. h \in Seen /\ h \in Users /\ After(seen[h].list) \in Seq(Ids) /\ user \in Clients
      BY <3>2, <3>3, WantedTyped DEF Safe, Typed, Data
    <3>5. /\ \A v \in Users : user'[v] = None <=> user[v] = None
          /\ \A v \in Users : v # h => user'[v] = user[v]
      BY <1>1, <2>2, <3>3, <3>4, WriteTyped
    <3>6. \A v \in Users : Original(v)' = Original(v)
      BY <1>1, <3>4, <3>5 DEF Original, Seen
    <3> QED BY <2>2, <3>1, <3>5, <3>6
  <2> QED BY <1>1, <2>1, <2>2
<1>4. \A i \in ToSet(Targets) : Read(i) => Read(i)'
  BY <1>1, ReadStays DEF Unread
<1>5. Changes'
  <2>1. \A u \in Seen' \ edited' : user'[u] # None
    BY <1>1, <1>3 DEF Safe, Changes, Seen
  <2>2. kind = "mask" => \A u \in Users : ~Changed(u)'
    BY <1>1, <1>3 DEF Safe, Changes, Changed, Seen
  <2> QED BY <1>1, <1>2, <2>1, <2>2 DEF Changes, Still, Early
<1>6. Rows'
  <2>1. \A u \in Users \ edited' : user'[u] # None =>
          \A i \in (ToSet(Original(u)') \cap ToSet(Targets)) \ edited' : Read(i)'
    BY <1>1, <1>3, <1>4 DEF Safe, Rows
  <2> QED BY <1>1, <1>2, <2>1 DEF Rows, Changing
<1>7. Backups'
  BY <1>1, <1>2 DEF Safe, Backups, Early
<1> QED BY <1>5, <1>6, <1>7

\* What the panel does is no longer the script's.
LEMMA PanelSafe ==
    ASSUME Safe, OnlyForeign, UNCHANGED <<prev, at, left, applied, backup, torn>>,
           edited' = edited \/ at # "list",
           \A u \in Users \ edited' : user'[u] = user[u]
    PROVE  Changes' /\ Rows' /\ Backups'
<1>1. \A u \in Users : Placed(u) => Placed(u)'
  BY DEF OnlyForeign, Placed
<1>2. Changes'
  BY <1>1, QuietChanges DEF Safe
<1>3. \A id \in ToSet(Targets) : Read(id) => Read(id)'
  BY ReadStays
<1>4. Rows'
  BY <1>3, QuietRows DEF Safe
<1>5. Backups'
  BY QuietBackups DEF Safe
<1> QED BY <1>2, <1>4, <1>5

\* Steps of the panel edit what they note as edited.
LEMMA PanelStepSafe ==
    ASSUME Safe,
           \/ \E u \in Users : Expire(u) \/ Refresh(u) \/ EditUser(u) \/ CreateUser(u) \/ DeleteUser(u)
           \/ \E id \in Ids : EditServer(id)
    PROVE  Changes' /\ Rows' /\ Backups'
<1>1. /\ UNCHANGED <<kind, prev, seen, at, left, applied, backup, torn>>
      /\ edited \subseteq edited' /\ (edited' = edited \/ at # "list")
  BY DEF Expire, Refresh, EditUser, CreateUser, DeleteUser, EditServer, Panel, script, progress, foreign
<1>2. \A u \in Users \ edited' : user'[u] = user[u]
  <2>1. user \in Clients
    BY DEF Safe, Typed, Data
  <2> QED BY <2>1 DEF Expire, Refresh, EditUser, CreateUser, DeleteUser, EditServer, Panel, Clients
<1>3. \A id \in ToSet(Targets) \ edited' : row'[id] = row[id]
  <2>1. row \in Documents /\ ToSet(Targets) \subseteq Ids
    BY DEF Safe, Typed, Data, Ids
  <2> QED BY <2>1 DEF Expire, Refresh, EditUser, CreateUser, DeleteUser, EditServer, Panel, Documents
<1>4. OnlyForeign
  BY <1>1, <1>2, <1>3 DEF OnlyForeign
<1> QED BY <1>1, <1>2, <1>4, PanelSafe

\* Every step keeps the invariant.
LEMMA SafeStep ==
    ASSUME Safe, [Next]_vars
    PROVE  Safe'
<1>1. Typed'
  BY TypedStep DEF Safe
<1>2. CASE UNCHANGED vars
  <2>1. UNCHANGED <<kind, seen, edited, torn, user, row, prev, at, left, applied, backup>>
    BY <1>2 DEF vars, script, progress, foreign
  <2>2. OnlyForeign
    BY <2>1 DEF OnlyForeign
  <2> QED BY <1>1, <2>1, <2>2, PanelSafe DEF Safe
<1>3. CASE Step
  <2>1. CASE ListUsers \/ ReadServer \/ ServersRead \/ OldBody \/ BodiesBuilt \/ Backup \/ Publish
    BY <1>1, <2>1, ListUsersSafe, ReadingSafe, PublishSafe DEF Safe
  <2>2. CASE Apply \/ UndoList \/ UndoServer
    BY <1>1, <2>2, ApplySafe, UndoListSafe, UndoServerSafe DEF Safe
  <2>3. CASE \/ Published \/ Preview \/ Previewed \/ Verify \/ Verified
             \/ ApplyFile \/ Applied \/ StoreFile \/ FilesStored \/ UndoFile \/ Undone
    <3>1. GoesOn
      BY <2>3, StagesSafe, FilesSafe, UndoneSafe
    <3> QED BY <1>1, <3>1, GoesOnSafe DEF Safe
  <2> QED BY <1>3, <2>1, <2>2, <2>3 DEF Step
<1>4. CASE Fails \/ UndoFails \/ Killed
  BY <1>1, <1>4, FailingSafe, GoesOnSafe DEF Safe
<1>5. CASE FailsLate
  BY <1>1, <1>5, FailsLateSafe DEF Safe
<1> QED BY <1>1, <1>2, <1>3, <1>4, <1>5, PanelStepSafe DEF Next, Safe

\* Whatever happens to a script, a list that differs from what it read is in
\* the backup file as it was.
THEOREM ListsAreBackedUp == Spec => []ChangedListsAreBackedUp
BY SafeInit, SafeStep, SafeImplies, PTL DEF Spec

\* Rows come before the lists that name them and go after them, for every
\* script, order of steps and number of failures and edits by others.
THEOREM ListsNameServers == Spec => []NoListNamesMissingServer
BY SafeInit, SafeStep, SafeImplies, PTL DEF Spec

\* A rollback that says so has put back every list that nobody else changed.
THEOREM ListsAreRestored == Spec => []RollbackRestoresLists
BY SafeInit, SafeStep, SafeImplies, PTL DEF Spec

-----------------------------------------------------------------------------
(* What a script may report *)

NoServerEdited == edited \cap Ids = {}
Fine(id) == row[id] # None /\ Masks(row[id])
AllFine == \A id \in ToSet(Targets) : Fine(id)

\* The clients that a script goes by at the end, and the active ones.
Watched == IF kind = "edge" THEN {u \in Users \ touched : user[u] # None} ELSE Seen \ edited
Active == {u \in Users \ touched : user[u] # None /\ user[u].active}

Given(u) == user[u].list = After(seen[u].list)

\* A cached body names no target that the list has not.
CachedOf(u, list) == cache[u] # None => \A id \in ToSet(Targets) : HasLine(cache[u], id) => id \in ToSet(list)

\* The preview has shown that a client's body can have the targets.
Usable(u) == ~seen[u].custom /\ (kind = "video" => ToSet(Targets) \subseteq ToSet(seen[u].list))

\* A file has the targets of the list.
Holds(u) ==
    /\ file[u] # None /\ TargetsMasked(file[u])
    /\ kind # "mask" /\ user[u].active /\ ~user[u].custom =>
         \A id \in ToSet(Targets) \cap ToSet(user[u].list) : HasLine(file[u], id)

\* What the last verification has found of a client.
Checked(u) ==
    /\ ListIsRight(user[u].list) /\ ToSet(Targets) \subseteq ToSet(user[u].list) /\ ~user[u].custom
    /\ NoServerEdited => file[u] # None /\ HasTargets(file[u])

Known ==
    /\ touched \subseteq edited
    /\ \A u \in Seen \ edited : /\ user[u] # None
                                /\ user[u].active = seen[u].active /\ user[u].custom = seen[u].custom
    /\ at \notin {"list", "died"} => \A u \in (Users \ Seen) \ edited : user[u] # None => kind \in ActiveOnly /\ ~user[u].active

Written ==
    NoServerEdited =>
        /\ at = "publish" => \A id \in ToSet(Targets) : id \in ToSet(left) \/ Fine(id)
        /\ at \in {"preview", "ok"} \cup Changing => AllFine

Patched ==
    kind # "edge" => \A u \in Seen \ edited :
        /\ at = "apply" => u \in ToSet(left) \/ Given(u)
        /\ at = "apply file" => u \in ToSet(Tail(left)) \/ Given(u)
        /\ at \in {"files", "verify", "ok"} => Given(u)

Previews ==
    /\ at \in {"list", "servers"} => \A u \in Users : cache[u] = None
    /\ kind = "video" /\ at \in {"bodies", "backup", "publish", "preview"} =>
         \A u \in Seen : CachedOf(u, seen[u].list)
    /\ kind \in {"fr1", "finalmask", "video"} =>
         /\ at = "preview" /\ ~failing => \A u \in Seen : u \in ToSet(left) \/ Usable(u)
         /\ at \in Changing \cup {"ok"} => \A u \in Seen : Usable(u)

Files ==
    NoServerEdited => \A u \in Watched :
        /\ kind = "video" /\ at \in {"apply", "apply file"} => u \in ToSet(left) \/ Holds(u)
        /\ at = "files" => u \in ToSet(left) \/ Holds(u)
        /\ at \in {"verify", "ok"} => Holds(u)

Checks ==
    kind \in {"cloudflare", "bunny", "edge"} =>
        /\ kind = "edge" /\ at \in {"files", "verify"} => \A u \in Users \ touched : listed[u] = user[u]
        /\ at = "verify" => \A u \in Active : /\ listed[u] = user[u]
                                              /\ kind = "edge" => CachedOf(u, user[u].list)
        /\ at = "verify" /\ ~failing => \A u \in Active : u \in ToSet(left) \/ Checked(u)
        /\ at = "ok" => \A u \in Active : Checked(u)

Right == Known /\ Written /\ Patched /\ Previews /\ Files /\ Checks

\* The invariant gives what success means.
LEMMA RightImplies ==
    ASSUME Safe, Right
    PROVE  OkMeansPublished
<1> SUFFICES ASSUME at = "ok",
                    NEW u \in Users \ (IF kind \in VerifiesAgain \ {"video"} THEN touched ELSE edited),
                    user[u] # None, user[u].active
             PROVE  /\ ListIsRight(user[u].list)
                    /\ NoServerEdited => /\ kind # "mask" => HasTargets(file[u])
                                         /\ u \notin edited => TargetsMasked(file[u])
  BY DEF OkMeansPublished, NoServerEdited
<1>1. kind \in Kinds /\ touched \subseteq edited
  BY DEF Safe, Typed, Data, Right, Known
<1>2. CASE kind \in {"cloudflare", "bunny", "edge"}
  <2>1. u \in Active
    BY <1>2 DEF Active, VerifiesAgain
  <2>2. Checked(u)
    BY <1>2, <2>1 DEF Right, Checks
  <2>3. u \notin edited => u \in Watched
    BY <1>2, <2>1 DEF Watched, Active, Right, Known
  <2>4. NoServerEdited /\ u \notin edited => Holds(u)
    BY <2>3 DEF Right, Files
  <2> QED BY <2>2, <2>4 DEF Checked, Holds
<1>3. CASE kind \in {"fr1", "finalmask", "video", "mask"}
  <2>1. u \in Seen \ edited
    BY <1>3 DEF Right, Known, VerifiesAgain, ActiveOnly
  <2>2. Given(u) /\ (kind # "mask" => Usable(u)) /\ user[u].custom = seen[u].custom
    BY <1>3, <2>1 DEF Right, Patched, Previews, Known
  <2>3. NoServerEdited => Holds(u)
    BY <1>3, <2>1 DEF Right, Files, Watched
  <2>4. seen[u].list \in Seq(Ids)
    BY <2>1, WantedTyped DEF Safe, Typed
  <2>5. ListIsRight(user[u].list)
    BY <1>1, <1>3, <2>2, <2>4, AfterElements DEF ListIsRight, Given
  <2>6. kind # "mask" => ToSet(Targets) \subseteq ToSet(user[u].list)
    <3>1. ToSet(Targets) \cap ToSet(Retired) = {}
      BY OwnIds
    <3> QED BY <1>1, <1>3, <2>2, <2>4, <3>1, AfterElements DEF Given, Usable
  <2> QED BY <2>2, <2>3, <2>5, <2>6 DEF Holds, HasTargets, Usable
<1> QED BY <1>1, <1>2, <1>3 DEF Kinds

\* A file built now has the targets of the list.
LEMMA FileHolds ==
    ASSUME row \in Documents, cache \in Bodies, AllFine, NEW doc \in User
    PROVE  /\ FileOf(doc) # None /\ TargetsMasked(FileOf(doc))
           /\ kind # "mask" /\ doc.active /\ ~doc.custom =>
                \A id \in ToSet(Targets) \cap ToSet(doc.list) : HasLine(FileOf(doc), id)
<1>1. doc.list \in Seq(Ids)
  BY DEF User
<1>2. \A u \in Users : FileOf(doc) \in Seq(Line)
  BY FilesTyped DEF Bodies
<1>3. FileOf(doc) # None
  <2>1. Body(doc.list) \in Seq(Line) /\ <<>> \in Seq(Line)
    BY <1>1, BodyLines
  <2> QED BY <2>1, NoneAssumption DEF FileOf
<1>4. /\ \A id \in Ids : HasLine(Body(doc.list), id) <=> id \in ToSet(doc.list) /\ row[id] # None /\ row[id].enabled
      /\ TargetsMasked(Body(doc.list))
  BY <1>1, BodyLines DEF AllFine, Fine, Masks
<1>5. TargetsMasked(<<>>)
  BY DEF TargetsMasked
<1>6. TargetsMasked(FileOf(doc))
  BY <1>4, <1>5 DEF FileOf
<1>7. ASSUME doc.active, ~doc.custom, kind # "mask", NEW id \in ToSet(Targets) \cap ToSet(doc.list)
      PROVE  HasLine(FileOf(doc), id)
  <2>1. FileOf(doc) = Body(doc.list)
    BY <1>7 DEF FileOf
  <2>2. id \in Ids /\ row[id] # None /\ row[id].enabled
    BY <1>7 DEF AllFine, Fine, Masks, Ids
  <2> QED BY <1>4, <1>7, <2>1, <2>2
<1> QED BY <1>3, <1>6, <1>7

\* A body names no target that the list, or the cached body, has not.
LEMMA BodyNames ==
    ASSUME row \in Documents, NEW u \in Users, NEW doc \in User, NEW list, CachedOf(u, list),
           ToSet(doc.list) \cap ToSet(Targets) \subseteq ToSet(list)
    PROVE  \A id \in ToSet(Targets) : HasLine(BodyOf(u, doc), id) => id \in ToSet(list) /\ ~doc.custom
<1> SUFFICES ASSUME NEW id \in ToSet(Targets), HasLine(BodyOf(u, doc), id)
             PROVE  id \in ToSet(list) /\ ~doc.custom
  OBVIOUS
<1>1. ~HasLine(<<>>, id)
  BY DEF HasLine
<1>2. ~doc.custom
  BY <1>1 DEF BodyOf
<1>3. CASE cache[u] # None
  BY <1>2, <1>3 DEF BodyOf, CachedOf
<1>4. CASE cache[u] = None
  <2>1. HasLine(Body(doc.list), id) /\ id \in Ids
    BY <1>2, <1>4 DEF BodyOf, Ids
  <2>2. doc.list \in Seq(Ids)
    BY DEF User
  <2> QED BY <1>2, <2>1, <2>2, BodyLines
<1> QED BY <1>3, <1>4

\* What is cached then is that body.
LEMMA CachingNames ==
    ASSUME row \in Documents, cache \in Bodies, NEW u \in Users, NEW doc \in User, NEW list, CachedOf(u, list),
           ToSet(doc.list) \cap ToSet(Targets) \subseteq ToSet(list), Caching(u, doc)
    PROVE  /\ CachedOf(u, list)'
           /\ \A v \in Users : v # u => cache'[v] = cache[v]
<1>1. CASE doc.custom
  BY <1>1 DEF Caching, CachedOf
<1>2. CASE ~doc.custom
  <2>1. cache' = [cache EXCEPT ![u] = BodyOf(u, doc)]
    BY <1>2 DEF Caching
  <2>2. cache'[u] = BodyOf(u, doc) /\ \A v \in Users : v # u => cache'[v] = cache[v]
    BY <2>1 DEF Bodies
  <2>3. \A id \in ToSet(Targets) : HasLine(BodyOf(u, doc), id) => id \in ToSet(list)
    BY BodyNames
  <2>4. CachedOf(u, list)'
    BY <2>2, <2>3 DEF CachedOf
  <2> QED BY <2>2, <2>4
<1> QED BY <1>1, <1>2

\* It holds at the start.
LEMMA RightInit ==
    ASSUME Init
    PROVE  Right
<1>1. /\ at = "list" /\ edited = {} /\ touched = {} /\ Seen = {}
      /\ \A u \in Users : cache[u] = None
  BY DEF Init, Seen
<1>2. Known
  BY <1>1 DEF Known
<1>3. Written /\ Patched /\ Previews /\ Files /\ Checks
  BY <1>1 DEF Written, Patched, Previews, Files, Checks, Changing
<1> QED BY <1>2, <1>3 DEF Right

\* What is known of the clients that nobody else has changed.
LEMMA KnownStays ==
    ASSUME Known, UNCHANGED <<kind, seen>>, edited \subseteq edited', touched' \subseteq edited',
           at \notin {"list", "died"} \/ at' \in {"list", "died"},
           \A u \in Users \ edited' : /\ user'[u] = None <=> user[u] = None
                                      /\ user[u] # None => /\ user'[u].active = user[u].active
                                                           /\ user'[u].custom = user[u].custom
    PROVE  Known'
<1>1. Seen' = Seen /\ Seen \subseteq Users
  BY DEF Seen
<1>2. \A u \in Seen' \ edited' : /\ user'[u] # None
                                 /\ user'[u].active = seen'[u].active /\ user'[u].custom = seen'[u].custom
  BY <1>1 DEF Known
<1>3. at' \notin {"list", "died"} =>
        \A u \in (Users \ Seen') \ edited' : user'[u] # None => kind' \in ActiveOnly /\ ~user'[u].active
  BY <1>1 DEF Known
<1> QED BY <1>2, <1>3 DEF Known

\* A list that is written leaves the rest of the client.
LEMMA KnownWritten ==
    ASSUME Safe, Known, UNCHANGED <<kind, seen, edited, touched>>, at \notin {"list", "died"},
           NEW u \in Seen, NEW list \in Seq(Ids), Write(u, list)
    PROVE  Known'
<1>1. user \in Clients /\ u \in Users
  BY DEF Safe, Typed, Data, Seen
<1>2. /\ \A v \in Users : user'[v] = None <=> user[v] = None
      /\ \A v \in Users : v # u => user'[v] = user[v]
      /\ user[u] # None => /\ user'[u].active = user[u].active /\ user'[u].custom = user[u].custom
  BY <1>1, WriteTyped
<1>3. \A v \in Users \ edited' : /\ user'[v] = None <=> user[v] = None
                                 /\ user[v] # None => /\ user'[v].active = user[v].active
                                                      /\ user'[v].custom = user[v].custom
  BY <1>2
<1>4. touched' \subseteq edited'
  BY DEF Known
<1> QED BY <1>3, <1>4, KnownStays

\* Once a script is undone or has given up, nothing is claimed.
LEMMA OverRight ==
    ASSUME Known', at' \in Undoing \cup {"died", "failed", "refused"}
    PROVE  Right'
<1>1. at' \notin {"list", "servers", "bodies", "backup", "publish", "preview", "ok"} \cup Changing
  BY DEF Undoing, Changing
<1>2. Written' /\ Patched' /\ Previews' /\ Files' /\ Checks'
  BY <1>1 DEF Written, Patched, Previews, Files, Checks, Changing
<1> QED BY <1>2 DEF Right

\* Before the preview only rows and bodies are.
LEMMA EarlyRight ==
    ASSUME Known', Previews', at' \in {"servers", "bodies", "backup", "publish"}, at' = "publish" => Written'
    PROVE  Right'
<1>1. Patched' /\ Files' /\ Checks'
  BY DEF Patched, Files, Checks
<1>2. Written'
  BY DEF Written, Changing
<1> QED BY <1>1, <1>2 DEF Right

\* The stages before anything is changed.
LEMMA ReadingRight ==
    ASSUME Safe, Right, ReadServer \/ ServersRead \/ OldBody \/ BodiesBuilt \/ Backup
    PROVE  Right'
<1>1. /\ UNCHANGED <<kind, row, user, seen, edited, touched>>
      /\ at \in {"servers", "bodies", "backup"}
      /\ at' \in {"servers", "bodies", "backup", "publish", "refused", "failed"}
      /\ OldBody \/ cache' = cache
      /\ at' = "publish" => left' = Own
      /\ at' = "servers" => at = "servers" /\ cache' = cache
  BY DEF ReadServer, ServersRead, OldBody, BodiesBuilt, Backup, Goto, NextOne, script, progress, foreign
<1>2. Known'
  BY <1>1, KnownStays DEF Right, Known
<1>3. Seen' = Seen
  BY <1>1 DEF Seen
<1>4. Previews'
  <2>1. CASE cache' = cache
    BY <1>1, <1>3, <2>1 DEF Right, Previews, CachedOf, Changing, Seen
  <2>2. CASE OldBody
    <3>1. at = "bodies" /\ at' = at /\ left # <<>> /\ Caching(Head(left), Then(Head(left)))
      BY <2>2 DEF OldBody, NextOne
    <3>2. PICK u : u = Head(left)
      OBVIOUS
    <3>3. u \in Seen
      <4>1. left \in Seq(Seen)
        BY <3>1 DEF Safe, Typed, Course, OfSeen
      <4> QED BY <3>1, <3>2, <4>1, HeadTail
    <3>4. row \in Documents /\ cache \in Bodies /\ u \in Users /\ seen[u] \in User
      BY <3>3, WantedTyped DEF Safe, Typed, Data
    <3>5. ASSUME kind = "video" PROVE \A v \in Seen : CachedOf(v, seen[v].list)'
      <4>1. PICK list : list = seen[u].list
        OBVIOUS
      <4>2. CachedOf(u, list)
        BY <3>1, <3>3, <3>5, <4>1 DEF Right, Previews
      <4>3. CachedOf(u, list)' /\ \A v \in Users : v # u => cache'[v] = cache[v]
        BY <3>1, <3>2, <3>4, <4>1, <4>2, CachingNames DEF Then
      <4> QED BY <1>1, <3>1, <3>5, <4>1, <4>3 DEF Right, Previews, CachedOf, Seen
    <3> QED BY <1>1, <1>3, <3>1, <3>5 DEF Previews, Changing, CachedOf
  <2> QED BY <1>1, <2>1, <2>2
<1>5. at' = "publish" => Written'
  <2>1. ToSet(Targets) \subseteq ToSet(Own)
    BY OwnIds
  <2> QED BY <1>1, <2>1 DEF Written, Changing
<1> QED BY <1>1, <1>2, <1>4, <1>5, OverRight, EarlyRight

\* The first listing is of the rows as they are.
LEMMA ListUsersRight ==
    ASSUME Safe, Right, ListUsers
    PROVE  Right'
<1>1. /\ UNCHANGED <<kind, user, edited, touched, cache>> /\ seen' = Selected /\ at = "list"
      /\ at' \in {"refused", "servers"}
  BY DEF ListUsers, Goto, progress, foreign
<1>2. \A u \in Users : /\ seen'[u] # None => seen'[u] = user[u]
                       /\ seen'[u] = None /\ user[u] # None => kind \in ActiveOnly /\ ~user[u].active
  BY <1>1 DEF Selected
<1>3. Known'
  BY <1>1, <1>2 DEF Right, Known, Seen
<1>4. Previews'
  BY <1>1 DEF Right, Previews, Changing
<1> QED BY <1>1, <1>3, <1>4, OverRight, EarlyRight

\* While servers are published no client is changed.
LEMMA PublishingRight ==
    ASSUME Safe, Right, Publish \/ Published
    PROVE  Right'
<1>1. UNCHANGED <<kind, user, seen, edited, touched>> /\ at = "publish"
  BY DEF Publish, Published, script, progress, foreign
<1>2. Seen' = Seen
  BY <1>1 DEF Seen
<1>3. CASE Publish
  <2>1. at' = at /\ left # <<>> /\ left' = Tail(left) /\ Save(Head(left)) /\ cache' = cache
    BY <1>3 DEF Publish, NextOne
  <2>2. PICK id : id = Head(left)
    OBVIOUS
  <2>3. id \in ToSet(Own) /\ ToSet(left) \subseteq ToSet(Tail(left)) \cup {id}
    <3>1. left \in Seq(ToSet(Own))
      BY <1>1 DEF Safe, Typed, Course, OfServers
    <3> QED BY <2>1, <2>2, <3>1, HeadTail
  <2>4. /\ \A i \in Ids : i # id => row'[i] = row[i]
        /\ id \in ToSet(Targets) => Masks(row'[id]) /\ row'[id] # None
    BY <1>1, <2>1, <2>2, <2>3, SaveTyped DEF Safe
  <2>5. Written'
    <3> SUFFICES ASSUME NoServerEdited, NEW i \in ToSet(Targets), i \notin ToSet(left') PROVE Fine(i)'
      BY <1>1, <2>1 DEF Written, NoServerEdited, Changing
    <3>1. CASE i = id
      BY <1>1, <2>4, <3>1 DEF Fine, Masks
    <3>2. CASE i # id
      <4>1. Fine(i) /\ i \in Ids
        BY <1>1, <2>1, <2>2, <2>3, <3>2 DEF Right, Written, Ids
      <4> QED BY <1>1, <2>4, <3>2, <4>1 DEF Fine, Masks
    <3> QED BY <3>1, <3>2
  <2>6. Previews'
    BY <1>1, <1>2, <2>1 DEF Right, Previews, CachedOf, Changing
  <2>7. Known'
    BY <1>1, KnownStays DEF Right, Known
  <2> QED BY <1>1, <2>1, <2>5, <2>6, <2>7, EarlyRight
<1>4. CASE Published
  <2>1. /\ left = <<>> /\ row' = row /\ (kind = "video" => cache' = cache)
        /\ \/ kind = "edge" /\ at' = "apply"
           \/ kind # "edge" /\ at' = "preview" /\ left' = Listing(seen)
    BY <1>4 DEF Published, Goto
  <2>2. ToSet(left) = {} /\ ToSet(Listing(seen)) = Seen
    BY <2>1, SetOfEmpty, ListingTyped DEF Seen
  <2>3. Known'
    BY <1>1, KnownStays DEF Right, Known
  <2>4. Written'
    <3>1. NoServerEdited => AllFine
      BY <1>1, <2>2 DEF Right, Written, AllFine
    <3> QED BY <1>1, <2>1, <3>1 DEF Written, NoServerEdited, AllFine, Fine, Masks
  <2>5. Previews'
    BY <1>1, <1>2, <2>1, <2>2 DEF Right, Previews, CachedOf, Changing
  <2>6. Patched' /\ Files' /\ Checks'
    BY <1>1, <2>1 DEF Patched, Files, Checks
  <2> QED BY <2>3, <2>4, <2>5, <2>6 DEF Right
<1> QED BY <1>3, <1>4

\* What the preview asks of a body.
LEMMA PreviewShows ==
    ASSUME Safe, Right, at = "preview", NEW u \in Seen, BodyIsRight(u, BodyOf(u, Wanted(u))),
           kind \in {"fr1", "finalmask", "video"}
    PROVE  Usable(u)
<1>1. PICK body : body = BodyOf(u, Wanted(u))
  OBVIOUS
<1>2. /\ u \in Users /\ seen[u].list \in Seq(Ids) /\ Wanted(u) \in User /\ row \in Documents
      /\ Wanted(u) = [seen[u] EXCEPT !.list = After(seen[u].list)] /\ seen[u] \in User
  BY WantedTyped DEF Safe, Typed, Data
<1>3. Wanted(u).custom = seen[u].custom /\ Wanted(u).list = After(seen[u].list)
  BY <1>2 DEF User
<1>4. body # <<>>
  <2>1. ASSUME kind = "finalmask", body = <<>> PROVE FALSE
    <3>1. PICK names : names = [i \in DOMAIN body |-> body[i][1]]
      OBVIOUS
    <3>2. names = <<>>
      BY <2>1, <3>1
    <3>3. IsPrefix(Targets, names)
      BY <1>1, <2>1, <3>1 DEF BodyIsRight, FinalmaskBody, TargetsFirst
    <3>4. Len(Targets) <= 0 /\ Targets \in Seq(Ids) /\ Targets # <<>>
      BY <3>2, <3>3, OwnIds, TargetsAssumption DEF IsPrefix
    <3> QED BY <3>4
  <2>2. ASSUME kind # "finalmask", body = <<>> PROVE FALSE
    <3>1. HasTargets(body)
      BY <1>1, <2>2 DEF BodyIsRight, Fr1Body, VideoBody
    <3>2. PICK id \in ToSet(Targets) : TRUE
      BY OwnIds
    <3> QED BY <2>2, <3>1, <3>2 DEF HasTargets, HasLine
  <2> QED BY <2>1, <2>2
<1>5. ~seen[u].custom
  BY <1>1, <1>3, <1>4 DEF BodyOf
<1>6. ASSUME kind = "video" PROVE ToSet(Targets) \subseteq ToSet(seen[u].list)
  <2>1. HasTargets(body)
    BY <1>1, <1>6 DEF BodyIsRight, VideoBody
  <2>2. PICK list : list = seen[u].list
    OBVIOUS
  <2>3. CachedOf(u, list)
    BY <1>6, <2>2 DEF Right, Previews
  <2>4. ToSet(After(list)) \subseteq ToSet(list)
    BY <1>2, <1>6, <2>2, AfterElements DEF Safe, Typed, Data
  <2>5. \A id \in ToSet(Targets) : HasLine(body, id) => id \in ToSet(list)
    BY <1>1, <1>2, <1>3, <2>2, <2>3, <2>4, BodyNames
  <2> QED BY <2>1, <2>2, <2>5 DEF HasTargets
<1> QED BY <1>5, <1>6 DEF Usable

\* A preview is a body of the servers as published, or an old one.
LEMMA PreviewRight ==
    ASSUME Safe, Right, Preview
    PROVE  Right'
<1>1. /\ UNCHANGED <<kind, row, user, seen, edited, touched>> /\ at = "preview" /\ at' = at
      /\ left # <<>> /\ left' = Tail(left) /\ Caching(Head(left), Wanted(Head(left)))
      /\ ~failing' => ~failing /\ BodyIsRight(Head(left), BodyOf(Head(left), Wanted(Head(left))))
  BY DEF Preview, NextOne, script, foreign
<1>2. PICK h : h = Head(left)
  OBVIOUS
<1>3. h \in Seen /\ ToSet(left) \subseteq ToSet(Tail(left)) \cup {h}
  <2>1. left \in Seq(Seen)
    BY <1>1 DEF Safe, Typed, Course, OfSeen
  <2> QED BY <1>1, <1>2, <2>1, HeadTail
<1>4. Seen' = Seen
  BY <1>1 DEF Seen
<1>5. ASSUME kind = "video" PROVE \A v \in Seen : CachedOf(v, seen[v].list)'
  <2>1. PICK list : list = seen[h].list
    OBVIOUS
  <2>2. CachedOf(h, list)
    BY <1>1, <1>3, <1>5, <2>1 DEF Right, Previews
  <2>3. /\ row \in Documents /\ cache \in Bodies /\ h \in Users /\ Wanted(h) \in User /\ list \in Seq(Ids)
        /\ Wanted(h) = [seen[h] EXCEPT !.list = After(list)] /\ seen[h] \in User /\ kind \in Kinds
    BY <1>3, <2>1, WantedTyped DEF Safe, Typed, Data
  <2>4. Wanted(h).list = After(list)
    BY <2>3 DEF User
  <2>5. ToSet(After(list)) \subseteq ToSet(list)
    BY <1>5, <2>3, AfterElements
  <2>6. CachedOf(h, list)' /\ \A v \in Users : v # h => cache'[v] = cache[v]
    BY <1>1, <1>2, <2>2, <2>3, <2>4, <2>5, CachingNames
  <2> QED BY <1>1, <1>5, <2>1, <2>6 DEF Right, Previews, CachedOf, Seen
<1>6. ASSUME kind \in {"fr1", "finalmask", "video"}, ~failing', NEW u \in Seen
      PROVE  u \in ToSet(left') \/ Usable(u)
  <2>1. CASE u = h
    BY <1>1, <1>2, <1>3, <1>6, <2>1, PreviewShows
  <2>2. CASE u # h
    BY <1>1, <1>3, <1>6, <2>2 DEF Right, Previews
  <2> QED BY <2>1, <2>2
<1>7. Previews'
  BY <1>1, <1>4, <1>5, <1>6 DEF Previews, CachedOf, Usable, Changing
<1>8. Known'
  BY <1>1, KnownStays DEF Right, Known
<1>9. Written'
  BY <1>1 DEF Right, Written, NoServerEdited, AllFine, Fine, Masks
<1>10. Patched' /\ Files' /\ Checks'
  BY <1>1 DEF Patched, Files, Checks
<1> QED BY <1>7, <1>8, <1>9, <1>10 DEF Right

\* The list a script wants depends on nothing else.
LEMMA AfterStays ==
    ASSUME UNCHANGED <<kind, seen>>
    PROVE  \A u : After(seen[u].list)' = After(seen[u].list)
<1>1. Own' = Own
  BY KindStays
<1>2. \A u : Rest(seen[u].list)' = Rest(seen[u].list)
  BY <1>1 DEF Rest
<1>3. \A u : CloudflareAfter(seen[u].list)' = CloudflareAfter(seen[u].list)
  BY <1>2 DEF CloudflareAfter
<1>4. \A u : Fr1After(seen[u].list)' = Fr1After(seen[u].list)
  BY <1>2 DEF Fr1After, SelectLastInSeq
<1>5. \A u : VideoAfter(seen[u].list)' = VideoAfter(seen[u].list)
  BY DEF VideoAfter
<1>6. \A u : BunnyAfter(seen[u].list)' = BunnyAfter(seen[u].list)
  BY <1>2 DEF BunnyAfter
<1> QED BY <1>3, <1>4, <1>5, <1>6 DEF After, FinalmaskAfter, EdgeAfter

\* What stays while rows, clients and files do.
LEMMA SamePlaces ==
    ASSUME UNCHANGED <<kind, row, user, seen, edited, file>>
    PROVE  /\ Seen' = Seen /\ (NoServerEdited' <=> NoServerEdited) /\ (AllFine' <=> AllFine)
           /\ \A u : (Given(u)' <=> Given(u)) /\ (Usable(u)' <=> Usable(u)) /\ (Holds(u)' <=> Holds(u))
                     /\ (Checked(u)' <=> Checked(u))
           /\ touched' = touched \/ kind # "edge" => Watched' = Watched
           /\ touched' = touched => Active' = Active
<1>1. Seen' = Seen /\ (NoServerEdited' <=> NoServerEdited)
  BY DEF Seen, NoServerEdited
<1>3. AllFine' <=> AllFine
  BY DEF AllFine, Fine, Masks
<1>4. \A u : Given(u)' <=> Given(u)
  BY AfterStays DEF Given
<1>5. \A u : (Usable(u)' <=> Usable(u)) /\ (Holds(u)' <=> Holds(u))
  BY DEF Usable, Holds
<1>6. \A u : Checked(u)' <=> Checked(u)
  BY <1>1 DEF Checked, ListIsRight
<1>7. touched' = touched \/ kind # "edge" => Watched' = Watched
  BY <1>1 DEF Watched
<1>8. touched' = touched => Active' = Active
  BY DEF Active
<1> QED BY <1>1, <1>3, <1>4, <1>5, <1>6, <1>7, <1>8

\* All previews were right: the clients may be changed.
LEMMA PreviewedRight ==
    ASSUME Safe, Right, Previewed
    PROVE  Right'
<1>1. UNCHANGED <<kind, row, user, seen, edited, touched, file, cache, failing>> /\ at = "preview" /\ left = <<>>
  BY DEF Previewed, script, progress, foreign
<1>2. Known'
  BY <1>1, KnownStays DEF Right, Known
<1>3. CASE Rollback
  <2>1. at' \in {"died", "undo list", "undo server"}
    BY <1>1, <1>3, RollbackPlaces DEF Previewed, script, progress
  <2> QED BY <1>2, <2>1, OverRight DEF Undoing
<1>4. CASE ~Rollback
  <2>1. /\ ~failing
        /\ \/ kind = "mask" /\ at' = "files" /\ left' = Listing(seen)
           \/ kind # "mask" /\ at' = "apply" /\ left' = ToPatch
    BY <1>4 DEF Previewed, Goto
  <2>2. kind # "edge"
    BY <1>1 DEF Safe, Typed, Course
  <2>3. ToSet(left') = Seen /\ ToSet(left) = {}
    BY <1>1, <2>1, <2>2, ListingTyped, ToPatchTyped, SetOfEmpty DEF Seen
  <2>4. /\ Seen' = Seen /\ (NoServerEdited' <=> NoServerEdited) /\ (AllFine' <=> AllFine) /\ Watched' = Watched
        /\ \A u : (Given(u)' <=> Given(u)) /\ (Usable(u)' <=> Usable(u))
    BY <1>1, SamePlaces
  <2>5. Written'
    BY <1>1, <2>1, <2>4 DEF Right, Written, Changing
  <2>6. Patched'
    <3>1. ASSUME kind = "mask", NEW u \in Seen \ edited PROVE Given(u)
      <4>1. ~Changed(u) /\ After(seen[u].list) = seen[u].list
        BY <3>1 DEF Safe, Changes, Seen, After
      <4> QED BY <3>1, <4>1 DEF Changed, Given
    <3> QED BY <1>1, <2>1, <2>3, <2>4, <3>1 DEF Patched
  <2>7. Previews'
    <3>1. kind \in {"fr1", "finalmask", "video"} => \A u \in Seen : Usable(u)
      BY <1>1, <2>1, <2>3 DEF Right, Previews
    <3> QED BY <1>1, <2>1, <2>4, <3>1 DEF Previews
  <2>8. Files'
    <3>1. Watched' \subseteq ToSet(left')
      BY <2>2, <2>3, <2>4 DEF Watched
    <3> QED BY <1>1, <2>1, <3>1 DEF Files
  <2>9. Checks'
    BY <1>1, <2>1, <2>2 DEF Checks
  <2> QED BY <1>2, <2>5, <2>6, <2>7, <2>8, <2>9 DEF Right
<1> QED BY <1>3, <1>4

\* A client is given its list.
LEMMA ApplyRight ==
    ASSUME Safe, Right, Apply
    PROVE  Right'
<1>1. /\ UNCHANGED <<kind, row, seen, edited, touched, file, cache, failing>> /\ at = "apply" /\ left # <<>>
      /\ Write(Head(left), After(seen[Head(left)].list))
      /\ \/ kind = "video" /\ at' = "apply file" /\ left' = left
         \/ kind # "video" /\ at' = "apply" /\ left' = Tail(left)
  BY DEF Apply, NextOne, script, foreign
<1>2. PICK h : h = Head(left)
  OBVIOUS
<1>3. /\ h \in Seen /\ ToSet(left) \subseteq ToSet(Tail(left)) \cup {h}
      /\ h \in Users /\ After(seen[h].list) \in Seq(Ids) /\ user \in Clients
  <2>1. left \in Seq(Seen)
    BY <1>1 DEF Safe, Typed, Course, OfSeen
  <2>2. h \in Seen /\ ToSet(left) \subseteq ToSet(Tail(left)) \cup {h}
    BY <1>1, <1>2, <2>1, HeadTail
  <2> QED BY <2>2, WantedTyped DEF Safe, Typed, Data
<1>4. /\ \A v \in Users : v # h => user'[v] = user[v]
      /\ user[h] # None => user'[h].list = After(seen[h].list)
  BY <1>1, <1>2, <1>3, WriteTyped
<1>5. Seen' = Seen /\ Seen \subseteq Users /\ (NoServerEdited' <=> NoServerEdited)
  BY <1>1 DEF Seen, NoServerEdited
<1>6. Known'
  BY <1>1, <1>2, <1>3, KnownWritten DEF Right
<1>7. Written'
  BY <1>1 DEF Right, Written, NoServerEdited, AllFine, Fine, Masks, Changing
<1>8. Patched'
  <2>1. \A u : After(seen[u].list)' = After(seen[u].list)
    BY <1>1, AfterStays
  <2>2. \A v \in Seen \ edited : v # h => (Given(v)' <=> Given(v))
    BY <1>4, <1>5, <2>1 DEF Given
  <2>3. h \notin edited => Given(h)'
    BY <1>3, <1>4, <2>1 DEF Given, Right, Known
  <2>4. ASSUME kind # "edge", NEW v \in Seen \ edited, v # h PROVE v \in ToSet(Tail(left)) \/ Given(v)
    BY <1>1, <1>3, <2>4 DEF Right, Patched
  <2>5. ASSUME kind # "edge", NEW v \in Seen \ edited PROVE v \in ToSet(Tail(left)) \/ Given(v)'
    BY <2>2, <2>3, <2>4, <2>5
  <2> QED BY <1>1, <1>5, <2>5 DEF Patched
<1>9. Previews'
  BY <1>1, <1>5 DEF Right, Previews, Usable, Changing
<1>10. Files'
  <2>1. CASE kind = "video"
    <3>1. \A v \in Seen : v # h => (Holds(v)' <=> Holds(v))
      BY <1>1, <1>4, <1>5 DEF Holds
    <3>2. h \in ToSet(left)
      <4>1. left \in Seq(Seen)
        BY <1>1 DEF Safe, Typed, Course, OfSeen
      <4> QED BY <1>1, <1>2, <4>1, HeadTail
    <3> QED BY <1>1, <1>5, <2>1, <3>1, <3>2 DEF Right, Files, Watched
  <2>2. CASE kind # "video"
    BY <1>1, <2>2 DEF Files
  <2> QED BY <2>1, <2>2
<1>11. Checks'
  BY <1>1 DEF Checks
<1> QED BY <1>6, <1>7, <1>8, <1>9, <1>10, <1>11 DEF Right

\* The file of a client that the script works on.
LEMMA WantedHolds ==
    ASSUME Safe, Right, NEW u \in Seen \ edited, Given(u), AllFine, UNCHANGED <<kind, user>>,
           file'[u] = FileOf(Wanted(u))
    PROVE  Holds(u)'
<1>1. /\ Wanted(u) \in User /\ row \in Documents /\ cache \in Bodies /\ seen[u] \in User
      /\ Wanted(u) = [seen[u] EXCEPT !.list = After(seen[u].list)]
  BY WantedTyped DEF Safe, Typed, Data
<1>2. /\ Wanted(u).list = user[u].list /\ Wanted(u).active = user[u].active /\ Wanted(u).custom = user[u].custom
  BY <1>1 DEF User, Given, Right, Known
<1>3. /\ FileOf(Wanted(u)) # None /\ TargetsMasked(FileOf(Wanted(u)))
      /\ kind # "mask" /\ Wanted(u).active /\ ~Wanted(u).custom =>
           \A id \in ToSet(Targets) \cap ToSet(Wanted(u).list) : HasLine(FileOf(Wanted(u)), id)
  BY <1>1, FileHolds
<1> QED BY <1>2, <1>3 DEF Holds

\* Store writes one file.
LEMMA StoreFiles ==
    ASSUME Safe, NEW u \in Users, NEW doc, Store(u, doc)
    PROVE  file'[u] = FileOf(doc) /\ \A v \in Users : v # u => file'[v] = file[v]
BY DEF Store, Safe, Typed, Data, Bodies

\* Its file follows, for the scripts that write it at once.
LEMMA ApplyFileRight ==
    ASSUME Safe, Right, ApplyFile
    PROVE  Right'
<1>1. /\ UNCHANGED <<kind, row, user, seen, edited, touched>> /\ at = "apply file" /\ left # <<>>
      /\ at' = "apply" /\ left' = Tail(left) /\ Store(Head(left), Wanted(Head(left)))
  BY DEF ApplyFile, Goto, script, progress, foreign, Safe, Typed, Course
<1>2. PICK h : h = Head(left)
  OBVIOUS
<1>3. h \in Seen /\ ToSet(left) \subseteq ToSet(Tail(left)) \cup {h} /\ h \in Users
  <2>1. left \in Seq(Seen)
    BY <1>1 DEF Safe, Typed, Course, OfSeen
  <2> QED BY <1>1, <1>2, <2>1, HeadTail DEF Seen
<1>4. file'[h] = FileOf(Wanted(h)) /\ \A v \in Users : v # h => file'[v] = file[v]
  BY <1>1, <1>2, <1>3, StoreFiles
<1>5. Seen' = Seen /\ Seen \subseteq Users /\ (NoServerEdited' <=> NoServerEdited)
  BY <1>1 DEF Seen, NoServerEdited
<1>6. Known'
  BY <1>1, KnownStays DEF Right, Known
<1>7. Written'
  BY <1>1 DEF Right, Written, NoServerEdited, AllFine, Fine, Masks, Changing
<1>8. Patched'
  <2>1. \A u : After(seen[u].list)' = After(seen[u].list)
    BY <1>1, AfterStays
  <2>2. \A v : Given(v)' <=> Given(v)
    BY <1>1, <2>1 DEF Given
  <2> QED BY <1>1, <1>5, <2>2 DEF Right, Patched
<1>9. Previews'
  BY <1>1, <1>5 DEF Right, Previews, Usable, Changing
<1>10. Files'
  <2> SUFFICES ASSUME NoServerEdited, kind = "video", NEW v \in Seen \ edited, v \notin ToSet(Tail(left))
               PROVE  Holds(v)'
    BY <1>1, <1>5 DEF Files, Watched
  <2>1. CASE v = h
    <3>1. Given(h) /\ AllFine
      BY <1>1, <2>1 DEF Right, Patched, Written, Changing
    <3> QED BY <1>1, <1>4, <2>1, <3>1, WantedHolds
  <2>2. CASE v # h
    <3>1. Holds(v)
      BY <1>1, <1>3, <2>2 DEF Right, Files, Watched
    <3> QED BY <1>1, <1>4, <1>5, <2>2, <3>1 DEF Holds
  <2> QED BY <2>1, <2>2
<1>11. Checks'
  BY <1>1 DEF Checks
<1> QED BY <1>6, <1>7, <1>8, <1>9, <1>10, <1>11 DEF Right

\* All lists are given.
LEMMA AppliedRight ==
    ASSUME Safe, Right, Applied
    PROVE  Right'
<1>1. /\ UNCHANGED <<kind, row, user, seen, edited, file>> /\ at = "apply" /\ left = <<>> /\ at' = "files"
      /\ \/ kind = "edge" /\ listed' = [u \in Users |-> user[u]] /\ touched' = {} /\ left' = Listing(user)
         \/ /\ kind # "edge" /\ UNCHANGED <<listed, touched>>
            /\ left' = IF kind = "video" THEN <<>> ELSE Listing(seen)
  BY DEF Applied, Goto, progress
<1>2. ToSet(left) = {} /\ ToSet(Listing(seen)) = Seen /\ ToSet(Listing(user)) = {u \in Users : user[u] # None}
  BY <1>1, SetOfEmpty, ListingTyped DEF Seen
<1>3. /\ Seen' = Seen /\ (NoServerEdited' <=> NoServerEdited) /\ (AllFine' <=> AllFine)
      /\ kind # "edge" => Watched' = Watched
      /\ \A u : (Given(u)' <=> Given(u)) /\ (Usable(u)' <=> Usable(u)) /\ (Holds(u)' <=> Holds(u))
  BY <1>1, SamePlaces
<1>4. Known'
  <2>1. touched' \subseteq edited'
    BY <1>1 DEF Right, Known
  <2> QED BY <1>1, <2>1, KnownStays DEF Right
<1>5. Written'
  BY <1>1, <1>3 DEF Right, Written, Changing
<1>6. Patched'
  BY <1>1, <1>2, <1>3 DEF Right, Patched
<1>7. Previews'
  BY <1>1, <1>3 DEF Right, Previews, Changing
<1>8. Files'
  <2>1. CASE kind = "edge"
    <3>1. Watched' \subseteq ToSet(left')
      BY <1>1, <1>2, <2>1 DEF Watched
    <3> QED BY <1>1, <2>1, <3>1 DEF Files
  <2>2. CASE kind # "edge"
    <3>1. Watched' = Seen \ edited
      BY <1>3, <2>2 DEF Watched
    <3>2. kind = "video" => \A u \in Watched : NoServerEdited => Holds(u)
      BY <1>1, <1>2 DEF Right, Files
    <3> QED BY <1>1, <1>2, <1>3, <2>2, <3>1, <3>2 DEF Files
  <2> QED BY <2>1, <2>2
<1>9. Checks'
  BY <1>1 DEF Checks
<1> QED BY <1>4, <1>5, <1>6, <1>7, <1>8, <1>9 DEF Right

\* A file is written from the row as it is.
LEMMA StoreFileRight ==
    ASSUME Safe, Right, StoreFile
    PROVE  Right'
<1>1. /\ UNCHANGED <<kind, row, user, seen, listed, edited, touched>> /\ at = "files" /\ at' = at
      /\ left # <<>> /\ left' = Tail(left)
      /\ Store(Head(left), IF kind = "edge" THEN listed[Head(left)] ELSE Wanted(Head(left)))
  BY DEF StoreFile, NextOne, script, progress, foreign
<1>2. PICK h : h = Head(left)
  OBVIOUS
<1>3. /\ h \in IF kind = "edge" THEN Listed ELSE Seen
      /\ ToSet(left) \subseteq ToSet(Tail(left)) \cup {h} /\ h \in Users
  <2>1. left \in Seq(IF kind = "edge" THEN Listed ELSE Seen)
    BY <1>1 DEF Safe, Typed, Course
  <2> QED BY <1>1, <1>2, <2>1, HeadTail DEF Seen, Listed
<1>4. /\ file'[h] = FileOf(IF kind = "edge" THEN listed[h] ELSE Wanted(h))
      /\ \A v \in Users : v # h => file'[v] = file[v]
  BY <1>1, <1>2, <1>3, StoreFiles
<1>5. /\ Seen' = Seen /\ Seen \subseteq Users /\ (NoServerEdited' <=> NoServerEdited)
      /\ Watched' = Watched /\ Watched \subseteq Users
  BY <1>1 DEF Seen, NoServerEdited, Watched
<1>6. Known'
  BY <1>1, KnownStays DEF Right, Known
<1>7. Written'
  BY <1>1 DEF Right, Written, NoServerEdited, AllFine, Fine, Masks, Changing
<1>8. Patched'
  <2>1. \A v : Given(v)' <=> Given(v)
    BY <1>1, AfterStays DEF Given
  <2> QED BY <1>1, <1>5, <2>1 DEF Right, Patched
<1>9. Previews'
  BY <1>1, <1>5 DEF Right, Previews, Usable, Changing
<1>10. Files'
  <2> SUFFICES ASSUME NoServerEdited, NEW v \in Watched, v \notin ToSet(Tail(left))
               PROVE  Holds(v)'
    BY <1>1, <1>5 DEF Files
  <2>1. AllFine
    BY <1>1 DEF Right, Written, Changing
  <2>2. CASE v # h
    <3>1. Holds(v)
      BY <1>1, <1>3, <2>2 DEF Right, Files
    <3> QED BY <1>1, <1>4, <1>5, <2>2, <3>1 DEF Holds
  <2>3. CASE v = h /\ kind # "edge"
    <3>1. Given(h) /\ h \in Seen \ edited
      BY <1>1, <2>3 DEF Right, Patched, Watched
    <3> QED BY <1>1, <1>4, <2>1, <2>3, <3>1, WantedHolds
  <2>4. CASE v = h /\ kind = "edge"
    <3>1. listed[h] = user[h] /\ user[h] # None /\ h \in Users
      BY <1>1, <2>4 DEF Right, Checks, Watched
    <3>2. user[h] \in User /\ row \in Documents /\ cache \in Bodies
      BY <3>1 DEF Safe, Typed, Data, Clients
    <3>3. file'[h] = FileOf(user[h])
      BY <1>4, <2>4, <3>1
    <3>4. /\ FileOf(user[h]) # None /\ TargetsMasked(FileOf(user[h]))
          /\ kind # "mask" /\ user[h].active /\ ~user[h].custom =>
               \A id \in ToSet(Targets) \cap ToSet(user[h].list) : HasLine(FileOf(user[h]), id)
      BY <2>1, <3>2, FileHolds
    <3> QED BY <1>1, <2>4, <3>3, <3>4 DEF Holds
  <2> QED BY <2>2, <2>3, <2>4
<1>11. Checks'
  BY <1>1 DEF Right, Checks
<1> QED BY <1>6, <1>7, <1>8, <1>9, <1>10, <1>11 DEF Right

\* All files are written: the clients are listed again.
LEMMA FilesStoredRight ==
    ASSUME Safe, Right, FilesStored
    PROVE  Right'
<1>1. /\ UNCHANGED <<kind, row, user, seen, edited, file>> /\ at = "files" /\ left = <<>>
      /\ \/ kind \notin VerifiesAgain /\ at' = "ok" /\ UNCHANGED <<listed, touched>>
         \/ /\ kind = "edge" /\ at' = "verify" /\ UNCHANGED <<listed, touched>> /\ cache' = [u \in Users |-> None]
            /\ left' = Keep(Listing(listed), {u \in Users : listed[u] # None /\ listed[u].active})
         \/ /\ kind \in VerifiesAgain \ {"edge"} /\ at' = "verify" /\ listed' = Selected /\ touched' = {}
            /\ left' = Listing(Selected)
  BY DEF FilesStored, Goto, progress
<1>2. /\ ToSet(left) = {}
      /\ ToSet(Listing(Selected)) = {u \in Users : Selected[u] # None}
      /\ ToSet(Keep(Listing(listed), {u \in Users : listed[u] # None /\ listed[u].active}))
           = {u \in Users : listed[u] # None /\ listed[u].active}
  <2>1. Listing(listed) \in Seq(Listed) /\ ToSet(Listing(listed)) = Listed
    BY ListingTyped DEF Listed
  <2>2. PICK ids : ids = {u \in Users : listed[u] # None /\ listed[u].active}
    OBVIOUS
  <2>3. ToSet(Keep(Listing(listed), ids)) = Listed \cap ids
    BY <2>1, KeptElements
  <2>4. Listed \cap ids = ids
    BY <2>2 DEF Listed
  <2> QED BY <1>1, <2>2, <2>3, <2>4, SetOfEmpty, ListingTyped
<1>3. /\ Seen' = Seen /\ (NoServerEdited' <=> NoServerEdited) /\ (AllFine' <=> AllFine) /\ Watched' = Watched
      /\ \A u : (Given(u)' <=> Given(u)) /\ (Usable(u)' <=> Usable(u)) /\ (Holds(u)' <=> Holds(u))
  BY <1>1, SamePlaces
<1>4. Known'
  <2>1. touched' \subseteq edited'
    BY <1>1 DEF Right, Known
  <2> QED BY <1>1, <2>1, KnownStays DEF Right
<1>5. Written'
  BY <1>1, <1>3 DEF Right, Written, Changing
<1>6. Patched'
  BY <1>1, <1>3 DEF Right, Patched
<1>7. Previews'
  BY <1>1, <1>3 DEF Right, Previews, Changing
<1>8. Files'
  BY <1>1, <1>2, <1>3 DEF Right, Files
<1>9. Checks'
  <2>1. CASE kind \notin VerifiesAgain
    BY <1>1, <2>1 DEF Checks, VerifiesAgain
  <2>2. CASE kind = "edge"
    <3>1. /\ at' = "verify" /\ UNCHANGED <<kind, user, listed, touched>>
          /\ ToSet(left') = {u \in Users : listed[u] # None /\ listed[u].active}
      BY <1>1, <1>2, <2>2 DEF VerifiesAgain
    <3>2. \A u \in Users \ touched : listed[u] = user[u]
      BY <1>1, <2>2 DEF Right, Checks
    <3>3. Active' = Active /\ Active \subseteq ToSet(left') /\ Active \subseteq Users \ touched
      BY <3>1, <3>2 DEF Active
    <3>4. \A u \in Users : \A list : CachedOf(u, list)'
      BY <1>1, <2>2 DEF CachedOf, VerifiesAgain
    <3> QED BY <3>1, <3>2, <3>3, <3>4 DEF Checks, CachedOf
  <2>3. CASE kind \in VerifiesAgain \ {"edge"}
    <3>1. at' = "verify" /\ UNCHANGED <<kind, user>> /\ listed' = Selected
          /\ ToSet(left') = {u \in Users : Selected[u] # None}
      BY <1>1, <1>2, <2>3
    <3>2. \A u \in Active' : Selected[u] = user[u] /\ user[u] # None /\ u \in Users
      BY <3>1 DEF Active, Selected
    <3> QED BY <2>3, <3>1, <3>2 DEF Checks
  <2> QED BY <2>1, <2>2, <2>3
<1> QED BY <1>4, <1>5, <1>6, <1>7, <1>8, <1>9 DEF Right

\* What a verification that finds nothing has shown.
LEMMA VerifyShows ==
    ASSUME Safe, Right, at = "verify", kind \in {"cloudflare", "bunny", "edge"}, NEW u \in Active, UserIsRight(u)
    PROVE  Checked(u)
<1>1. listed[u] = user[u] /\ u \in Users /\ user[u] # None /\ user[u].active
  BY DEF Right, Checks, Active
<1>2. user[u] \in User /\ user[u].list \in Seq(Ids) /\ row \in Documents
  BY <1>1 DEF Safe, Typed, Data, Clients, User
<1>3. PICK body : body = BodyOf(u, user[u])
  OBVIOUS
<1>4. PICK first \in ToSet(Targets) : TRUE
  BY OwnIds
<1>5. ~HasTargets(<<>>)
  BY <1>4 DEF HasTargets, HasLine
<1>6. CASE kind = "cloudflare"
  <2>1. HasTargets(body) /\ TargetsFirst(user[u].list) /\ file[u] # None /\ HasTargets(file[u])
    BY <1>1, <1>3, <1>6 DEF UserIsRight, CloudflareUser, CloudflareBody
  <2>2. ~user[u].custom
    BY <1>3, <1>5, <2>1 DEF BodyOf
  <2> QED BY <1>2, <1>6, <2>1, <2>2, FirstAreThere DEF Checked, ListIsRight
<1>7. CASE kind = "bunny"
  <2>1. BunnyBody(body) /\ TargetsFirst(user[u].list) /\ file[u] # None /\ HasTargets(file[u])
    BY <1>1, <1>3, <1>7 DEF UserIsRight, BunnyUser
  <2>2. body # <<>>
    <3> SUFFICES ASSUME body = <<>> PROVE FALSE
      OBVIOUS
    <3>1. PICK names : names = [i \in DOMAIN body |-> body[i][1]]
      OBVIOUS
    <3>2. names = <<>> /\ IsPrefix(Targets, names)
      BY <2>1, <3>1 DEF BunnyBody, TargetsFirst
    <3>3. Len(Targets) <= 0 /\ Targets \in Seq(Ids) /\ Targets # <<>>
      BY <3>2, OwnIds, TargetsAssumption DEF IsPrefix
    <3> QED BY <3>3
  <2>3. ~user[u].custom
    BY <1>3, <2>2 DEF BodyOf
  <2> QED BY <1>2, <1>7, <2>1, <2>3, FirstAreThere DEF Checked, ListIsRight
<1>8. CASE kind = "edge"
  <2>1. HasTargets(body)
    BY <1>3, <1>8 DEF UserIsRight, EdgeUser, EdgeBody
  <2>2. ~user[u].custom
    BY <1>3, <1>5, <2>1 DEF BodyOf
  <2>3. PICK list : list = user[u].list
    OBVIOUS
  <2>4. CachedOf(u, list)
    BY <1>8, <2>3 DEF Right, Checks
  <2>5. ToSet(Targets) \subseteq ToSet(list)
    BY <1>1, <1>2, <1>3, <2>1, <2>3, <2>4, BodyNames DEF HasTargets
  <2>6. u \in Watched
    BY <1>8 DEF Watched, Active
  <2>7. NoServerEdited => Holds(u)
    BY <2>6 DEF Right, Files
  <2>8. NoServerEdited => file[u] # None /\ HasTargets(file[u])
    BY <1>1, <1>8, <2>2, <2>3, <2>5, <2>7 DEF Holds, HasTargets
  <2> QED BY <1>8, <2>2, <2>3, <2>5, <2>8 DEF Checked, ListIsRight
<1> QED BY <1>6, <1>7, <1>8

\* A client is verified.
LEMMA VerifyRight ==
    ASSUME Safe, Right, Verify
    PROVE  Right'
<1>1. UNCHANGED <<kind, row, user, seen, listed, edited, touched, file>> /\ at = "verify" /\ left # <<>>
  BY DEF Verify, script, foreign
<1>2. Known'
  BY <1>1, KnownStays DEF Right, Known
<1>3. CASE at' = "died"
  BY <1>2, <1>3, OverRight
<1>4. CASE at' # "died"
  <2>1. /\ at' = at /\ left' = Tail(left) /\ (kind = "edge" => user[Head(left)] # None)
        /\ ~failing' => ~failing /\ UserIsRight(Head(left))
        /\ Caching(Head(left), IF kind = "edge" THEN user[Head(left)] ELSE listed[Head(left)])
    BY <1>4 DEF Verify, NextOne, Goto
  <2>2. PICK h : h = Head(left)
    OBVIOUS
  <2>3. h \in Users /\ ToSet(left) \subseteq ToSet(Tail(left)) \cup {h}
    <3>1. left \in Seq(Listed)
      BY <1>1 DEF Safe, Typed, Course
    <3> QED BY <1>1, <2>2, <3>1, HeadTail DEF Listed
  <2>4. /\ Seen' = Seen /\ (NoServerEdited' <=> NoServerEdited) /\ (AllFine' <=> AllFine) /\ Watched' = Watched
        /\ \A u : (Given(u)' <=> Given(u)) /\ (Usable(u)' <=> Usable(u)) /\ (Holds(u)' <=> Holds(u))
                  /\ (Checked(u)' <=> Checked(u))
        /\ Active' = Active /\ Active \subseteq Users
    BY <1>1, SamePlaces DEF Active
  <2>5. Written' /\ Patched' /\ Previews' /\ Files'
    BY <1>1, <2>1, <2>4 DEF Right, Written, Patched, Previews, Files, Changing
  <2>6. ASSUME kind = "edge", NEW v \in Active PROVE CachedOf(v, user[v].list)'
    <3>1. PICK list : list = user[h].list
      OBVIOUS
    <3>2. row \in Documents /\ cache \in Bodies /\ user[h] \in User
      BY <2>1, <2>2, <2>3, <2>6 DEF Safe, Typed, Data, Clients
    <3>3. CASE v = h
      <4>1. CachedOf(h, list)
        BY <1>1, <2>6, <3>1, <3>3 DEF Right, Checks
      <4>2. CachedOf(h, list)'
        BY <2>1, <2>2, <2>3, <2>6, <3>1, <3>2, <4>1, CachingNames
      <4> QED BY <1>1, <3>1, <3>3, <4>2 DEF CachedOf
    <3>4. CASE v # h
      <4>1. cache'[v] = cache[v]
        BY <2>1, <2>2, <2>4, <2>6, <3>2, <3>4 DEF Caching, Bodies
      <4> QED BY <1>1, <2>6, <4>1 DEF Right, Checks, CachedOf
    <3> QED BY <3>3, <3>4
  <2>7. ASSUME kind \in {"cloudflare", "bunny", "edge"}, ~failing', NEW v \in Active, v \notin ToSet(Tail(left))
        PROVE  Checked(v)
    <3>1. CASE v = h
      BY <1>1, <2>1, <2>2, <2>7, <3>1, VerifyShows
    <3>2. CASE v # h
      BY <1>1, <2>1, <2>3, <2>7, <3>2 DEF Right, Checks
    <3> QED BY <3>1, <3>2
  <2>8. Checks'
    <3>1. kind \in {"cloudflare", "bunny", "edge"} => \A u \in Active : listed[u] = user[u]
      BY <1>1 DEF Right, Checks
    <3>2. kind = "edge" => \A u \in Users \ touched : listed[u] = user[u]
      BY <1>1 DEF Right, Checks
    <3> QED BY <1>1, <2>1, <2>4, <2>6, <2>7, <3>1, <3>2 DEF Checks
  <2> QED BY <1>2, <2>5, <2>8 DEF Right
<1> QED BY <1>3, <1>4

\* None was wrong: success.
LEMMA VerifiedRight ==
    ASSUME Safe, Right, Verified
    PROVE  Right'
<1>1. UNCHANGED <<kind, row, user, seen, listed, edited, touched, file, applied>> /\ at = "verify" /\ left = <<>>
  BY DEF Verified, script, progress, foreign
<1>2. Known'
  BY <1>1, KnownStays DEF Right, Known
<1>3. CASE Rollback
  <2>1. at' \in {"died", "undo list", "undo server"}
    BY <1>1, <1>3, RollbackPlaces DEF Changing
  <2> QED BY <1>2, <2>1, OverRight DEF Undoing
<1>4. CASE at' = "failed"
  BY <1>2, <1>4, OverRight
<1>5. CASE ~Rollback /\ at' # "failed"
  <2>1. at' = "ok" /\ ~failing
    BY <1>5 DEF Verified, Goto
  <2>2. /\ Seen' = Seen /\ (NoServerEdited' <=> NoServerEdited) /\ (AllFine' <=> AllFine) /\ Watched' = Watched
        /\ \A u : (Given(u)' <=> Given(u)) /\ (Usable(u)' <=> Usable(u)) /\ (Holds(u)' <=> Holds(u))
                  /\ (Checked(u)' <=> Checked(u))
        /\ Active' = Active
    BY <1>1, SamePlaces
  <2>3. Written' /\ Patched' /\ Previews' /\ Files'
    BY <1>1, <2>1, <2>2 DEF Right, Written, Patched, Previews, Files, Changing
  <2>4. Checks'
    <3>1. ToSet(left) = {}
      BY <1>1, SetOfEmpty
    <3> QED BY <1>1, <2>1, <2>2, <3>1 DEF Right, Checks
  <2> QED BY <1>2, <2>3, <2>4 DEF Right
<1> QED BY <1>3, <1>4, <1>5

\* A rollback is no success.
LEMMA UndoingRight ==
    ASSUME Safe, Right, UndoList \/ UndoFile \/ UndoServer \/ Undone \/ Fails \/ FailsLate \/ UndoFails \/ Killed
    PROVE  Right'
<1>1. UNCHANGED <<kind, seen, edited, touched, applied>>
  BY DEF UndoList, UndoFile, UndoServer, Undone, Fails, FailsLate, UndoFails, Killed, script, progress, foreign
<1>2. touched' \subseteq edited'
  BY <1>1 DEF Right, Known
<1>3. CASE UndoFile \/ UndoServer \/ Undone \/ UndoFails \/ Killed
  <2>1. user' = user /\ at' \in Undoing \cup {"died"} /\ ((at # "list" /\ at # "died") \/ at' = "died")
    BY <1>3 DEF UndoFile, UndoServer, Undone, UndoFails, Killed, Goto, NextOne, UndoUsers, UndoServers, Undoing
  <2>2. Known'
    BY <1>1, <1>2, <2>1, KnownStays DEF Right
  <2> QED BY <2>1, <2>2, OverRight
<1>4. CASE Fails
  <2>1. user' = user /\ (at' = "died" \/ (at \in {"publish", "preview"} \cup Changing /\ Rollback))
    BY <1>4 DEF Fails, Goto, Changing
  <2>2. at' \in {"died", "undo list", "undo server"} /\ ((at # "list" /\ at # "died") \/ at' = "died")
    BY <1>1, <2>1, RollbackPlaces DEF Changing
  <2>3. Known'
    BY <1>1, <1>2, <2>1, <2>2, KnownStays DEF Right
  <2> QED BY <2>2, <2>3, OverRight DEF Undoing
<1>5. CASE UndoList
  <2>1. at = "undo list" /\ left # <<>> /\ at' = "undo file" /\ Write(Head(left), seen[Head(left)].list)
    BY <1>5 DEF UndoList
  <2>2. Head(left) \in Seen
    <3>1. left \in Seq(Seen)
      BY <2>1 DEF Safe, Typed, Course, OfSeen
    <3> QED BY <2>1, <3>1, HeadTail
  <2>3. Known'
    BY <1>1, <2>1, <2>2, WantedTyped, KnownWritten DEF Right, Safe, Typed
  <2> QED BY <2>1, <2>3, OverRight DEF Undoing
<1>6. CASE FailsLate
  <2>1. /\ left # <<>> /\ at \in {"publish", "apply"} /\ Rollback
        /\ at = "publish" => user' = user
        /\ at = "apply" => Write(Head(left), After(seen[Head(left)].list))
    BY <1>6 DEF FailsLate
  <2>2. at' \in {"died", "undo list", "undo server"}
    BY <1>1, <2>1, RollbackPlaces DEF Changing
  <2>3. CASE at = "publish"
    <3>1. Known'
      BY <1>1, <1>2, <2>1, <2>3, KnownStays DEF Right
    <3> QED BY <2>2, <3>1, OverRight DEF Undoing
  <2>4. CASE at = "apply"
    <3>1. left \in Seq(Seen)
      BY <2>4 DEF Safe, Typed, Course, OfSeen
    <3>2. Head(left) \in Seen
      BY <2>1, <3>1, HeadTail
    <3>3. Known'
      BY <1>1, <2>1, <2>4, <3>2, WantedTyped, KnownWritten DEF Right, Safe, Typed
    <3> QED BY <2>2, <3>3, OverRight DEF Undoing
  <2> QED BY <2>1, <2>3, <2>4
<1> QED BY <1>3, <1>4, <1>5, <1>6

\* What the panel and the clock do beside the script.
Beside ==
    /\ UNCHANGED <<kind, seen, listed, at, left, failing>>
    /\ edited \subseteq edited' /\ touched \subseteq touched' /\ touched' \subseteq edited'
    /\ at = "list" => edited' = edited
    /\ \A u \in Users \ touched' : user'[u] = user[u]
    /\ NoServerEdited' => row' = row
    /\ \A u \in Users \ touched' : \/ file'[u] = file[u]
                                   \/ user[u] # None /\ file'[u] = FileOf(user[u])
    /\ \A u \in Users : cache'[u] = cache[u] \/ cache'[u] = None

\* A step of another beside the script keeps what the script knows.
LEMMA BesideRight ==
    ASSUME Safe, Right, Beside
    PROVE  Right'
<1>1. /\ UNCHANGED <<kind, seen, listed, at, left, failing>> /\ Seen' = Seen /\ Seen \subseteq Users
      /\ edited \subseteq edited' /\ touched \subseteq touched' /\ touched' \subseteq edited'
      /\ \A u \in Users \ touched' : user'[u] = user[u]
      /\ NoServerEdited' => NoServerEdited /\ row' = row
  BY DEF Beside, Seen, NoServerEdited
<1>2. Known'
  BY <1>1, KnownStays DEF Right
<1>3. NoServerEdited' => (AllFine' <=> AllFine) /\ \A id : Fine(id)' <=> Fine(id)
  BY <1>1 DEF AllFine, Fine, Masks
<1>4. Written'
  BY <1>1, <1>3 DEF Right, Written
<1>5. Patched'
  <2>1. \A u \in Seen \ edited' : Given(u)' <=> Given(u)
    BY <1>1, AfterStays DEF Given
  <2> QED BY <1>1, <2>1 DEF Right, Patched
<1>6. \A u \in Users : \A list : CachedOf(u, list) => CachedOf(u, list)'
  BY DEF CachedOf, Beside
<1>7. Previews'
  <2>1. at' \in {"list", "servers"} => \A u \in Users : cache'[u] = None
    BY <1>1 DEF Right, Previews, Beside
  <2>2. kind' = "video" /\ at' \in {"bodies", "backup", "publish", "preview"} =>
          \A u \in Seen' : CachedOf(u, seen[u].list)'
    <3> SUFFICES ASSUME kind = "video", at \in {"bodies", "backup", "publish", "preview"}, NEW u \in Seen
                 PROVE  CachedOf(u, seen[u].list)'
      BY <1>1
    <3>1. PICK list : list = seen[u].list
      OBVIOUS
    <3>2. CachedOf(u, list)'
      BY <1>1, <1>6, <3>1 DEF Right, Previews
    <3> QED BY <1>1, <3>1, <3>2 DEF CachedOf
  <2>3. \A u : Usable(u)' <=> Usable(u)
    BY <1>1 DEF Usable
  <2> QED BY <1>1, <2>1, <2>2, <2>3 DEF Right, Previews, Changing
<1>8. Watched' \subseteq Watched /\ Watched' \subseteq Users \ touched'
  BY <1>1 DEF Watched
<1>9. Active' \subseteq Active /\ Active' \subseteq Users \ touched'
  BY <1>1 DEF Active
<1>10. ASSUME NEW u \in Users \ touched', NoServerEdited, AllFine, file'[u] # file[u]
       PROVE  /\ user[u] # None /\ file'[u] # None /\ TargetsMasked(file'[u])
              /\ kind # "mask" /\ user[u].active /\ ~user[u].custom =>
                   \A id \in ToSet(Targets) \cap ToSet(user[u].list) : HasLine(file'[u], id)
  <2>1. user[u] # None /\ file'[u] = FileOf(user[u])
    BY <1>10 DEF Beside
  <2>2. user[u] \in User /\ row \in Documents /\ cache \in Bodies
    BY <2>1 DEF Safe, Typed, Data, Clients
  <2> QED BY <1>10, <2>1, <2>2, FileHolds
<1>11. Files'
  <2>1. ASSUME NoServerEdited', NEW u \in Watched', Holds(u), AllFine PROVE Holds(u)'
    <3>1. u \in Users \ touched' /\ user'[u] = user[u] /\ kind' = kind /\ NoServerEdited
      BY <1>1, <1>8, <2>1
    <3>2. CASE file'[u] = file[u]
      BY <2>1, <3>1, <3>2 DEF Holds
    <3>3. CASE file'[u] # file[u]
      BY <1>10, <2>1, <3>1, <3>3 DEF Holds
    <3> QED BY <3>2, <3>3
  <2>2. NoServerEdited' /\ at \in {"ok"} \cup Changing => AllFine
    BY <1>1 DEF Right, Written
  <2> QED BY <1>1, <1>8, <2>1, <2>2 DEF Right, Files, Changing
<1>12. Checks'
  <2>1. ASSUME at \in {"verify", "ok"}, kind # "mask", NEW u \in Active', Checked(u) PROVE Checked(u)'
    <3>1. u \in Users \ touched' /\ user'[u] = user[u] /\ kind' = kind /\ user[u] # None /\ user[u].active
      BY <1>1, <1>9 DEF Active
    <3>2. ListIsRight(user[u].list)'
      BY <2>1, <3>1 DEF Checked, ListIsRight
    <3>3. (ToSet(Targets) \subseteq ToSet(user[u].list))' /\ ~user'[u].custom
      BY <2>1, <3>1 DEF Checked
    <3>4. ASSUME NoServerEdited' PROVE file'[u] # None /\ HasTargets(file'[u])
      <4>1. CASE file'[u] = file[u]
        BY <1>1, <2>1, <3>4, <4>1 DEF Checked
      <4>2. CASE file'[u] # file[u]
        <5>1. AllFine /\ NoServerEdited
          BY <1>1, <2>1, <3>4 DEF Right, Written, Changing
        <5> QED BY <1>10, <2>1, <3>1, <4>2, <5>1 DEF Checked, HasTargets
      <4> QED BY <4>1, <4>2
    <3> QED BY <3>2, <3>3, <3>4 DEF Checked
  <2>2. ASSUME kind \in {"cloudflare", "bunny", "edge"}, at = "verify", NEW u \in Active'
        PROVE  /\ listed'[u] = user'[u]
               /\ kind = "edge" => CachedOf(u, user[u].list)'
    <3>1. u \in Users \ touched' /\ user'[u] = user[u] /\ u \in Active
      BY <1>1, <1>9
    <3>2. PICK list : list = user[u].list
      OBVIOUS
    <3>3. kind = "edge" => CachedOf(u, list)'
      BY <1>6, <2>2, <3>1, <3>2 DEF Right, Checks
    <3>4. kind = "edge" => CachedOf(u, user[u].list)'
      BY <3>1, <3>2, <3>3 DEF CachedOf
    <3> QED BY <1>1, <2>2, <3>1, <3>4 DEF Right, Checks
  <2>3. kind = "edge" /\ at \in {"files", "verify"} => \A u \in Users \ touched' : listed'[u] = user'[u]
    BY <1>1 DEF Right, Checks
  <2>4. ASSUME kind \in {"cloudflare", "bunny", "edge"}, at = "verify", ~failing, NEW u \in Active'
        PROVE  u \in ToSet(left) \/ Checked(u)'
    BY <1>9, <2>1, <2>4 DEF Right, Checks
  <2>5. ASSUME kind \in {"cloudflare", "bunny", "edge"}, at = "ok", NEW u \in Active'
        PROVE  Checked(u)'
    BY <1>9, <2>1, <2>5 DEF Right, Checks
  <2> QED BY <1>1, <2>2, <2>3, <2>4, <2>5 DEF Checks
<1> QED BY <1>2, <1>4, <1>5, <1>7, <1>11, <1>12 DEF Right

\* Steps of the panel.
LEMMA PanelRight ==
    ASSUME Safe, Right,
           \/ \E u \in Users : Expire(u) \/ Refresh(u) \/ EditUser(u) \/ CreateUser(u) \/ DeleteUser(u)
           \/ \E id \in Ids : EditServer(id)
           \/ UNCHANGED vars
    PROVE  Right'
<1>1. user \in Clients /\ file \in Bodies /\ cache \in Bodies /\ touched \subseteq edited
  BY DEF Safe, Typed, Data, Right, Known
<1>2. ASSUME NEW u \in Users, Expire(u) PROVE Beside
  BY <1>1, <1>2 DEF Expire, Beside, Bodies, script, progress, foreign
<1>3. ASSUME NEW u \in Users, Refresh(u) PROVE Beside
  BY <1>1, <1>3 DEF Refresh, Beside, Bodies, script, progress, foreign
<1>4. ASSUME NEW u \in Users, EditUser(u) PROVE Beside
  BY <1>1, <1>4 DEF EditUser, Panel, Beside, Clients, script, progress
<1>5. ASSUME NEW u \in Users, CreateUser(u) \/ DeleteUser(u) PROVE Beside
  BY <1>1, <1>5 DEF CreateUser, DeleteUser, Panel, Beside, Clients, Bodies, script, progress
<1>6. ASSUME NEW id \in Ids, EditServer(id) PROVE Beside
  <2>1. ~NoServerEdited'
    BY <1>6 DEF EditServer, Panel, NoServerEdited
  <2> QED BY <1>1, <1>6, <2>1 DEF EditServer, Panel, Beside, script, progress
<1>7. ASSUME UNCHANGED vars PROVE Beside
  BY <1>1, <1>7 DEF vars, Beside, script, progress, foreign
<1> QED BY <1>2, <1>3, <1>4, <1>5, <1>6, <1>7, BesideRight

\* Every step keeps the invariant.
LEMMA RightStep ==
    ASSUME Safe, Right, [Next]_vars
    PROVE  Right'
<1>1. CASE Step
  <2>1. CASE ListUsers \/ ReadServer \/ ServersRead \/ OldBody \/ BodiesBuilt \/ Backup \/ Publish \/ Published
    BY <2>1, ListUsersRight, ReadingRight, PublishingRight
  <2>2. CASE Preview \/ Previewed \/ Apply \/ ApplyFile \/ Applied
    BY <2>2, PreviewRight, PreviewedRight, ApplyRight, ApplyFileRight, AppliedRight
  <2>3. CASE StoreFile \/ FilesStored \/ Verify \/ Verified
    BY <2>3, StoreFileRight, FilesStoredRight, VerifyRight, VerifiedRight
  <2>4. CASE UndoList \/ UndoFile \/ UndoServer \/ Undone
    BY <2>4, UndoingRight
  <2> QED BY <1>1, <2>1, <2>2, <2>3, <2>4 DEF Step
<1>2. CASE Fails \/ FailsLate \/ UndoFails \/ Killed
  BY <1>2, UndoingRight
<1> QED BY <1>1, <1>2, PanelRight DEF Next

\* A script that reports success has published its servers to every client
\* that nobody has changed since it listed them, for any number of clients,
\* servers, failures and edits by others, and whichever script it is.
THEOREM SuccessIsPublished == Spec => []OkMeansPublished
BY SafeInit, SafeStep, RightInit, RightStep, RightImplies, PTL DEF Spec

-----------------------------------------------------------------------------
(* Lists in an order *)

\* All sequences of a set's elements.
LEMMA Enumerations ==
    ASSUME NEW R
    PROVE  /\ Esa!SetToSeqs(R) = {f \in [1 .. Cardinality(R) -> R] : \A i, j \in 1 .. Cardinality(R) : i # j => f[i] # f[j]}
           /\ Cdn!SetToSeqs(R) = {f \in [1 .. Cardinality(R) -> R] : \A i, j \in 1 .. Cardinality(R) : i # j => f[i] # f[j]}
<1>1. Esa!Cardinality(R) = Cardinality(R)
  BY DEF Esa!Cardinality, Cardinality
<1>2. Cdn!Cardinality(R) = Cardinality(R)
  BY DEF Cdn!Cardinality, Cardinality
<1>3. Esa!SetToSeqs(R) = {f \in [1 .. Cardinality(R) -> R] : \A i, j \in 1 .. Cardinality(R) : i # j => f[i] # f[j]}
  BY <1>1 DEF Esa!SetToSeqs
<1>4. Cdn!SetToSeqs(R) = {f \in [1 .. Cardinality(R) -> R] : \A i, j \in 1 .. Cardinality(R) : i # j => f[i] # f[j]}
  BY <1>2 DEF Cdn!SetToSeqs
<1> QED BY <1>3, <1>4

\* The rows in a list, each once.
Orders(R) == {list \in Esa!SetToSeqs(R) : \A i, j \in 1 .. Len(list) : i < j => list[i].ms <= list[j].ms}

\* The row that took least comes first, the list of the others behind it.
LEMMA LeastFirst ==
    ASSUME NEW R, IsFiniteSet(R), NEW x \in R, \A y \in R : y.ms \in Nat /\ x.ms <= y.ms,
           NEW g \in Orders(R \ {x})
    PROVE  Orders(R) # {}
<1>1. PICK n : n = Cardinality(R \ {x})
  OBVIOUS
<1>2. n \in Nat /\ Cardinality(R) = n + 1
  <2>1. Cardinality(R) \in Nat
    BY FS_CardinalityType
  <2>2. IsFiniteSet(R \ {x}) /\ n = Cardinality(R) - 1
    BY <1>1, FS_RemoveElement
  <2>3. n \in Nat
    BY <1>1, <2>2, FS_CardinalityType
  <2> QED BY <2>1, <2>2, <2>3
<1>3. /\ g \in [1 .. n -> R \ {x}] /\ Len(g) = n
      /\ \A i, j \in 1 .. n : i # j => g[i] # g[j]
      /\ \A i, j \in 1 .. n : i < j => g[i].ms <= g[j].ms
  <2>1. g \in [1 .. n -> R \ {x}] /\ \A i, j \in 1 .. n : i # j => g[i] # g[j]
    <3>1. g \in Esa!SetToSeqs(R \ {x})
      BY DEF Orders
    <3>2. Esa!SetToSeqs(R \ {x}) = {f \in [1 .. n -> R \ {x}] : \A i, j \in 1 .. n : i # j => f[i] # f[j]}
      <4>1. Cardinality(R \ {x}) = n
        BY <1>1
      <4> QED BY <4>1, Enumerations
    <3> QED BY <3>1, <3>2
  <2>2. Len(g) = n
    BY <1>2, <2>1
  <2> QED BY <2>1, <2>2 DEF Orders
<1>4. PICK list : list = [i \in 1 .. n + 1 |-> IF i = 1 THEN x ELSE g[i - 1]]
  OBVIOUS
<1>5. list \in [1 .. n + 1 -> R] /\ Len(list) = n + 1
  <2>1. \A i \in 1 .. n + 1 : i # 1 => i - 1 \in 1 .. n
    BY <1>2
  <2>2. list \in [1 .. n + 1 -> R]
    BY <1>3, <1>4, <2>1
  <2> QED BY <1>2, <2>2
<1>6. \A i, j \in 1 .. n + 1 : i < j => list[i] # list[j] /\ list[i].ms <= list[j].ms
  <2> SUFFICES ASSUME NEW i \in 1 .. n + 1, NEW j \in 1 .. n + 1, i < j
               PROVE  list[i] # list[j] /\ list[i].ms <= list[j].ms
    OBVIOUS
  <2>1. j - 1 \in 1 .. n /\ list[j] = g[j - 1] /\ g[j - 1] \in R \ {x}
    BY <1>2, <1>3, <1>4
  <2>2. CASE i = 1
    BY <1>4, <2>1, <2>2
  <2>3. CASE i # 1
    <3>1. i - 1 \in 1 .. n /\ list[i] = g[i - 1] /\ i - 1 < j - 1 /\ i - 1 # j - 1
      BY <1>2, <1>4, <2>3
    <3> QED BY <1>3, <2>1, <3>1
  <2> QED BY <2>2, <2>3
<1>7. \A i, j \in 1 .. n + 1 : i # j => list[i] # list[j]
  <2>1. \A i, j \in 1 .. n + 1 : i # j => i < j \/ j < i
    BY <1>2
  <2> QED BY <1>6, <2>1
<1>8. list \in Esa!SetToSeqs(R)
  BY <1>2, <1>5, <1>7, Enumerations
<1> QED BY <1>5, <1>6, <1>8 DEF Orders

\* There is a list of any finite number of rows.
LEMMA ListsExist ==
    ASSUME NEW S, IsFiniteSet(S), \A x \in S : x.ms \in Nat
    PROVE  Orders(S) # {}
<1>1. PICK T : T = {n \in Nat : \A R \in SUBSET S : Cardinality(R) = n => Orders(R) # {}}
  OBVIOUS
<1>2. 0 \in T
  <2>1. ASSUME NEW R \in SUBSET S, Cardinality(R) = 0
        PROVE  Orders(R) # {}
    <3>1. IsFiniteSet(R) /\ R = {}
      BY <2>1, FS_Subset, FS_EmptySet
    <3>2. 1 .. 0 = {}
      OBVIOUS
    <3>3. <<>> \in [1 .. 0 -> R] /\ Len(<<>>) = 0
      BY <3>1, <3>2
    <3>4. <<>> \in Esa!SetToSeqs(R)
      BY <2>1, <3>2, <3>3, Enumerations
    <3> QED BY <3>2, <3>3, <3>4 DEF Orders
  <2> QED BY <1>1, <2>1
<1>3. ASSUME NEW n \in Nat, n \in T
      PROVE  n + 1 \in T
  <2>1. ASSUME NEW R \in SUBSET S, Cardinality(R) = n + 1
        PROVE  Orders(R) # {}
    <3>1. IsFiniteSet(R) /\ R # {}
      <4>1. IsFiniteSet(R)
        BY FS_Subset
      <4>2. R # {}
        BY <2>1, FS_EmptySet
      <4> QED BY <4>1, <4>2
    <3>2. PICK M : M = {y.ms : y \in R}
      OBVIOUS
    <3>3. PICK m \in M : \A k \in M : m <= k
      <4>1. M \subseteq Nat /\ M # {}
        BY <3>1, <3>2
      <4> QED BY <4>1, LeastNumber
    <3>4. PICK x \in R : x.ms = m
      BY <3>2
    <3>5. \A y \in R : y.ms \in Nat /\ x.ms <= y.ms
      BY <3>2, <3>3, <3>4
    <3>6. Cardinality(R \ {x}) = n /\ R \ {x} \in SUBSET S
      <4>1. Cardinality(R \ {x}) = Cardinality(R) - 1
        BY <3>1, FS_RemoveElement
      <4> QED BY <2>1, <4>1
    <3>7. PICK g : g \in Orders(R \ {x})
      BY <1>1, <1>3, <3>6
    <3> QED BY <3>1, <3>5, <3>7, LeastFirst
  <2> QED BY <1>1, <2>1
<1>4. Cardinality(S) \in T
  BY <1>2, <1>3, Numbers, FS_CardinalityType
<1> QED BY <1>1, <1>4

-----------------------------------------------------------------------------
(* The list of qualified addresses *)

Total == Len(Esa!Selected)

\* The least of some numbers.
LEMMA LeastIs ==
    ASSUME NEW T, T \subseteq Nat, T # {}
    PROVE  Esa!Least(T) \in T /\ \A y \in T : Esa!Least(T) <= y
BY LeastNumber DEF Esa!Least

\* A sequence is a function.
LEMMA SequenceFacts ==
    ASSUME NEW S, NEW s \in Seq(S)
    PROVE  Len(s) \in Nat /\ DOMAIN s = 1 .. Len(s) /\ \A i \in 1 .. Len(s) : s[i] \in S
OBVIOUS

\* The rows parsed: one for each address.
LEMMA ParsedRows ==
    /\ IsFiniteSet(Esa!Fast)
    /\ \A x \in Esa!Fast : x.ip \in Ips /\ x.ms \in Nat
    /\ \A x, y \in Esa!Fast : x.ip = y.ip => x = y
<1>0. Input \in Seq([ip : Ips, ms : Nat])
  BY ScansAssumption
<1>1. Esa!ToSet(Input) = {Input[i] : i \in 1 .. Len(Input)} /\ Len(Input) \in Nat
      /\ \A i \in 1 .. Len(Input) : Input[i] \in [ip : Ips, ms : Nat]
  <2>1. Len(Input) \in Nat /\ DOMAIN Input = 1 .. Len(Input)
    BY <1>0, SequenceFacts
  <2>2. \A i \in 1 .. Len(Input) : Input[i] \in [ip : Ips, ms : Nat]
    BY <1>0, SequenceFacts
  <2> QED BY <2>1, <2>2 DEF Esa!ToSet
<1>2. PICK A : A = {r.ip : r \in Esa!ToSet(Input)}
  OBVIOUS
<1>3. IsFiniteSet(1 .. Len(Input))
  BY <1>1, FS_Interval
<1>4. Esa!Parsed = {[ip |-> a, ms |-> Esa!Least(Esa!MsOf(a))] : a \in A}
  BY <1>2 DEF Esa!Parsed
<1>5. PICK f : f = [i \in 1 .. Len(Input) |-> [ip |-> Input[i].ip, ms |-> Esa!Least(Esa!MsOf(Input[i].ip))]]
  OBVIOUS
<1>6. f \in Surjection(1 .. Len(Input), Esa!Parsed)
  <2>1. A = {Input[i].ip : i \in 1 .. Len(Input)}
    BY <1>1, <1>2
  <2>2. f \in [1 .. Len(Input) -> Esa!Parsed] /\ \A y \in Esa!Parsed : \E i \in 1 .. Len(Input) : f[i] = y
    BY <1>4, <1>5, <2>1
  <2> QED BY <2>2 DEF Surjection
<1>7. IsFiniteSet(Esa!Parsed)
  BY <1>3, <1>6, FS_Surjection
<1>8. IsFiniteSet(Esa!Fast)
  BY <1>7, FS_Subset DEF Esa!Fast
<1>9. ASSUME NEW a \in A PROVE a \in Ips /\ Esa!Least(Esa!MsOf(a)) \in Nat
  <2>1. PICK r \in Esa!ToSet(Input) : r.ip = a
    BY <1>2
  <2>2. a \in Ips /\ r.ms \in Esa!MsOf(a) /\ Esa!MsOf(a) \subseteq Nat
    BY <1>1, <2>1 DEF Esa!MsOf
  <2> QED BY <2>2, LeastIs
<1>10. \A x \in Esa!Fast : x.ip \in Ips /\ x.ms \in Nat
  BY <1>4, <1>9 DEF Esa!Fast
<1>11. \A x, y \in Esa!Fast : x.ip = y.ip => x = y
  BY <1>4 DEF Esa!Fast
<1> QED BY <1>8, <1>10, <1>11

\* What is selected are different addresses.
LEMMA SelectedAddresses ==
    /\ Total \in Nat
    /\ \A i \in 1 .. Total : Esa!Candidate(i) \in Ips
    /\ \A i, j \in 1 .. Total : Esa!Candidate(i) = Esa!Candidate(j) => i = j
<1>1. Esa!Sorted \in Esa!SetToSeqs(Esa!Fast)
  <2>1. Orders(Esa!Fast) # {}
    BY ParsedRows, ListsExist
  <2>2. \E list \in Esa!SetToSeqs(Esa!Fast) : \A i, j \in 1 .. Len(list) : i < j => list[i].ms <= list[j].ms
    BY <2>1 DEF Orders
  <2> QED BY <2>2 DEF Esa!Sorted
<1>2. Esa!Selected = Esa!Sorted
  BY DEF Esa!Selected
<1>3. PICK n : n = Cardinality(Esa!Fast)
  OBVIOUS
<1>4. n \in Nat
  BY <1>3, ParsedRows, FS_CardinalityType
<1>5. Esa!Selected \in [1 .. n -> Esa!Fast] /\ \A i, j \in 1 .. n : i # j => Esa!Selected[i] # Esa!Selected[j]
  BY <1>1, <1>2, <1>3, Enumerations
<1>6. Total = n
  BY <1>4, <1>5 DEF Total
<1> QED BY <1>4, <1>5, <1>6, ParsedRows DEF Esa!Candidate

\* An inspection is one of some candidate, at some step of some host.
InspectionsTyped ==
    /\ running \in BOOLEAN /\ cursor \in 1 .. Total + 1
    /\ inspection \in [Esa!Workers -> [at : 0 .. Total, step : {"tcp", "tls", "ws"}, target : 1 .. Len(Hostnames),
                                       passes : Nat, passed : SUBSET Esa!Hosts]]
    /\ ipLines \in Seq(Ips)
    /\ targetLines \in [Esa!Hosts -> SUBSET Ips]

LinesComplete ==
    \A ip \in Esa!ToSet(ipLines) \ interrupted : ip \in details /\ \E t \in Esa!Hosts : ip \in targetLines[t]

\* What a run knows is the list; each candidate before the cursor is done
\* with, or one worker has it.
Inspected ==
    /\ alreadyFound = Esa!ToSet(ipLines) /\ qualified = Len(ipLines) /\ alreadyFound \subseteq tried
    /\ \A w \in Esa!Workers : Esa!Busy(w) => inspection[w].at < cursor /\ Esa!Ip(w) \notin alreadyFound
    /\ \A v, w \in Esa!Workers : Esa!Busy(v) /\ inspection[v].at = inspection[w].at => v = w
    /\ \A i \in 1 .. cursor - 1 : Esa!Candidate(i) \in tried \/ \E w \in Esa!Workers : inspection[w].at = i

Reported ==
    /\ \A i \in 1 .. Total : Esa!Candidate(i) \in tried
    /\ report.total = Len(ipLines)

ListInv ==
    /\ InspectionsTyped
    /\ Esa!IsInjective(ipLines)
    /\ LinesComplete
    /\ running => Inspected
    /\ report.ok /\ ~running => Reported

\* A sequence has the elements it has.
LEMMA ListElements ==
    ASSUME NEW S, NEW s \in Seq(S)
    PROVE  /\ Esa!ToSet(s) = {s[i] : i \in 1 .. Len(s)} /\ Esa!ToSet(s) \subseteq S
           /\ Esa!IsInjective(s) <=> \A i, j \in 1 .. Len(s) : s[i] = s[j] => i = j
           /\ Esa!IsInjective(s) => Esa!Cardinality(Esa!ToSet(s)) = Len(s)
<1>1. Len(s) \in Nat /\ DOMAIN s = 1 .. Len(s) /\ \A i \in 1 .. Len(s) : s[i] \in S
  OBVIOUS
<1>2. Esa!ToSet(s) = {s[i] : i \in 1 .. Len(s)} /\ Esa!ToSet(s) \subseteq S
  BY <1>1 DEF Esa!ToSet
<1>3. Esa!IsInjective(s) <=> \A i, j \in 1 .. Len(s) : s[i] = s[j] => i = j
  BY <1>1 DEF Esa!IsInjective
<1>4. ASSUME Esa!IsInjective(s)
      PROVE  Esa!Cardinality(Esa!ToSet(s)) = Len(s)
  <2>1. PICK f : f = [i \in 1 .. Len(s) |-> s[i]]
    OBVIOUS
  <2>2. f \in Bijection(1 .. Len(s), Esa!ToSet(s))
    BY <1>2, <1>3, <1>4, <2>1 DEF Bijection, Injection, Surjection, IsInjective
  <2>3. ExistsBijection(1 .. Len(s), Esa!ToSet(s))
    BY <2>2 DEF ExistsBijection
  <2>4. IsFiniteSet(1 .. Len(s)) /\ Cardinality(1 .. Len(s)) = Len(s)
    <3>1. Len(s) \in Int /\ (1 > Len(s) => Len(s) = 0) /\ Len(s) - 1 + 1 = Len(s)
      BY <1>1
    <3> QED BY <3>1, FS_Interval
  <2>5. Cardinality(Esa!ToSet(s)) = Len(s)
    BY <2>3, <2>4, FS_Bijection
  <2>6. Esa!Cardinality(Esa!ToSet(s)) = Cardinality(Esa!ToSet(s))
    BY DEF Esa!Cardinality, Cardinality
  <2> QED BY <2>5, <2>6
<1> QED BY <1>2, <1>3, <1>4

\* One more address.
LEMMA ListedAddress ==
    ASSUME NEW s \in Seq(Ips), Esa!IsInjective(s), NEW ip \in Ips, ip \notin Esa!ToSet(s)
    PROVE  /\ Append(s, ip) \in Seq(Ips) /\ Len(Append(s, ip)) = Len(s) + 1
           /\ Esa!ToSet(Append(s, ip)) = Esa!ToSet(s) \cup {ip}
           /\ Esa!IsInjective(Append(s, ip))
<1>1. /\ Append(s, ip) \in Seq(Ips) /\ Len(Append(s, ip)) = Len(s) + 1 /\ Len(s) \in Nat
      /\ \A i \in 1 .. Len(s) : Append(s, ip)[i] = s[i]
      /\ Append(s, ip)[Len(s) + 1] = ip
  OBVIOUS
<1>2. Esa!ToSet(s) = {s[i] : i \in 1 .. Len(s)} /\ \A i, j \in 1 .. Len(s) : s[i] = s[j] => i = j
  BY ListElements
<1>3. 1 .. Len(s) + 1 = (1 .. Len(s)) \cup {Len(s) + 1}
  BY <1>1
<1>4. PICK t \in Seq(Ips) : t = Append(s, ip)
  BY <1>1
<1>5. Esa!ToSet(t) = {t[i] : i \in 1 .. Len(t)}
  BY ListElements
<1>6. Esa!ToSet(t) = Esa!ToSet(s) \cup {ip}
  BY <1>1, <1>2, <1>3, <1>4, <1>5
<1>7. \A i, j \in 1 .. Len(t) : t[i] = t[j] => i = j
  BY <1>1, <1>2, <1>3, <1>4
<1>8. Esa!IsInjective(t)
  BY <1>7, ListElements
<1> QED BY <1>1, <1>4, <1>6, <1>8

\* What the initial state and a kill leave.
LEMMA NoInspection ==
    [w \in Esa!Workers |-> Esa!Idle] \in
        [Esa!Workers -> [at : 0 .. Total, step : {"tcp", "tls", "ws"}, target : 1 .. Len(Hostnames),
                         passes : Nat, passed : SUBSET Esa!Hosts]]
<1>1. Len(Hostnames) \in Nat /\ Len(Hostnames) > 0
  <2>1. Hostnames \in Seq({Hostnames[i] : i \in 1 .. Len(Hostnames)}) /\ Hostnames # <<>>
    BY ScansAssumption
  <2> QED BY <2>1
<1>2. Esa!Idle \in [at : 0 .. Total, step : {"tcp", "tls", "ws"}, target : 1 .. Len(Hostnames),
                   passes : Nat, passed : SUBSET Esa!Hosts]
  BY <1>1, SelectedAddresses DEF Esa!Idle
<1> QED BY <1>2

\* A filter that has not run has found nothing and tried nothing.
LEMMA InitList == Esa!Init => ListInv
<1> SUFFICES ASSUME Esa!Init PROVE ListInv
  OBVIOUS
<1>1. ipLines = <<>> /\ <<>> \in Seq(Ips) /\ Esa!ToSet(<<>>) = {} /\ Esa!IsInjective(<<>>)
  BY DEF Esa!Init, Esa!ToSet, Esa!IsInjective
<1>2. InspectionsTyped
  <2>1. running \in BOOLEAN /\ cursor = 1 /\ inspection = [w \in Esa!Workers |-> Esa!Idle]
    BY DEF Esa!Init
  <2>2. targetLines \in [Esa!Hosts -> SUBSET Ips]
    BY DEF Esa!Init
  <2>3. cursor \in 1 .. Total + 1
    BY <2>1, SelectedAddresses
  <2> QED BY <1>1, <2>1, <2>2, <2>3, NoInspection DEF InspectionsTyped
<1>3. LinesComplete
  BY <1>1 DEF LinesComplete
<1>4. ~running /\ ~report.ok
  BY DEF Esa!Init, Esa!NoReport
<1> QED BY <1>1, <1>2, <1>3, <1>4 DEF ListInv

\* A run starts with the addresses of the list.
LEMMA StartKeepsList == ListInv /\ Esa!Start => ListInv'
<1> SUFFICES ASSUME ListInv, Esa!Start PROVE ListInv'
  OBVIOUS
<1>1. ipLines' = ipLines /\ details' = details /\ targetLines' = targetLines /\ interrupted' = interrupted
      /\ running' = TRUE /\ cursor' = 1 /\ inspection' = [w \in Esa!Workers |-> Esa!Idle]
  BY DEF Esa!Start, Esa!files
<1>2. ipLines \in Seq(Ips) /\ Esa!IsInjective(ipLines)
  BY DEF ListInv, InspectionsTyped
<1>3. InspectionsTyped' /\ LinesComplete' /\ Esa!IsInjective(ipLines)'
  BY <1>1, NoInspection, SelectedAddresses DEF ListInv, InspectionsTyped, LinesComplete
<1>4. alreadyFound' = Esa!ToSet(ipLines) /\ tried' = Esa!ToSet(ipLines) /\ qualified' = Esa!Cardinality(Esa!ToSet(ipLines))
  BY DEF Esa!Start, Esa!ReadExistingIps
<1>5. qualified' = Len(ipLines)
  BY <1>2, <1>4, ListElements
<1>6. \A w \in Esa!Workers : inspection'[w].at = 0
  BY <1>1 DEF Esa!Idle
<1>7. Inspected'
  BY <1>1, <1>4, <1>5, <1>6 DEF Inspected, Esa!Busy
<1> QED BY <1>1, <1>3, <1>7 DEF ListInv

\* A worker takes the next candidate not found, or comes to the end.
LEMMA TakeKeepsList == ASSUME NEW w \in Esa!Workers PROVE ListInv /\ Esa!Take(w) => ListInv'
<1> SUFFICES ASSUME ListInv, Esa!Take(w) PROVE ListInv'
  OBVIOUS
<1>1. PICK n : n = Esa!NextAt(cursor, alreadyFound)
  OBVIOUS
<1>2. /\ running /\ running' = running /\ inspection[w].at = 0 /\ cursor <= Total
      /\ cursor' = Esa!After(n)
      /\ inspection' = [inspection EXCEPT ![w] = IF n = 0 THEN Esa!Idle ELSE Esa!Inspecting(n)]
      /\ alreadyFound' = alreadyFound /\ qualified' = qualified /\ tried' = tried
      /\ ipLines' = ipLines /\ details' = details /\ targetLines' = targetLines /\ interrupted' = interrupted
  BY <1>1 DEF Esa!Take, Esa!Busy, Esa!files, Total
<1>3. InspectionsTyped /\ Inspected /\ LinesComplete /\ Esa!IsInjective(ipLines)
  BY <1>2 DEF ListInv
<1>4. Total \in Nat /\ cursor \in 1 .. Total
  BY <1>2, <1>3, SelectedAddresses DEF InspectionsTyped
<1>5. PICK open : open = {k \in cursor .. Total : Esa!Candidate(k) \notin alreadyFound}
  OBVIOUS
<1>6. n = IF open = {} THEN 0 ELSE Esa!Least(open)
  BY <1>1, <1>5 DEF Esa!NextAt, Total
<1>7. open # {} => n \in open /\ \A k \in open : n <= k
  <2>1. open \subseteq Nat
    BY <1>4, <1>5
  <2> QED BY <1>6, <2>1, LeastIs
<1>8. /\ n = 0 => cursor' = Total + 1
      /\ n # 0 => cursor' = n + 1
  BY <1>2 DEF Esa!After, Total
<1>9. n = 0 \/ (n \in cursor .. Total /\ Esa!Candidate(n) \notin alreadyFound)
  BY <1>5, <1>6, <1>7
<1>10. cursor' \in 1 .. Total + 1 /\ cursor < cursor'
  BY <1>4, <1>8, <1>9
<1>11. \A k \in cursor .. cursor' - 1 : k = n \/ Esa!Candidate(k) \in alreadyFound
  <2> SUFFICES ASSUME NEW k \in cursor .. cursor' - 1, k # n
               PROVE  Esa!Candidate(k) \in alreadyFound
    OBVIOUS
  <2>1. k \in cursor .. Total
    BY <1>4, <1>8, <1>9
  <2>2. k \notin open
    <3> SUFFICES ASSUME k \in open PROVE FALSE
      OBVIOUS
    <3>1. n \in open /\ n <= k
      BY <1>7
    <3>2. n # 0
      BY <1>4, <1>5, <3>1
    <3> QED BY <1>4, <1>8, <1>9, <3>1, <3>2
  <2> QED BY <1>5, <2>1, <2>2
<1>12. PICK g : g = IF n = 0 THEN Esa!Idle ELSE Esa!Inspecting(n)
  OBVIOUS
<1>13. g \in [at : 0 .. Total, step : {"tcp", "tls", "ws"}, target : 1 .. Len(Hostnames), passes : Nat, passed : SUBSET Esa!Hosts]
      /\ g.at = n
  <2>1. Esa!Idle \in [at : 0 .. Total, step : {"tcp", "tls", "ws"}, target : 1 .. Len(Hostnames), passes : Nat, passed : SUBSET Esa!Hosts]
        /\ Esa!Idle.at = 0
    <3>1. [v \in Esa!Workers |-> Esa!Idle][w] = Esa!Idle
      OBVIOUS
    <3> QED BY <3>1, NoInspection DEF Esa!Idle
  <2>2. n \in 0 .. Total
    BY <1>4, <1>9
  <2> QED BY <1>12, <2>1, <2>2 DEF Esa!Inspecting
<1>14. /\ inspection'[w].at = n
       /\ \A v \in Esa!Workers : v # w => inspection'[v] = inspection[v]
       /\ inspection' \in [Esa!Workers -> [at : 0 .. Total, step : {"tcp", "tls", "ws"}, target : 1 .. Len(Hostnames),
                                          passes : Nat, passed : SUBSET Esa!Hosts]]
  BY <1>2, <1>3, <1>12, <1>13 DEF InspectionsTyped
<1>15. InspectionsTyped' /\ LinesComplete' /\ Esa!IsInjective(ipLines)'
  BY <1>2, <1>3, <1>10, <1>14 DEF InspectionsTyped, LinesComplete
<1>16. ASSUME NEW v \in Esa!Workers, inspection'[v].at # 0
       PROVE  inspection'[v].at < cursor' /\ Esa!Candidate(inspection'[v].at) \notin alreadyFound
  <2>1. CASE v = w
    BY <1>4, <1>8, <1>9, <1>14, <1>16, <2>1
  <2>2. CASE v # w
    <3>1. inspection[v].at < cursor /\ Esa!Candidate(inspection[v].at) \notin alreadyFound
      BY <1>3, <1>14, <1>16, <2>2 DEF Inspected, Esa!Busy, Esa!Ip
    <3>2. inspection[v].at \in Nat
      BY <1>3, <1>4 DEF InspectionsTyped
    <3> QED BY <1>4, <1>10, <1>14, <2>2, <3>1, <3>2
  <2> QED BY <2>1, <2>2
<1>17. ASSUME NEW u \in Esa!Workers, NEW v \in Esa!Workers, inspection'[u].at # 0, inspection'[u].at = inspection'[v].at
       PROVE  u = v
  <2>1. \A x \in Esa!Workers : x # w /\ inspection[x].at # 0 => inspection[x].at < cursor
    BY <1>3 DEF Inspected, Esa!Busy
  <2>2. \A x \in Esa!Workers : x # w /\ inspection[x].at # 0 => inspection[x].at # n
    <3>1. \A x \in Esa!Workers : inspection[x].at \in Nat
      BY <1>3, <1>4 DEF InspectionsTyped
    <3> QED BY <1>4, <1>9, <2>1, <3>1
  <2>3. CASE u # w /\ v # w
    BY <1>3, <1>14, <1>17, <2>3 DEF Inspected, Esa!Busy
  <2>4. CASE (u = w /\ v # w) \/ (u # w /\ v = w)
    BY <1>14, <1>17, <2>2, <2>4
  <2> QED BY <2>3, <2>4
<1>18. ASSUME NEW i \in 1 .. cursor' - 1
       PROVE  Esa!Candidate(i) \in tried \/ \E v \in Esa!Workers : inspection'[v].at = i
  <2>1. CASE i \in 1 .. cursor - 1
    <3>1. Esa!Candidate(i) \in tried \/ \E v \in Esa!Workers : inspection[v].at = i
      BY <1>3, <2>1 DEF Inspected
    <3>2. \A v \in Esa!Workers : inspection[v].at = i => v # w
      BY <1>2, <1>4, <2>1
    <3> QED BY <1>14, <3>1, <3>2
  <2>2. CASE i \in cursor .. cursor' - 1
    BY <1>3, <1>11, <1>14, <2>2 DEF Inspected
  <2>3. i \in 1 .. cursor - 1 \/ i \in cursor .. cursor' - 1
    <3>1. PICK k \in Nat : k = cursor
      BY <1>4
    <3>2. PICK m \in Nat : m = cursor'
      BY <1>4, <1>10
    <3>3. i \in 1 .. m - 1
      BY <3>2
    <3>4. i \in 1 .. k - 1 \/ i \in k .. m - 1
      BY <3>3
    <3> QED BY <3>1, <3>2, <3>4
  <2> QED BY <2>1, <2>2, <2>3
<1>19. Inspected'
  BY <1>2, <1>3, <1>16, <1>17, <1>18 DEF Inspected, Esa!Busy, Esa!Ip
<1> QED BY <1>2, <1>15, <1>19 DEF ListInv

\* A worker goes on with its candidate.
LEMMA GoingOnKeepsList ==
    ASSUME ListInv, running, NEW w \in Esa!Workers, inspection[w].at # 0,
           NEW g \in [at : 0 .. Total, step : {"tcp", "tls", "ws"}, target : 1 .. Len(Hostnames), passes : Nat,
                      passed : SUBSET Esa!Hosts],
           g.at = inspection[w].at,
           Esa!Set(w, g), UNCHANGED <<running, cursor, alreadyFound, qualified, Esa!files, tried, interrupted>>
    PROVE  ListInv'
<1>1. /\ running' = running /\ cursor' = cursor /\ inspection' = [inspection EXCEPT ![w] = g]
      /\ alreadyFound' = alreadyFound /\ qualified' = qualified /\ tried' = tried
      /\ ipLines' = ipLines /\ details' = details /\ targetLines' = targetLines /\ interrupted' = interrupted
  BY DEF Esa!Set, Esa!files
<1>2. InspectionsTyped /\ Inspected /\ LinesComplete /\ Esa!IsInjective(ipLines)
  BY DEF ListInv
<1>3. /\ \A v \in Esa!Workers : inspection'[v].at = inspection[v].at
      /\ inspection' \in [Esa!Workers -> [at : 0 .. Total, step : {"tcp", "tls", "ws"}, target : 1 .. Len(Hostnames),
                                         passes : Nat, passed : SUBSET Esa!Hosts]]
  BY <1>1, <1>2 DEF InspectionsTyped
<1>4. InspectionsTyped' /\ LinesComplete' /\ Esa!IsInjective(ipLines)'
  BY <1>1, <1>2, <1>3 DEF InspectionsTyped, LinesComplete
<1>5. Inspected'
  BY <1>1, <1>2, <1>3 DEF Inspected, Esa!Busy, Esa!Ip
<1> QED BY <1>1, <1>4, <1>5 DEF ListInv

\* A candidate that fails is done with.
LEMMA EndKeepsList ==
    ASSUME ListInv, running, NEW w \in Esa!Workers, inspection[w].at # 0,
           Esa!Ends(w), UNCHANGED <<running, cursor, alreadyFound, qualified, Esa!files, interrupted>>
    PROVE  ListInv'
<1>1. /\ running' = running /\ cursor' = cursor /\ inspection' = [inspection EXCEPT ![w] = Esa!Idle]
      /\ alreadyFound' = alreadyFound /\ qualified' = qualified
      /\ tried' = tried \cup {Esa!Candidate(inspection[w].at)}
      /\ ipLines' = ipLines /\ details' = details /\ targetLines' = targetLines /\ interrupted' = interrupted
  BY DEF Esa!Ends, Esa!Set, Esa!files, Esa!Ip
<1>2. InspectionsTyped /\ Inspected /\ LinesComplete /\ Esa!IsInjective(ipLines)
  BY DEF ListInv
<1>3. /\ \A v \in Esa!Workers : v # w => inspection'[v] = inspection[v]
      /\ inspection'[w].at = 0
      /\ inspection' \in [Esa!Workers -> [at : 0 .. Total, step : {"tcp", "tls", "ws"}, target : 1 .. Len(Hostnames),
                                         passes : Nat, passed : SUBSET Esa!Hosts]]
  <2>1. [v \in Esa!Workers |-> Esa!Idle][w] = Esa!Idle /\ Esa!Idle.at = 0
    BY DEF Esa!Idle
  <2> QED BY <1>1, <1>2, <2>1, NoInspection DEF InspectionsTyped
<1>4. InspectionsTyped' /\ LinesComplete' /\ Esa!IsInjective(ipLines)'
  BY <1>1, <1>2, <1>3 DEF InspectionsTyped, LinesComplete
<1>5. Inspected'
  BY <1>1, <1>2, <1>3 DEF Inspected, Esa!Busy, Esa!Ip
<1> QED BY <1>1, <1>4, <1>5 DEF ListInv

\* A worker that goes on to the TLS handshake writes nothing.
LEMMA ConnectKeepsList ==
    ASSUME NEW w \in Esa!Workers, NEW ok \in BOOLEAN
    PROVE  ListInv /\ Esa!Connect(w, ok) => ListInv'
<1> SUFFICES ASSUME ListInv, Esa!Connect(w, ok) PROVE ListInv'
  OBVIOUS
<1>1. running /\ inspection[w].at # 0 /\ UNCHANGED <<running, cursor, alreadyFound, qualified, Esa!files, interrupted>>
  BY DEF Esa!Connect, Esa!Busy
<1>2. CASE ok
  <2>1. PICK g : g = [inspection[w] EXCEPT !.step = IF @ = "tcp" THEN "tls" ELSE "ws"]
    OBVIOUS
  <2>2. /\ g \in [at : 0 .. Total, step : {"tcp", "tls", "ws"}, target : 1 .. Len(Hostnames), passes : Nat,
                  passed : SUBSET Esa!Hosts]
        /\ g.at = inspection[w].at
    BY <2>1 DEF ListInv, InspectionsTyped
  <2>3. Esa!Set(w, g) /\ UNCHANGED tried
    BY <1>2, <2>1 DEF Esa!Connect
  <2> QED BY <1>1, <2>2, <2>3, GoingOnKeepsList
<1>3. CASE ~ok
  <2>1. Esa!Ends(w)
    BY <1>3 DEF Esa!Connect
  <2> QED BY <1>1, <2>1, EndKeepsList
<1> QED BY <1>2, <1>3

\* The hosts that passed are hosts.
LEMMA PassedHosts ==
    ASSUME ListInv, NEW w \in Esa!Workers, NEW ok \in BOOLEAN
    PROVE  /\ Esa!PassedWith(w, ok) \subseteq Esa!Hosts
           /\ inspection[w].target \in 1 .. Len(Hostnames) /\ Len(Hostnames) \in Nat
<1>1. Len(Hostnames) \in Nat /\ DOMAIN Hostnames = 1 .. Len(Hostnames)
  BY ScansAssumption, SequenceFacts
<1>2. Esa!Hosts = {Hostnames[i] : i \in 1 .. Len(Hostnames)}
  BY <1>1 DEF Esa!Hosts, Esa!ToSet
<1>3. inspection[w].target \in 1 .. Len(Hostnames) /\ inspection[w].passed \subseteq Esa!Hosts
  BY DEF ListInv, InspectionsTyped
<1>4. Esa!Target(w) \in Esa!Hosts
  BY <1>2, <1>3 DEF Esa!Target
<1> QED BY <1>1, <1>3, <1>4 DEF Esa!PassedWith

\* Another attempt at the same address, or its next host, writes nothing.
LEMMA AttemptKeepsList ==
    ASSUME NEW w \in Esa!Workers, NEW ok \in BOOLEAN
    PROVE  ListInv /\ Esa!Attempt(w, ok) => ListInv'
<1> SUFFICES ASSUME ListInv, Esa!Attempt(w, ok) PROVE ListInv'
  OBVIOUS
<1>1. /\ running /\ inspection[w].at # 0
      /\ UNCHANGED <<running, cursor, alreadyFound, qualified, Esa!files, tried, interrupted>>
      /\ ~(Esa!HostIsDone(w, ok) /\ inspection[w].target = Len(Hostnames))
  BY DEF Esa!Attempt, Esa!Busy, Esa!LastTarget
<1>2. /\ Esa!PassedWith(w, ok) \subseteq Esa!Hosts
      /\ inspection[w].target \in 1 .. Len(Hostnames) /\ Len(Hostnames) \in Nat
  BY PassedHosts
<1>3. inspection[w] \in [at : 0 .. Total, step : {"tcp", "tls", "ws"}, target : 1 .. Len(Hostnames), passes : Nat,
                         passed : SUBSET Esa!Hosts]
  BY DEF ListInv, InspectionsTyped
<1>4. CASE Esa!HostIsDone(w, ok)
  <2>1. PICK g : g = [inspection[w] EXCEPT !.target = @ + 1, !.passes = 0, !.passed = Esa!PassedWith(w, ok)]
    OBVIOUS
  <2>2. inspection[w].target + 1 \in 1 .. Len(Hostnames)
    BY <1>1, <1>2, <1>4
  <2>3. /\ g \in [at : 0 .. Total, step : {"tcp", "tls", "ws"}, target : 1 .. Len(Hostnames), passes : Nat,
                  passed : SUBSET Esa!Hosts]
        /\ g.at = inspection[w].at
    BY <1>2, <1>3, <2>1, <2>2
  <2>4. Esa!Set(w, g)
    BY <1>4, <2>1 DEF Esa!Attempt
  <2> QED BY <1>1, <2>3, <2>4, GoingOnKeepsList
<1>5. CASE ~Esa!HostIsDone(w, ok)
  <2>1. PICK g : g = [inspection[w] EXCEPT !.passes = @ + 1]
    OBVIOUS
  <2>2. /\ g \in [at : 0 .. Total, step : {"tcp", "tls", "ws"}, target : 1 .. Len(Hostnames), passes : Nat,
                  passed : SUBSET Esa!Hosts]
        /\ g.at = inspection[w].at
    BY <1>3, <2>1
  <2>3. Esa!Set(w, g)
    BY <1>5, <2>1 DEF Esa!Attempt
  <2> QED BY <1>1, <2>2, <2>3, GoingOnKeepsList
<1> QED BY <1>4, <1>5

\* An address whose last attempt failed counts as tried.
LEMMA FailKeepsList ==
    ASSUME NEW w \in Esa!Workers, NEW ok \in BOOLEAN
    PROVE  ListInv /\ Esa!Fail(w, ok) => ListInv'
<1> SUFFICES ASSUME ListInv, Esa!Fail(w, ok) PROVE ListInv'
  OBVIOUS
<1>1. /\ running /\ inspection[w].at # 0 /\ Esa!Ends(w)
      /\ UNCHANGED <<running, cursor, alreadyFound, qualified, Esa!files, interrupted>>
  BY DEF Esa!Fail, Esa!LastAttempt, Esa!Busy
<1> QED BY <1>1, EndKeepsList

\* The candidate a worker has is one not listed.
LEMMA NewAddress ==
    ASSUME ListInv, running, NEW w \in Esa!Workers, inspection[w].at # 0
    PROVE  /\ Esa!Ip(w) \in Ips /\ Esa!Ip(w) \notin Esa!ToSet(ipLines)
           /\ \A v \in Esa!Workers : v # w /\ inspection[v].at # 0 => Esa!Ip(v) # Esa!Ip(w)
<1>1. InspectionsTyped /\ Inspected
  BY DEF ListInv
<1>2. \A v \in Esa!Workers : inspection[v].at # 0 => inspection[v].at \in 1 .. Total
  BY <1>1, SelectedAddresses DEF InspectionsTyped
<1>3. Esa!Ip(w) \in Ips
  BY <1>2, SelectedAddresses DEF Esa!Ip
<1>4. \A v \in Esa!Workers : v # w /\ inspection[v].at # 0 => inspection[v].at # inspection[w].at
  BY <1>1 DEF Inspected, Esa!Busy
<1>5. \A v \in Esa!Workers : v # w /\ inspection[v].at # 0 => Esa!Ip(v) # Esa!Ip(w)
  BY <1>2, <1>4, SelectedAddresses DEF Esa!Ip
<1> QED BY <1>1, <1>3, <1>5 DEF Inspected, Esa!Busy

\* One that qualifies is new in the list, with its details and its hosts.
LEMMA QualifyKeepsList ==
    ASSUME NEW w \in Esa!Workers, NEW ok \in BOOLEAN
    PROVE  ListInv /\ Esa!Qualify(w, ok) => ListInv'
<1> SUFFICES ASSUME ListInv, Esa!Qualify(w, ok) PROVE ListInv'
  OBVIOUS
<1>1. PICK ip : ip = Esa!Ip(w)
  OBVIOUS
<1>2. PICK hosts : hosts = Esa!PassedWith(w, ok)
  OBVIOUS
<1>3. /\ running /\ running' = running /\ inspection[w].at # 0 /\ cursor' = cursor
      /\ inspection' = [inspection EXCEPT ![w] = Esa!Idle]
      /\ alreadyFound' = alreadyFound \cup {ip} /\ qualified' = qualified + 1
      /\ tried' = tried \cup {ip} /\ ip = Esa!Candidate(inspection[w].at)
      /\ ipLines' = Append(ipLines, ip) /\ details' = details \cup {ip}
      /\ targetLines' = [t \in Esa!Hosts |-> targetLines[t] \cup (IF t \in hosts THEN {ip} ELSE {})]
      /\ interrupted' = interrupted /\ hosts # {} /\ hosts \subseteq Esa!Hosts
  BY <1>1, <1>2, PassedHosts DEF Esa!Qualify, Esa!LastAttempt, Esa!Busy, Esa!Ends, Esa!Set, Esa!Ip
<1>4. InspectionsTyped /\ Inspected /\ LinesComplete /\ Esa!IsInjective(ipLines) /\ ipLines \in Seq(Ips)
  BY <1>3 DEF ListInv, InspectionsTyped
<1>5. /\ ip \in Ips /\ ip \notin Esa!ToSet(ipLines)
      /\ \A v \in Esa!Workers : v # w /\ inspection[v].at # 0 => Esa!Ip(v) # ip
  BY <1>1, <1>3, NewAddress
<1>6. /\ ipLines' \in Seq(Ips) /\ Len(ipLines') = Len(ipLines) + 1 /\ Esa!IsInjective(ipLines')
      /\ Esa!ToSet(ipLines') = Esa!ToSet(ipLines) \cup {ip}
  BY <1>3, <1>4, <1>5, ListedAddress
<1>7. /\ \A v \in Esa!Workers : v # w => inspection'[v] = inspection[v]
      /\ inspection'[w].at = 0
      /\ inspection' \in [Esa!Workers -> [at : 0 .. Total, step : {"tcp", "tls", "ws"}, target : 1 .. Len(Hostnames),
                                         passes : Nat, passed : SUBSET Esa!Hosts]]
  <2>1. [v \in Esa!Workers |-> Esa!Idle][w] = Esa!Idle /\ Esa!Idle.at = 0
    BY DEF Esa!Idle
  <2> QED BY <1>3, <1>4, <2>1, NoInspection DEF InspectionsTyped
<1>8. /\ targetLines' \in [Esa!Hosts -> SUBSET Ips]
      /\ \A t \in Esa!Hosts : targetLines[t] \subseteq targetLines'[t]
      /\ \E t \in Esa!Hosts : ip \in targetLines'[t]
  BY <1>3, <1>4, <1>5 DEF InspectionsTyped
<1>9. InspectionsTyped'
  BY <1>3, <1>4, <1>6, <1>7, <1>8 DEF InspectionsTyped
<1>10. LinesComplete'
  BY <1>3, <1>4, <1>6, <1>8 DEF LinesComplete
<1>11. Inspected'
  <2>1. alreadyFound' = Esa!ToSet(ipLines') /\ qualified' = Len(ipLines') /\ alreadyFound' \subseteq tried'
    BY <1>3, <1>4, <1>6 DEF Inspected
  <2>2. ASSUME NEW v \in Esa!Workers, inspection'[v].at # 0
        PROVE  inspection'[v].at < cursor' /\ Esa!Candidate(inspection'[v].at) \notin alreadyFound'
    BY <1>3, <1>4, <1>5, <1>7, <2>2 DEF Inspected, Esa!Busy, Esa!Ip
  <2>3. \A u, v \in Esa!Workers : inspection'[u].at # 0 /\ inspection'[u].at = inspection'[v].at => u = v
    BY <1>4, <1>7 DEF Inspected, Esa!Busy
  <2>4. \A i \in 1 .. cursor' - 1 : Esa!Candidate(i) \in tried' \/ \E v \in Esa!Workers : inspection'[v].at = i
    BY <1>3, <1>4, <1>7 DEF Inspected
  <2> QED BY <2>1, <2>2, <2>3, <2>4 DEF Inspected, Esa!Busy, Esa!Ip
<1> QED BY <1>3, <1>6, <1>9, <1>10, <1>11 DEF ListInv

\* A report that says ok comes with the end of the list.
LEMMA ReportKeepsList == ListInv /\ Esa!Report => ListInv'
<1> SUFFICES ASSUME ListInv, Esa!Report PROVE ListInv'
  OBVIOUS
<1>1. /\ running /\ running' = FALSE /\ cursor' = cursor /\ inspection' = [w \in Esa!Workers |-> Esa!Idle]
      /\ report' = [ok |-> ~signalled, total |-> qualified] /\ tried' = tried
      /\ ipLines' = ipLines /\ details' = details /\ targetLines' = targetLines /\ interrupted' = interrupted
      /\ \A w \in Esa!Workers : inspection[w].at = 0
      /\ signalled \/ cursor > Total
  BY DEF Esa!Report, Esa!files, Esa!PoolEnds, Esa!Busy, Total
<1>2. InspectionsTyped /\ Inspected /\ LinesComplete /\ Esa!IsInjective(ipLines)
  BY <1>1 DEF ListInv
<1>3. InspectionsTyped' /\ LinesComplete' /\ Esa!IsInjective(ipLines)'
  BY <1>1, <1>2, NoInspection DEF InspectionsTyped, LinesComplete
<1>4. ASSUME report'.ok PROVE Reported'
  <2>1. cursor = Total + 1 /\ Total \in Nat
    <3>1. report'.ok = ~signalled
      BY <1>1
    <3>2. cursor > Total
      BY <1>1, <1>4, <3>1
    <3> QED BY <1>2, <3>2, SelectedAddresses DEF InspectionsTyped
  <2>2. \A i \in 1 .. Total : Esa!Candidate(i) \in tried
    <3> SUFFICES ASSUME NEW i \in 1 .. Total PROVE Esa!Candidate(i) \in tried
      OBVIOUS
    <3>1. i \in 1 .. cursor - 1 /\ i # 0
      BY <2>1
    <3> QED BY <1>1, <1>2, <3>1 DEF Inspected
  <2>3. report'.total = Len(ipLines')
    BY <1>1, <1>2 DEF Inspected
  <2> QED BY <1>1, <2>2, <2>3 DEF Reported
<1> QED BY <1>1, <1>3, <1>4 DEF ListInv

\* A kill leaves at most one address without its details.
LEMMA KillKeepsList == ListInv /\ Esa!Kill => ListInv'
<1> SUFFICES ASSUME ListInv, Esa!Kill PROVE ListInv'
  OBVIOUS
<1>1. /\ running /\ running' = FALSE /\ cursor' = cursor /\ inspection' = [w \in Esa!Workers |-> Esa!Idle]
      /\ ~report'.ok
  BY DEF Esa!Kill, Esa!NoReport
<1>2. InspectionsTyped /\ Inspected /\ LinesComplete /\ Esa!IsInjective(ipLines) /\ ipLines \in Seq(Ips)
  BY <1>1 DEF ListInv, InspectionsTyped
<1>3. CASE UNCHANGED <<Esa!files, interrupted>>
  <2>1. InspectionsTyped' /\ LinesComplete' /\ Esa!IsInjective(ipLines)'
    BY <1>1, <1>2, <1>3, NoInspection DEF InspectionsTyped, LinesComplete, Esa!files
  <2> QED BY <1>1, <2>1 DEF ListInv
<1>4. CASE ~UNCHANGED <<Esa!files, interrupted>>
  <2>1. PICK w \in Esa!Workers, ok \in BOOLEAN :
          /\ Esa!LastAttempt(w, ok) /\ Esa!PassedWith(w, ok) # {}
          /\ ipLines' = Append(ipLines, Esa!Ip(w))
          /\ interrupted' = interrupted \cup {Esa!Ip(w)}
          /\ \/ UNCHANGED <<details, targetLines>>
             \/ /\ details' = details \cup {Esa!Ip(w)}
                /\ \E hosts \in SUBSET Esa!PassedWith(w, ok) :
                     targetLines' = [t \in Esa!Hosts |-> targetLines[t] \cup (IF t \in hosts THEN {Esa!Ip(w)} ELSE {})]
    BY <1>4 DEF Esa!Kill
  <2>2. PICK ip : ip = Esa!Ip(w)
    OBVIOUS
  <2>3. ip \in Ips /\ ip \notin Esa!ToSet(ipLines)
    BY <1>1, <2>1, <2>2, NewAddress DEF Esa!LastAttempt, Esa!Busy
  <2>4. /\ ipLines' \in Seq(Ips) /\ Esa!IsInjective(ipLines')
        /\ Esa!ToSet(ipLines') = Esa!ToSet(ipLines) \cup {ip}
    BY <1>2, <2>1, <2>2, <2>3, ListedAddress
  <2>5. /\ targetLines' \in [Esa!Hosts -> SUBSET Ips] /\ details \subseteq details'
        /\ \A t \in Esa!Hosts : targetLines[t] \subseteq targetLines'[t]
    BY <1>2, <2>1, <2>2, <2>3 DEF InspectionsTyped
  <2>6. InspectionsTyped'
    BY <1>1, <1>2, <2>4, <2>5, NoInspection DEF InspectionsTyped
  <2>7. LinesComplete'
    BY <1>2, <2>1, <2>2, <2>4, <2>5 DEF LinesComplete
  <2> QED BY <1>1, <2>4, <2>6, <2>7 DEF ListInv
<1> QED BY <1>3, <1>4

\* Every step of the filter keeps what is known of its lists.
LEMMA ListSteps == ListInv /\ [Esa!Next]_(Esa!vars) => ListInv'
<1> SUFFICES ASSUME ListInv, [Esa!Next]_(Esa!vars) PROVE ListInv'
  OBVIOUS
<1>1. CASE Esa!Sigint
  <2>1. UNCHANGED <<running, cursor, inspection, alreadyFound, qualified, ipLines, details, targetLines, report, tried, interrupted>>
    BY <1>1 DEF Esa!Sigint, Esa!files
  <2> QED BY <2>1 DEF ListInv, InspectionsTyped, LinesComplete, Inspected, Reported, Esa!Busy, Esa!Ip
<1>2. CASE UNCHANGED Esa!vars
  <2>1. UNCHANGED <<running, cursor, inspection, alreadyFound, qualified, ipLines, details, targetLines, report, tried, interrupted>>
    BY <1>2 DEF Esa!vars, Esa!files
  <2> QED BY <2>1 DEF ListInv, InspectionsTyped, LinesComplete, Inspected, Reported, Esa!Busy, Esa!Ip
<1>3. CASE Esa!Start \/ Esa!Report \/ Esa!Kill
  BY <1>3, StartKeepsList, ReportKeepsList, KillKeepsList
<1>4. CASE \E w \in Esa!Workers :
             \/ Esa!Take(w)
             \/ \E ok \in BOOLEAN : Esa!Connect(w, ok) \/ Esa!Attempt(w, ok) \/ Esa!Qualify(w, ok) \/ Esa!Fail(w, ok)
  BY <1>4, TakeKeepsList, ConnectKeepsList, AttemptKeepsList, QualifyKeepsList, FailKeepsList
<1> QED BY <1>1, <1>2, <1>3, <1>4 DEF Esa!Next

\* So it holds of every state that a filter reaches.
LEMMA ListInvHolds == Esa!Spec => []ListInv
BY InitList, ListSteps, PTL DEF Esa!Spec

\* What the run checks of the filter is part of it.
LEMMA ListIsKept == ListInv => Esa!ListIsComplete
BY DEF ListInv, LinesComplete, Reported, Total, Esa!ListIsComplete

-----------------------------------------------------------------------------
(* The scans: lists of addresses *)

Distinct(list) == \A i, j \in 1 .. Len(list) : list[i] = list[j] => i = j

\* A sequence has the elements it has, and as many when they differ.
LEMMA ItemElements ==
    ASSUME NEW S, NEW s \in Seq(S)
    PROVE  /\ Cdn!ToSet(s) = {s[i] : i \in 1 .. Len(s)} /\ Cdn!ToSet(s) \subseteq S
           /\ Distinct(s) => IsFiniteSet(Cdn!ToSet(s)) /\ Cdn!Cardinality(Cdn!ToSet(s)) = Len(s)
<1>1. Cdn!ToSet(s) = Esa!ToSet(s) /\ Len(s) \in Nat
  BY SequenceFacts DEF Cdn!ToSet, Esa!ToSet
<1>2. ASSUME Distinct(s)
      PROVE  IsFiniteSet(Cdn!ToSet(s)) /\ Cdn!Cardinality(Cdn!ToSet(s)) = Len(s)
  <2>1. Esa!IsInjective(s)
    BY <1>2, ListElements DEF Distinct
  <2>2. Esa!Cardinality(Cdn!ToSet(s)) = Len(s)
    BY <1>1, <2>1, ListElements
  <2>3. Cdn!Cardinality(Cdn!ToSet(s)) = Esa!Cardinality(Cdn!ToSet(s))
    BY DEF Cdn!Cardinality, Esa!Cardinality
  <2>4. PICK f : f = [i \in 1 .. Len(s) |-> s[i]]
    OBVIOUS
  <2>5. f \in Surjection(1 .. Len(s), Cdn!ToSet(s))
    BY <1>1, <2>4, ListElements DEF Surjection
  <2>6. IsFiniteSet(1 .. Len(s))
    BY <1>1, FS_Interval
  <2>7. IsFiniteSet(Cdn!ToSet(s))
    BY <2>5, <2>6, FS_Surjection
  <2> QED BY <2>2, <2>3, <2>7
<1> QED BY <1>1, <1>2, ListElements

\* A sequence of a finite set's elements has all of them.
LEMMA Enumerated ==
    ASSUME NEW S, IsFiniteSet(S), NEW list \in Cdn!SetToSeqs(S)
    PROVE  list \in Seq(S) /\ Distinct(list) /\ Cdn!ToSet(list) = S
<1>1. PICK n \in Nat : n = Cardinality(S)
  BY FS_CardinalityType
<1>2. list \in [1 .. n -> S] /\ \A i, j \in 1 .. n : i # j => list[i] # list[j]
  <2>1. Cdn!SetToSeqs(S) = {f \in [1 .. n -> S] : \A i, j \in 1 .. n : i # j => f[i] # f[j]}
    BY <1>1, Enumerations
  <2> QED BY <2>1
<1>3. list \in Seq(S) /\ Len(list) = n
  BY <1>2
<1>4. Distinct(list)
  BY <1>2, <1>3 DEF Distinct
<1>5. list \in Injection(1 .. n, S)
  BY <1>2 DEF Injection, IsInjective
<1>6. Cardinality(1 .. n) = n
  <2>1. n \in Int /\ 1 \in Int /\ (1 > n => n = 0) /\ n - 1 + 1 = n
    OBVIOUS
  <2> QED BY <2>1, FS_Interval
<1>7. list \in Surjection(1 .. n, S)
  BY <1>1, <1>5, <1>6, FS_Injection
<1>8. Cdn!ToSet(list) = {list[i] : i \in 1 .. n}
  BY <1>3, ItemElements
<1>9. \A x \in S : \E i \in 1 .. n : list[i] = x
  BY <1>7 DEF Surjection
<1> QED BY <1>2, <1>3, <1>4, <1>8, <1>9

\* The first elements of a list.
LEMMA FirstElements ==
    ASSUME NEW S, NEW s \in Seq(S), Distinct(s), NEW n \in Nat
    PROVE  /\ Cdn!First(s, n) \in Seq(S) /\ Distinct(Cdn!First(s, n))
           /\ Cdn!ToSet(Cdn!First(s, n)) \subseteq Cdn!ToSet(s)
           /\ Cdn!ToSet(s) \subseteq Cdn!ToSet(Cdn!First(s, n)) \/ Len(Cdn!First(s, n)) = n
<1>1. PICK m : m = IF Len(s) < n THEN Len(s) ELSE n
  OBVIOUS
<1>2. Len(s) \in Nat /\ m \in Nat /\ m <= Len(s)
  BY <1>1, SequenceFacts
<1>3. PICK t : t = Cdn!First(s, n)
  OBVIOUS
<1>4. t = SubSeq(s, 1, m)
  BY <1>1, <1>3 DEF Cdn!First
<1>5. t \in Seq(S) /\ Len(t) = m /\ \A i \in 1 .. m : t[i] = s[i]
  BY <1>2, <1>4
<1>6. Distinct(t)
  BY <1>2, <1>5 DEF Distinct
<1>7. Cdn!ToSet(t) = {t[i] : i \in 1 .. m} /\ Cdn!ToSet(s) = {s[i] : i \in 1 .. Len(s)}
  BY <1>5, ItemElements
<1>8. Cdn!ToSet(t) \subseteq Cdn!ToSet(s)
  BY <1>2, <1>5, <1>7
<1>9. Cdn!ToSet(s) \subseteq Cdn!ToSet(t) \/ Len(t) = n
  BY <1>1, <1>5, <1>7
<1> QED BY <1>3, <1>5, <1>6, <1>8, <1>9

\* What is taken of the first n addresses that are listed.
UniqueStep(listing, f, n) == IF n = 0 THEN <<>> ELSE Cdn!TakeNew(f[n - 1], listing[n])

\* The candidates are the last of a function's values, each given by the one
\* before.
LEMMA UniqueSteps ==
    ASSUME NEW listing, Len(listing) \in Nat
    PROVE  \E f : /\ Cdn!Candidates(listing) = Cdn!First(f[Len(listing)], Limit)
                  /\ \A n \in 0 .. Len(listing) : f[n] = UniqueStep(listing, f, n)
<1>1. PICK T : T = {m \in Nat : \E g : g = [n \in 0 .. m |-> UniqueStep(listing, g, n)]}
  OBVIOUS
<1>2. 0 \in T
  <2>1. PICK g : g = [n \in 0 .. 0 |-> <<>>]
    OBVIOUS
  <2>2. g = [n \in 0 .. 0 |-> UniqueStep(listing, g, n)]
    BY <2>1 DEF UniqueStep
  <2> QED BY <1>1, <2>2
<1>3. ASSUME NEW m \in Nat, m \in T
      PROVE  m + 1 \in T
  <2>1. PICK g : g = [n \in 0 .. m |-> UniqueStep(listing, g, n)]
    BY <1>1, <1>3
  <2>2. PICK h : h = [n \in 0 .. m + 1 |-> IF n = m + 1 THEN UniqueStep(listing, g, n) ELSE g[n]]
    OBVIOUS
  <2>3. \A n \in 0 .. m : h[n] = g[n]
    BY <2>2
  <2>4. ASSUME NEW n \in 0 .. m + 1
        PROVE  h[n] = UniqueStep(listing, h, n)
    <3>1. n = 0 \/ n - 1 \in 0 .. m
      OBVIOUS
    <3>2. UniqueStep(listing, h, n) = UniqueStep(listing, g, n)
      BY <2>3, <3>1 DEF UniqueStep
    <3>3. CASE n = m + 1
      BY <2>2, <3>2, <3>3
    <3>4. CASE n # m + 1
      <4>1. n \in 0 .. m
        BY <3>4
      <4> QED BY <2>1, <2>3, <3>2, <4>1
    <3> QED BY <3>3, <3>4
  <2>5. h = [n \in 0 .. m + 1 |-> UniqueStep(listing, h, n)]
    BY <2>2, <2>4
  <2> QED BY <1>1, <2>5
<1>4. Len(listing) \in T
  BY <1>2, <1>3, Numbers
<1>5. PICK g : g = [n \in 0 .. Len(listing) |-> UniqueStep(listing, g, n)]
  BY <1>1, <1>4
<1>6. PICK f : f = CHOOSE unique : unique = [n \in 0 .. Len(listing) |-> UniqueStep(listing, unique, n)]
  OBVIOUS
<1>7. f = [n \in 0 .. Len(listing) |-> UniqueStep(listing, f, n)]
  BY <1>5, <1>6
<1>8. Cdn!Candidates(listing) = Cdn!First(f[Len(listing)], Limit)
  BY <1>6 DEF Cdn!Candidates, UniqueStep
<1> QED BY <1>7, <1>8

\* The candidates are different addresses.
LEMMA CandidatesDiffer ==
    ASSUME NEW listing \in Listings
    PROVE  Cdn!Candidates(listing) \in Seq(Ips) /\ Distinct(Cdn!Candidates(listing))
<1>1. Len(listing) \in Nat
  <2>1. listing \in Seq(Ips \cup {None})
    BY ScansAssumption
  <2> QED BY <2>1, SequenceFacts
<1>2. PICK f : /\ Cdn!Candidates(listing) = Cdn!First(f[Len(listing)], Limit)
               /\ \A n \in 0 .. Len(listing) : f[n] = UniqueStep(listing, f, n)
  BY <1>1, UniqueSteps
<1>3. PICK T : T = {m \in Nat : m <= Len(listing) => f[m] \in Seq(Ips) /\ Distinct(f[m])}
  OBVIOUS
<1>4. 0 \in T
  <2>1. f[0] = <<>>
    BY <1>1, <1>2 DEF UniqueStep
  <2>2. <<>> \in Seq(Ips) /\ Distinct(<<>>)
    BY DEF Distinct
  <2> QED BY <1>3, <2>1, <2>2
<1>5. ASSUME NEW m \in Nat, m \in T
      PROVE  m + 1 \in T
  <2> SUFFICES ASSUME m + 1 <= Len(listing) PROVE f[m + 1] \in Seq(Ips) /\ Distinct(f[m + 1])
    BY <1>3
  <2>1. PICK s \in Seq(Ips) : s = f[m] /\ Distinct(s)
    BY <1>1, <1>3, <1>5
  <2>2. PICK ip : ip = listing[m + 1]
    OBVIOUS
  <2>3. f[m + 1] = IF ip \notin Ips \/ ip \in Cdn!ToSet(s) THEN s ELSE Append(s, ip)
    BY <1>1, <1>2, <2>1, <2>2 DEF UniqueStep, Cdn!TakeNew
  <2>4. CASE ip \in Ips /\ ip \notin Cdn!ToSet(s)
    <3>1. Esa!IsInjective(s) /\ Cdn!ToSet(s) = Esa!ToSet(s)
      <4>1. Esa!IsInjective(s)
        BY <2>1, ListElements DEF Distinct
      <4> QED BY <4>1 DEF Cdn!ToSet, Esa!ToSet
    <3>2. Append(s, ip) \in Seq(Ips) /\ Esa!IsInjective(Append(s, ip))
      BY <2>4, <3>1, ListedAddress
    <3>3. Distinct(Append(s, ip))
      BY <3>2, ListElements DEF Distinct
    <3> QED BY <2>3, <2>4, <3>2, <3>3
  <2>5. CASE ~(ip \in Ips /\ ip \notin Cdn!ToSet(s))
    BY <2>1, <2>3, <2>5
  <2> QED BY <2>4, <2>5
<1>6. f[Len(listing)] \in Seq(Ips) /\ Distinct(f[Len(listing)])
  <2>1. Len(listing) \in T
    BY <1>1, <1>4, <1>5, Numbers
  <2> QED BY <1>1, <1>3, <2>1
<1>7. Limit \in Nat
  BY ScansAssumption
<1> QED BY <1>2, <1>6, <1>7, FirstElements

-----------------------------------------------------------------------------
(* The scans: what is found is saved *)

\* What passed TCP, and what passed TLS.
Passed == {ip \in Cdn!Probed("tcp") : rowsOf["tcp"][ip]}
Proved == {ip \in Cdn!Probed("tls") : Cdn!TlsPasses(Cdn!Provider, rowsOf["tls"][ip])}

ScanTyped ==
    /\ plan \in Seq(Cdn!Providers) /\ stage \in Cdn!Stages
    /\ items \in Seq(Ips) /\ next \in 1 .. Len(items) + 1
    /\ busy \in [Cdn!Workers -> 0 .. Len(items)]
    /\ rowsOf = [s \in Cdn!Stages |-> rowsOf[s]] /\ \A s \in Cdn!Stages : Cdn!Probed(s) \subseteq Ips
    /\ ips \subseteq Cdn!Providers \X Ips

\* Each position handed out is done with, or one worker has it; none is
\* handed out twice.
PoolInv ==
    /\ Distinct(items)
    /\ \A w \in Cdn!Workers : busy[w] # 0 => busy[w] < next /\ Cdn!Ip(w) \notin Cdn!Probed(stage)
    /\ \A v, w \in Cdn!Workers : busy[v] # 0 /\ busy[v] = busy[w] => v = w
    /\ \A i \in 1 .. next - 1 : items[i] \in Cdn!Probed(stage) \/ \E w \in Cdn!Workers : busy[w] = i
    /\ \A ip \in Cdn!Probed(stage) : \E i \in 1 .. next - 1 : items[i] = ip
    /\ \A w \in Cdn!Workers : busy[w] = 0 => next > Len(items)

\* The stages come one after the other; each has what passed the one before.
StagesInv ==
    /\ stage \in Cdn!ToSet(Cdn!StagesOf(Cdn!Provider))
    /\ \A s \in Cdn!Stages \ Cdn!ToSet(Cdn!StagesOf(Cdn!Provider)) : Cdn!Probed(s) = {}
    /\ stage = "tcp" => Cdn!Probed("tls") = {}
    /\ stage \in {"tcp", "tls"} => Cdn!Probed("http") = {}
    /\ stage # "ws" => Cdn!Probed("ws") = {}
    /\ stage = "tls" => Cdn!ToSet(items) = Passed
    /\ stage \in {"http", "ws"} =>
         /\ Cdn!Probed("tls") = Passed
         /\ Cdn!ToSet(items) \subseteq Proved
         /\ Proved \subseteq Cdn!ToSet(items) \/ Len(items) = Cdn!ApplicationLimitOf(Cdn!Provider)
    /\ stage = "ws" /\ Cdn!Provider = "bunny" => Cdn!Probed("http") = Cdn!ToSet(items)

\* What the rows show as found is saved, and what is saved was found.
SavedInv ==
    /\ \A s \in {"http", "ws"} : \A ip \in Cdn!Probed(s) :
           Cdn!Found(Cdn!Provider, s, ip, rowsOf[s][ip]) => <<Cdn!Provider, ip>> \in ips
    /\ Cdn!Provider \notin {"bunny", "fastly"} =>
           \A ip \in Ips : <<Cdn!Provider, ip>> \in ips \ faulty =>
               \E s \in {"http", "ws"} : ip \in Cdn!Probed(s) /\ Cdn!Found(Cdn!Provider, s, ip, rowsOf[s][ip])

\* Each provider is scanned once, and reported once.
PlanInv ==
    /\ reported \in Seq([provider : Cdn!Providers, ok : SUBSET Ips])
    /\ Distinct(plan)
    /\ \A i \in 2 .. Len(plan) : \A ip \in Ips : <<plan[i], ip>> \notin ips
    /\ \A n \in DOMAIN reported : \A i \in 1 .. Len(plan) : reported[n].provider # plan[i]

\* The second file lacks what could not be saved, or what a kill interrupted.
AppendsInv ==
    /\ ips \subseteq jsonl
    /\ IF killed THEN plan = <<>> /\ \E x : (jsonl \ ips) \ faulty \subseteq {x} ELSE jsonl \ ips \subseteq faulty

\* What is reported is what was saved.
ReportInv ==
    \A n \in DOMAIN reported :
        reported[n].provider \notin {"bunny", "fastly"} =>
            /\ \A ip \in reported[n].ok : <<reported[n].provider, ip>> \in ips
            /\ \A ip \in Ips : <<reported[n].provider, ip>> \in ips \ faulty => ip \in reported[n].ok

ScanInv ==
    /\ ScanTyped /\ PlanInv /\ AppendsInv /\ ReportInv
    /\ plan # <<>> => PoolInv /\ StagesInv /\ SavedInv

\* The stage that follows another.
LEMMA StageFacts ==
    ASSUME Cdn!Provider \in Cdn!Providers, stage \in Cdn!ToSet(Cdn!StagesOf(Cdn!Provider))
    PROVE  /\ stage \in {"tcp", "tls"} => ~Cdn!LastStage
           /\ stage = "ws" => Cdn!LastStage
           /\ stage = "http" /\ ~Cdn!LastStage => Cdn!Provider = "bunny"
           /\ ~Cdn!LastStage => Cdn!NextStage \in Cdn!ToSet(Cdn!StagesOf(Cdn!Provider)) /\ Cdn!NextStage \in Cdn!Stages
           /\ stage = "tcp" => Cdn!NextStage = "tls"
           /\ stage = "tls" => Cdn!NextStage \in {"http", "ws"} /\ (Cdn!NextStage = "ws" => Cdn!Provider # "bunny")
           /\ stage = "http" /\ ~Cdn!LastStage => Cdn!NextStage = "ws"
           /\ Cdn!StageNo > 2 => stage \in {"http", "ws"}
           /\ Cdn!StageNo > 3 => stage = "ws" /\ Cdn!Provider = "bunny"
           /\ Cdn!StageNo \in 1 .. 4
           /\ Cdn!Provider = "bunny" => Cdn!StagesOf(Cdn!Provider)[3] = "http"
           /\ Cdn!StagesOf(Cdn!Provider)[1] = "tcp" /\ Cdn!StagesOf(Cdn!Provider)[2] = "tls"
<1>1. PICK list : list = Cdn!StagesOf(Cdn!Provider)
  OBVIOUS
<1>2. \/ list = <<"tcp", "tls", "http", "ws">> /\ Cdn!Provider = "bunny"
      \/ list = <<"tcp", "tls", "http">> /\ Cdn!Provider # "bunny"
      \/ list = <<"tcp", "tls", "ws">> /\ Cdn!Provider # "bunny"
  BY <1>1 DEF Cdn!StagesOf, Cdn!Providers
<1>3. PICK n : n = Cdn!StageNo
  OBVIOUS
<1>4. n = CHOOSE k \in DOMAIN list : list[k] = stage
  BY <1>1, <1>3 DEF Cdn!StageNo
<1>5. stage \in {list[k] : k \in DOMAIN list}
  BY <1>1 DEF Cdn!ToSet
<1>6. n \in DOMAIN list /\ list[n] = stage
  BY <1>4, <1>5
<1>7. (Cdn!LastStage <=> n = Len(list)) /\ Cdn!NextStage = list[n + 1]
  BY <1>1, <1>3 DEF Cdn!LastStage, Cdn!NextStage
<1>8. \A k \in DOMAIN list : list[k] \in Cdn!ToSet(list)
  BY DEF Cdn!ToSet
<1>9. CASE list = <<"tcp", "tls", "http", "ws">> /\ Cdn!Provider = "bunny"
  <2>1. n \in 1 .. 4 /\ DOMAIN list = 1 .. 4 /\ Len(list) = 4
    BY <1>6, <1>9
  <2>2. list[1] = "tcp" /\ list[2] = "tls" /\ list[3] = "http" /\ list[4] = "ws"
    BY <1>9
  <2>3. n # 4 => n + 1 \in DOMAIN list
    BY <2>1
  <2>4. n \in {1, 2, 3, 4}
    BY <2>1
  <2> QED BY <1>1, <1>3, <1>6, <1>7, <1>8, <1>9, <2>1, <2>2, <2>3, <2>4 DEF Cdn!Stages
<1>10. CASE list = <<"tcp", "tls", "http">> /\ Cdn!Provider # "bunny"
  <2>1. n \in 1 .. 3 /\ DOMAIN list = 1 .. 3 /\ Len(list) = 3
    BY <1>6, <1>10
  <2>2. list[1] = "tcp" /\ list[2] = "tls" /\ list[3] = "http"
    BY <1>10
  <2>3. n # 3 => n + 1 \in DOMAIN list
    BY <2>1
  <2>4. n \in {1, 2, 3}
    BY <2>1
  <2> QED BY <1>1, <1>3, <1>6, <1>7, <1>8, <1>10, <2>1, <2>2, <2>3, <2>4 DEF Cdn!Stages
<1>11. CASE list = <<"tcp", "tls", "ws">> /\ Cdn!Provider # "bunny"
  <2>1. n \in 1 .. 3 /\ DOMAIN list = 1 .. 3 /\ Len(list) = 3
    BY <1>6, <1>11
  <2>2. list[1] = "tcp" /\ list[2] = "tls" /\ list[3] = "ws"
    BY <1>11
  <2>3. n # 3 => n + 1 \in DOMAIN list
    BY <2>1
  <2>4. n \in {1, 2, 3}
    BY <2>1
  <2> QED BY <1>1, <1>3, <1>6, <1>7, <1>8, <1>11, <2>1, <2>2, <2>3, <2>4 DEF Cdn!Stages
<1> QED BY <1>2, <1>9, <1>10, <1>11

\* TCP is the first stage of each provider.
LEMMA FirstStage == \A p \in Cdn!Providers : "tcp" \in Cdn!ToSet(Cdn!StagesOf(p))
<1> SUFFICES ASSUME NEW p \in Cdn!Providers PROVE "tcp" \in Cdn!ToSet(Cdn!StagesOf(p))
  OBVIOUS
<1>1. \/ Cdn!StagesOf(p) = <<"tcp", "tls", "http", "ws">>
      \/ Cdn!StagesOf(p) = <<"tcp", "tls", "http">>
      \/ Cdn!StagesOf(p) = <<"tcp", "tls", "ws">>
  BY DEF Cdn!StagesOf, Cdn!Providers
<1>2. 1 \in DOMAIN Cdn!StagesOf(p) /\ Cdn!StagesOf(p)[1] = "tcp"
  BY <1>1
<1> QED BY <1>2 DEF Cdn!ToSet

\* A pool that starts has handed out nothing it does not work on.
LEMMA PoolStarts ==
    ASSUME NEW list \in Seq(Ips), Distinct(list), NEW s \in Cdn!Stages, Cdn!StartPool(s, list),
           (Cdn!Probed(stage) = {})'
    PROVE  PoolInv' /\ stage' = s /\ items' = list /\ next' \in 1 .. Len(list) + 1
           /\ busy' \in [Cdn!Workers -> 0 .. Len(list)]
<1>1. /\ stage' = s /\ items' = list
      /\ next' = IF Len(list) < Concurrency THEN Len(list) + 1 ELSE Concurrency + 1
      /\ busy' = [w \in Cdn!Workers |-> IF w <= Len(list) THEN w ELSE 0]
  BY DEF Cdn!StartPool
<1>2. Len(list) \in Nat /\ Concurrency \in Nat /\ Cdn!Workers = 1 .. Concurrency
  BY SequenceFacts, ScansAssumption DEF Cdn!Workers
<1>3. next' \in 1 .. Len(list) + 1 /\ busy' \in [Cdn!Workers -> 0 .. Len(list)]
  BY <1>1, <1>2
<1>4. \A w \in Cdn!Workers : busy'[w] # 0 => busy'[w] < next' /\ busy'[w] = w
  BY <1>1, <1>2
<1>5. \A w \in Cdn!Workers : busy'[w] = 0 => next' > Len(list)
  BY <1>1, <1>2
<1>6. \A i \in 1 .. next' - 1 : \E w \in Cdn!Workers : busy'[w] = i
  <2> SUFFICES ASSUME NEW i \in 1 .. next' - 1 PROVE i \in Cdn!Workers /\ busy'[i] = i
    OBVIOUS
  <2>1. i \in 1 .. Concurrency /\ i <= Len(list)
    BY <1>1, <1>2
  <2> QED BY <1>1, <1>2, <2>1
<1>7. PoolInv'
  BY <1>1, <1>4, <1>5, <1>6 DEF PoolInv, Cdn!Ip, Distinct
<1> QED BY <1>1, <1>3, <1>7

\* The provider scanned is the first of the plan.
LEMMA ProviderIs ==
    ASSUME ScanTyped, plan # <<>>
    PROVE  /\ Cdn!Provider \in Cdn!Providers /\ Cdn!Provider = plan[1]
           /\ Len(plan) \in Nat /\ Len(plan) > 0
           /\ Tail(plan) \in Seq(Cdn!Providers) /\ Len(Tail(plan)) = Len(plan) - 1
           /\ \A i \in 1 .. Len(plan) - 1 : Tail(plan)[i] = plan[i + 1]
<1>1. plan \in Seq(Cdn!Providers)
  BY DEF ScanTyped
<1>2. /\ Head(plan) \in Cdn!Providers /\ Head(plan) = plan[1] /\ Len(plan) \in Nat /\ Len(plan) > 0
      /\ Tail(plan) \in Seq(Cdn!Providers) /\ Len(Tail(plan)) = Len(plan) - 1
  BY <1>1
<1>3. \A i \in 1 .. Len(plan) - 1 : Tail(plan)[i] = plan[i + 1]
  BY <1>1
<1> QED BY <1>2, <1>3 DEF Cdn!Provider

\* A worker has the outcome of its address, and takes another one.
LEMMA RowSteps ==
    ASSUME ScanTyped, plan # <<>>, NEW w \in Cdn!Workers, busy[w] # 0, NEW outcome,
           Cdn!Row(w, outcome)
    PROVE  /\ Cdn!Ip(w) \in Ips /\ Cdn!Ip(w) \in Cdn!ToSet(items)
           /\ rowsOf' = [s \in Cdn!Stages |-> rowsOf'[s]]
           /\ \A s \in Cdn!Stages : s # stage => rowsOf'[s] = rowsOf[s]
           /\ DOMAIN rowsOf'[stage] = Cdn!Probed(stage) \cup {Cdn!Ip(w)}
           /\ \A ip \in Cdn!Probed(stage) : ip # Cdn!Ip(w) => rowsOf'[stage][ip] = rowsOf[stage][ip]
           /\ rowsOf'[stage][Cdn!Ip(w)] = outcome
<1>1. busy[w] \in 1 .. Len(items) /\ items \in Seq(Ips) /\ Len(items) \in Nat
  BY SequenceFacts DEF ScanTyped
<1>2. Cdn!Ip(w) \in Ips /\ Cdn!Ip(w) \in Cdn!ToSet(items)
  BY <1>1, ItemElements DEF Cdn!Ip
<1>3. rowsOf' = [rowsOf EXCEPT ![stage] = [ip \in DOMAIN rowsOf[stage] \cup {Cdn!Ip(w)} |->
                     IF ip = Cdn!Ip(w) THEN outcome ELSE rowsOf[stage][ip]]]
  BY DEF Cdn!Row
<1>4. DOMAIN rowsOf = Cdn!Stages /\ stage \in Cdn!Stages
  BY DEF ScanTyped
<1>5. rowsOf' = [s \in Cdn!Stages |-> IF s = stage
                     THEN [ip \in DOMAIN rowsOf[stage] \cup {Cdn!Ip(w)} |->
                              IF ip = Cdn!Ip(w) THEN outcome ELSE rowsOf[stage][ip]]
                     ELSE rowsOf[s]]
  BY <1>3, <1>4
<1>6. rowsOf'[stage] = [ip \in Cdn!Probed(stage) \cup {Cdn!Ip(w)} |->
                          IF ip = Cdn!Ip(w) THEN outcome ELSE rowsOf[stage][ip]]
  BY <1>4, <1>5 DEF Cdn!Probed
<1>7. \A s \in Cdn!Stages : s # stage => rowsOf'[s] = rowsOf[s]
  BY <1>5
<1>8. rowsOf' = [s \in Cdn!Stages |-> rowsOf'[s]]
  BY <1>5
<1> QED BY <1>2, <1>6, <1>7, <1>8

\* The pool goes on with it.
LEMMA ProbeKeepsPool ==
    ASSUME ScanTyped, plan # <<>>, PoolInv, StagesInv, NEW w \in Cdn!Workers, busy[w] # 0, NEW outcome,
           Cdn!Row(w, outcome), Cdn!TakeNext(w), plan' = plan, stage' = stage, items' = items
    PROVE  /\ PoolInv' /\ StagesInv'
           /\ next' \in 1 .. Len(items) + 1 /\ busy' \in [Cdn!Workers -> 0 .. Len(items)]
<1>1. /\ Cdn!Ip(w) \in Ips /\ Cdn!Ip(w) \in Cdn!ToSet(items)
      /\ \A s \in Cdn!Stages : s # stage => rowsOf'[s] = rowsOf[s]
      /\ DOMAIN rowsOf'[stage] = Cdn!Probed(stage) \cup {Cdn!Ip(w)}
  BY RowSteps
<1>2. /\ Len(items) \in Nat /\ next \in 1 .. Len(items) + 1 /\ busy \in [Cdn!Workers -> 0 .. Len(items)]
      /\ stage \in Cdn!Stages
  BY SequenceFacts DEF ScanTyped
<1>3. /\ busy' = [busy EXCEPT ![w] = IF next <= Len(items) THEN next ELSE 0]
      /\ next' = IF next <= Len(items) THEN next + 1 ELSE next
  BY DEF Cdn!TakeNext
<1>4. next' \in 1 .. Len(items) + 1 /\ next' >= next /\ busy' \in [Cdn!Workers -> 0 .. Len(items)]
  BY <1>2, <1>3
<1>5. /\ \A v \in Cdn!Workers : v # w => busy'[v] = busy[v]
      /\ busy'[w] = IF next <= Len(items) THEN next ELSE 0
  BY <1>2, <1>3
<1>6. /\ Distinct(items)
      /\ \A v \in Cdn!Workers : busy[v] # 0 => busy[v] < next /\ items[busy[v]] \notin Cdn!Probed(stage)
      /\ \A u, v \in Cdn!Workers : busy[u] # 0 /\ busy[u] = busy[v] => u = v
      /\ \A i \in 1 .. next - 1 : items[i] \in Cdn!Probed(stage) \/ \E v \in Cdn!Workers : busy[v] = i
      /\ \A ip \in Cdn!Probed(stage) : \E i \in 1 .. next - 1 : items[i] = ip
      /\ \A v \in Cdn!Workers : busy[v] = 0 => next > Len(items)
  BY DEF PoolInv, Cdn!Ip
<1>7. \A v \in Cdn!Workers : busy[v] \in Nat /\ busy'[v] \in Nat
  BY <1>2, <1>4
<1>8. PICK done : done = Cdn!Probed(stage) \cup {items[busy[w]]}
  OBVIOUS
<1>9. DOMAIN rowsOf'[stage] = done
  BY <1>1, <1>8 DEF Cdn!Ip
<1>10. ASSUME NEW v \in Cdn!Workers, busy'[v] # 0
       PROVE  busy'[v] < next' /\ items[busy'[v]] \notin done
  <2>1. CASE v = w
    <3>1. next <= Len(items) /\ busy'[v] = next /\ next' = next + 1
      BY <1>3, <1>5, <1>10, <2>1
    <3>2. next \in 1 .. Len(items) /\ busy[w] \in 1 .. Len(items) /\ busy[w] # next
      BY <1>2, <1>6, <3>1
    <3>3. items[next] # items[busy[w]]
      BY <1>6, <3>2 DEF Distinct
    <3>4. items[next] \notin Cdn!Probed(stage)
      <4> SUFFICES ASSUME items[next] \in Cdn!Probed(stage) PROVE FALSE
        OBVIOUS
      <4>1. PICK i \in 1 .. next - 1 : items[i] = items[next]
        BY <1>6
      <4>2. i \in 1 .. Len(items) /\ i # next
        BY <1>2, <4>1
      <4> QED BY <1>6, <3>2, <4>1, <4>2 DEF Distinct
    <3> QED BY <1>2, <1>8, <3>1, <3>3, <3>4
  <2>2. CASE v # w
    <3>1. busy'[v] = busy[v] /\ busy[v] < next /\ items[busy[v]] \notin Cdn!Probed(stage)
      BY <1>5, <1>6, <1>10, <2>2
    <3>2. busy[v] # busy[w] /\ busy[v] \in 1 .. Len(items) /\ busy[w] \in 1 .. Len(items)
      BY <1>2, <1>5, <1>6, <1>10, <2>2
    <3>3. items[busy[v]] # items[busy[w]]
      BY <1>6, <3>2 DEF Distinct
    <3> QED BY <1>2, <1>4, <1>7, <1>8, <3>1, <3>3
  <2> QED BY <2>1, <2>2
<1>11. ASSUME NEW u \in Cdn!Workers, NEW v \in Cdn!Workers, busy'[u] # 0, busy'[u] = busy'[v]
       PROVE  u = v
  <2>1. \A x \in Cdn!Workers : x # w /\ busy'[x] # 0 => busy'[x] < next /\ busy'[x] = busy[x]
    BY <1>5, <1>6
  <2>2. busy'[w] # 0 => busy'[w] = next
    BY <1>5
  <2>3. next \in Nat
    BY <1>2
  <2>4. CASE u # w /\ v # w
    BY <1>6, <1>11, <2>1, <2>4
  <2>5. CASE u = w /\ v # w
    BY <1>7, <1>11, <2>1, <2>2, <2>3, <2>5
  <2>6. CASE u # w /\ v = w
    BY <1>7, <1>11, <2>1, <2>2, <2>3, <2>6
  <2> QED BY <2>4, <2>5, <2>6
<1>12. ASSUME NEW i \in 1 .. next' - 1
       PROVE  items[i] \in done \/ \E v \in Cdn!Workers : busy'[v] = i
  <2>1. CASE i \in 1 .. next - 1
    <3>1. CASE items[i] \in Cdn!Probed(stage)
      BY <1>8, <3>1
    <3>2. CASE \E v \in Cdn!Workers : busy[v] = i
      <4>1. PICK v \in Cdn!Workers : busy[v] = i
        BY <3>2
      <4> QED BY <1>5, <1>8, <4>1
    <3> QED BY <1>6, <2>1, <3>1, <3>2
  <2>2. CASE i = next /\ next <= Len(items)
    BY <1>5, <2>2
  <2>3. i \in 1 .. next - 1 \/ (i = next /\ next <= Len(items))
    BY <1>2, <1>3, <1>12
  <2> QED BY <2>1, <2>2, <2>3
<1>13. ASSUME NEW ip \in done
       PROVE  \E i \in 1 .. next' - 1 : items[i] = ip
  <2>1. CASE ip \in Cdn!Probed(stage)
    <3>1. PICK i \in 1 .. next - 1 : items[i] = ip
      BY <1>6, <2>1
    <3>2. i \in 1 .. next' - 1
      <4>1. next \in Int /\ next' \in Int /\ next' >= next
        BY <1>2, <1>4
      <4>2. \A a, b \in Int : b >= a => 1 .. a - 1 \subseteq 1 .. b - 1
        OBVIOUS
      <4>3. 1 .. next - 1 \subseteq 1 .. next' - 1
        BY <4>1, <4>2
      <4> QED BY <4>3
    <3> QED BY <3>1, <3>2
  <2>2. CASE ip = items[busy[w]]
    <3>1. busy[w] \in 1 .. next' - 1
      BY <1>2, <1>4, <1>6, <1>7
    <3> QED BY <2>2, <3>1
  <2> QED BY <1>8, <2>1, <2>2
<1>14. \A v \in Cdn!Workers : busy'[v] = 0 => next' > Len(items)
  <2> SUFFICES ASSUME NEW v \in Cdn!Workers, busy'[v] = 0 PROVE next' > Len(items)
    OBVIOUS
  <2>1. CASE v = w
    BY <1>2, <1>3, <1>5, <2>1
  <2>2. CASE v # w
    BY <1>2, <1>3, <1>5, <1>6, <2>2
  <2> QED BY <2>1, <2>2
<1>15. PoolInv'
  BY <1>6, <1>9, <1>10, <1>11, <1>12, <1>13, <1>14 DEF PoolInv, Cdn!Ip, Cdn!Probed
<1>16. StagesInv'
  <2>1. Cdn!Provider' = Cdn!Provider
    BY DEF Cdn!Provider
  <2>2. \A s \in Cdn!Stages : s # stage => Cdn!Probed(s)' = Cdn!Probed(s)
    BY <1>1 DEF Cdn!Probed
  <2>3. "tcp" \in Cdn!Stages /\ "tls" \in Cdn!Stages /\ "http" \in Cdn!Stages /\ "ws" \in Cdn!Stages
    BY DEF Cdn!Stages
  <2>4. /\ stage # "tcp" => Passed' = Passed
        /\ stage \in {"http", "ws"} => Proved' = Proved
    <3>1. stage # "tcp" => Passed' = Passed
      BY <1>1, <2>2, <2>3 DEF Passed
    <3>2. stage \in {"http", "ws"} => Proved' = Proved
      BY <1>1, <2>1, <2>2, <2>3 DEF Proved
    <3> QED BY <3>1, <3>2
  <2>5. Cdn!ToSet(items)' = Cdn!ToSet(items)
    BY DEF Cdn!ToSet
  <2>6. Cdn!StagesOf(Cdn!Provider)' = Cdn!StagesOf(Cdn!Provider) /\ Cdn!ApplicationLimitOf(Cdn!Provider)' = Cdn!ApplicationLimitOf(Cdn!Provider)
    BY <2>1 DEF Cdn!StagesOf, Cdn!ApplicationLimitOf
  <2> QED BY <2>1, <2>2, <2>3, <2>4, <2>5, <2>6 DEF StagesInv
<1> QED BY <1>4, <1>15, <1>16

\* What counts as found stays so while the application stages run.
LEMMA FoundStays ==
    ASSUME NEW p, NEW s, NEW ip, NEW status, rowsOf'["tls"] = rowsOf["tls"]
    PROVE  Cdn!Found(p, s, ip, status)' <=> Cdn!Found(p, s, ip, status)
BY DEF Cdn!Found, Cdn!IsAlibabaStatus

\* A failed probe has found nothing.
LEMMA FailedFindsNothing ==
    ASSUME NEW p, NEW s, NEW ip
    PROVE  ~Cdn!Found(p, s, ip, 0)
BY DEF Cdn!Found, Cdn!IsAlibabaStatus

\* The second file takes in what was found, and nothing else but what failed.
SavesWhatIsFound(w, outcome) ==
    /\ ips \subseteq ips'
    /\ Cdn!Saves(outcome, Cdn!Ip(w)) => <<Cdn!Provider, Cdn!Ip(w)>> \in ips'
    /\ \A x \in ips' \ faulty' : x \in ips \ faulty \/ (Cdn!Saves(outcome, Cdn!Ip(w)) /\ x = <<Cdn!Provider, Cdn!Ip(w)>>)

\* With the outcome of a probe what the rows show as found is what is saved,
\* when what was found now, and nothing else but what failed, is saved now.
LEMMA ProbeKeepsSaved ==
    ASSUME ScanTyped, plan # <<>>, PoolInv, StagesInv, SavedInv, NEW w \in Cdn!Workers, busy[w] # 0, NEW outcome,
           Cdn!Row(w, outcome), plan' = plan, stage' = stage,
           SavesWhatIsFound(w, outcome)
    PROVE  SavedInv'
<1>0. /\ ips \subseteq ips' /\ (Cdn!Saves(outcome, Cdn!Ip(w)) => <<Cdn!Provider, Cdn!Ip(w)>> \in ips')
      /\ \A x \in ips' \ faulty' : x \in ips \ faulty \/ (Cdn!Saves(outcome, Cdn!Ip(w)) /\ x = <<Cdn!Provider, Cdn!Ip(w)>>)
  BY DEF SavesWhatIsFound
<1>1. PICK p : p = Cdn!Provider /\ Cdn!Provider' = p
  BY DEF Cdn!Provider
<1>2. PICK a : a = Cdn!Ip(w)
  OBVIOUS
<1>3. /\ a \in Ips
      /\ \A s \in Cdn!Stages : s # stage => rowsOf'[s] = rowsOf[s]
      /\ DOMAIN rowsOf'[stage] = Cdn!Probed(stage) \cup {a}
      /\ \A ip \in Cdn!Probed(stage) : ip # a => rowsOf'[stage][ip] = rowsOf[stage][ip]
      /\ rowsOf'[stage][a] = outcome
  BY <1>2, RowSteps
<1>4. a \notin Cdn!Probed(stage)
  BY <1>2 DEF PoolInv
<1>5. "http" \in Cdn!Stages /\ "ws" \in Cdn!Stages /\ "tls" \in Cdn!Stages
  BY DEF Cdn!Stages
<1>6. CASE stage \notin {"http", "ws"}
  <2>1. Cdn!Probed("http") = {} /\ Cdn!Probed("ws") = {} /\ Cdn!Probed("http")' = {} /\ Cdn!Probed("ws")' = {}
    <3>1. stage \in {"tcp", "tls"}
      BY <1>6 DEF ScanTyped, Cdn!Stages
    <3>2. Cdn!Probed("http") = {} /\ Cdn!Probed("ws") = {}
      BY <3>1 DEF StagesInv
    <3> QED BY <1>3, <1>5, <1>6, <3>2 DEF Cdn!Probed
  <2>2. ips' \ faulty' \subseteq ips \ faulty
    BY <1>0, <1>6 DEF Cdn!Saves
  <2> QED BY <1>1, <2>1, <2>2 DEF SavedInv
<1>7. CASE stage \in {"http", "ws"}
  <2>1. rowsOf'["tls"] = rowsOf["tls"]
    BY <1>3, <1>5, <1>7
  <2>2. Cdn!Saves(outcome, a) <=> Cdn!Found(p, stage, a, outcome)
    BY <1>1, <1>7 DEF Cdn!Saves
  <2>3. /\ \A s \in {"http", "ws"} : \A ip \in Cdn!Probed(s) : Cdn!Found(p, s, ip, rowsOf[s][ip]) => <<p, ip>> \in ips
        /\ p \notin {"bunny", "fastly"} =>
             \A ip \in Ips : <<p, ip>> \in ips \ faulty =>
                 \E s \in {"http", "ws"} : ip \in Cdn!Probed(s) /\ Cdn!Found(p, s, ip, rowsOf[s][ip])
    BY <1>1 DEF SavedInv
  <2>4. /\ \A s \in {"http", "ws"} : s # stage => DOMAIN rowsOf'[s] = Cdn!Probed(s)
        /\ \A s \in {"http", "ws"} : \A ip \in Cdn!Probed(s) : <<s, ip>> # <<stage, a>> => rowsOf'[s][ip] = rowsOf[s][ip]
    BY <1>3, <1>5 DEF Cdn!Probed
  <2>5. ASSUME NEW s \in {"http", "ws"}, NEW ip \in DOMAIN rowsOf'[s], Cdn!Found(p, s, ip, rowsOf'[s][ip])
        PROVE  <<p, ip>> \in ips'
    <3>1. CASE s = stage /\ ip = a
      <4>1. Cdn!Saves(outcome, a)
        BY <1>3, <2>2, <2>5, <3>1
      <4> QED BY <1>0, <1>1, <1>2, <3>1, <4>1
    <3>2. CASE ~(s = stage /\ ip = a)
      <4>1. ip \in Cdn!Probed(s) /\ rowsOf'[s][ip] = rowsOf[s][ip]
        BY <1>3, <2>4, <3>2
      <4>2. <<p, ip>> \in ips
        BY <2>3, <2>5, <4>1
      <4> QED BY <1>0, <4>2
    <3> QED BY <3>1, <3>2
  <2>6. ASSUME p \notin {"bunny", "fastly"}, NEW ip \in Ips, <<p, ip>> \in ips' \ faulty'
        PROVE  \E s \in {"http", "ws"} : ip \in DOMAIN rowsOf'[s] /\ Cdn!Found(p, s, ip, rowsOf'[s][ip])
    <3>1. CASE <<p, ip>> \in ips \ faulty
      <4>1. PICK s \in {"http", "ws"} : ip \in Cdn!Probed(s) /\ Cdn!Found(p, s, ip, rowsOf[s][ip])
        BY <2>3, <2>6, <3>1
      <4>2. rowsOf'[s][ip] = rowsOf[s][ip] /\ ip \in DOMAIN rowsOf'[s]
        BY <1>3, <1>4, <2>4, <4>1
      <4> QED BY <4>1, <4>2
    <3>2. CASE <<p, ip>> \notin ips \ faulty
      <4>1. Cdn!Saves(outcome, a) /\ ip = a
        BY <1>0, <1>1, <1>2, <2>6, <3>2
      <4>2. Cdn!Found(p, stage, a, outcome)
        BY <2>2, <4>1
      <4> QED BY <1>3, <1>7, <4>1, <4>2
    <3> QED BY <3>1, <3>2
  <2>7. \A s, ip, status : Cdn!Found(p, s, ip, status)' <=> Cdn!Found(p, s, ip, status)
    BY <2>1, FoundStays
  <2> QED BY <1>1, <2>5, <2>6, <2>7 DEF SavedInv, Cdn!Probed
<1> QED BY <1>6, <1>7

\* Saving for the provider scanned disturbs neither the ones before nor the
\* ones to come.
LEMMA SavingKeepsOthers ==
    ASSUME ScanTyped, plan # <<>>, PlanInv, ReportInv, plan' = plan, reported' = reported, NEW ip \in Ips,
           ips \subseteq ips', ips' \subseteq ips \cup {<<Cdn!Provider, ip>>}, faulty \subseteq faulty'
    PROVE  PlanInv' /\ ReportInv' /\ ips' \subseteq Cdn!Providers \X Ips
<1>1. Cdn!Provider \in Cdn!Providers /\ Cdn!Provider = plan[1] /\ Len(plan) \in Nat /\ Len(plan) > 0
  BY ProviderIs
<1>2. ips' \subseteq Cdn!Providers \X Ips
  BY <1>1 DEF ScanTyped
<1>3. \A i \in 2 .. Len(plan) : plan[i] # Cdn!Provider
  <2> SUFFICES ASSUME NEW i \in 2 .. Len(plan), plan[i] = plan[1] PROVE FALSE
    BY <1>1
  <2>1. i \in 1 .. Len(plan) /\ 1 \in 1 .. Len(plan) /\ i # 1
    BY <1>1
  <2> QED BY <2>1 DEF PlanInv, Distinct
<1>4. \A n \in DOMAIN reported : reported[n].provider # Cdn!Provider
  <2>1. 1 \in 1 .. Len(plan)
    BY <1>1
  <2> QED BY <1>1, <2>1 DEF PlanInv
<1>5. \A q, a : q # Cdn!Provider => (<<q, a>> \in ips' <=> <<q, a>> \in ips)
  OBVIOUS
<1>6. \A i \in 2 .. Len(plan) : \A a \in Ips : <<plan[i], a>> \notin ips'
  BY <1>3, <1>5 DEF PlanInv
<1>7. PlanInv'
  BY <1>6 DEF PlanInv, Distinct
<1>8. ReportInv'
  <2> SUFFICES ASSUME NEW n \in DOMAIN reported, reported[n].provider \notin {"bunny", "fastly"}
               PROVE  /\ \A a \in reported[n].ok : <<reported[n].provider, a>> \in ips'
                      /\ \A a \in Ips : <<reported[n].provider, a>> \in ips' \ faulty' => a \in reported[n].ok
    BY DEF ReportInv
  <2>1. /\ \A a \in reported[n].ok : <<reported[n].provider, a>> \in ips
        /\ \A a \in Ips : <<reported[n].provider, a>> \in ips \ faulty => a \in reported[n].ok
    BY DEF ReportInv
  <2>2. \A a : <<reported[n].provider, a>> \in ips' <=> <<reported[n].provider, a>> \in ips
    BY <1>4, <1>5
  <2> QED BY <2>1, <2>2
<1> QED BY <1>2, <1>7, <1>8

\* The types after a probe.
LEMMA ProbeTyped ==
    ASSUME ScanTyped, plan # <<>>, NEW w \in Cdn!Workers, busy[w] # 0, NEW outcome,
           Cdn!Row(w, outcome), plan' = plan, stage' = stage, items' = items,
           next' \in 1 .. Len(items) + 1, busy' \in [Cdn!Workers -> 0 .. Len(items)],
           ips' \subseteq Cdn!Providers \X Ips
    PROVE  ScanTyped'
<1>1. /\ Cdn!Ip(w) \in Ips
      /\ rowsOf' = [s \in Cdn!Stages |-> rowsOf'[s]]
      /\ \A s \in Cdn!Stages : s # stage => rowsOf'[s] = rowsOf[s]
      /\ DOMAIN rowsOf'[stage] = Cdn!Probed(stage) \cup {Cdn!Ip(w)}
  BY RowSteps
<1>2. stage \in Cdn!Stages /\ \A s \in Cdn!Stages : DOMAIN rowsOf[s] \subseteq Ips
  BY DEF ScanTyped, Cdn!Probed
<1>3. \A s \in Cdn!Stages : DOMAIN rowsOf'[s] \subseteq Ips
  BY <1>1, <1>2 DEF Cdn!Probed
<1> QED BY <1>1, <1>3 DEF ScanTyped, Cdn!Probed

\* A probe that ends leaves the row of its address, and its line when it found it.
LEMMA FinishKeepsScan ==
    ASSUME NEW w \in Cdn!Workers, NEW outcome
    PROVE  ScanInv /\ Cdn!Finish(w, outcome) => ScanInv'
<1> SUFFICES ASSUME ScanInv, Cdn!Finish(w, outcome) PROVE ScanInv'
  OBVIOUS
<1>1. /\ plan # <<>> /\ busy[w] # 0 /\ Cdn!Row(w, outcome) /\ Cdn!TakeNext(w)
      /\ plan' = plan /\ stage' = stage /\ items' = items /\ reported' = reported /\ faulty' = faulty /\ killed' = killed
      /\ IF Cdn!Saves(outcome, Cdn!Ip(w))
         THEN /\ jsonl' = jsonl \cup {<<Cdn!Provider, Cdn!Ip(w)>>}
              /\ ips' = ips \cup {<<Cdn!Provider, Cdn!Ip(w)>>}
         ELSE jsonl' = jsonl /\ ips' = ips
  BY DEF Cdn!Finish, Cdn!files
<1>2. ScanTyped /\ PlanInv /\ AppendsInv /\ ReportInv /\ PoolInv /\ StagesInv /\ SavedInv
  BY <1>1 DEF ScanInv
<1>3. Cdn!Ip(w) \in Ips
  BY <1>1, <1>2, RowSteps
<1>4. PoolInv' /\ StagesInv' /\ next' \in 1 .. Len(items) + 1 /\ busy' \in [Cdn!Workers -> 0 .. Len(items)]
  BY <1>1, <1>2, ProbeKeepsPool
<1>5. SavedInv'
  <2>1. SavesWhatIsFound(w, outcome)
    BY <1>1 DEF SavesWhatIsFound
  <2>2. plan # <<>> /\ busy[w] # 0 /\ Cdn!Row(w, outcome) /\ plan' = plan /\ stage' = stage
    BY <1>1
  <2> QED BY <1>2, <2>1, <2>2, ProbeKeepsSaved
<1>6. PlanInv' /\ ReportInv' /\ ips' \subseteq Cdn!Providers \X Ips
  <2>1. ips \subseteq ips' /\ ips' \subseteq ips \cup {<<Cdn!Provider, Cdn!Ip(w)>>} /\ faulty \subseteq faulty'
    BY <1>1
  <2> QED BY <1>1, <1>2, <1>3, <2>1, SavingKeepsOthers
<1>7. ScanTyped'
  BY <1>1, <1>2, <1>4, <1>6, ProbeTyped
<1>8. AppendsInv'
  BY <1>1, <1>2 DEF AppendsInv
<1> QED BY <1>4, <1>5, <1>6, <1>7, <1>8 DEF ScanInv

\* A probe whose line cannot be written leaves the row of a failed probe.
LEMMA SaveFailsKeepsScan ==
    ASSUME NEW w \in Cdn!Workers, NEW outcome
    PROVE  ScanInv /\ Cdn!SaveFails(w, outcome) => ScanInv'
<1> SUFFICES ASSUME ScanInv, Cdn!SaveFails(w, outcome) PROVE ScanInv'
  OBVIOUS
<1>1. /\ plan # <<>> /\ busy[w] # 0 /\ Cdn!Row(w, 0) /\ Cdn!TakeNext(w)
      /\ plan' = plan /\ stage' = stage /\ items' = items /\ reported' = reported /\ killed' = killed
      /\ faulty' = faulty \cup {<<Cdn!Provider, Cdn!Ip(w)>>}
      /\ jsonl' \in {jsonl, jsonl \cup {<<Cdn!Provider, Cdn!Ip(w)>>}}
      /\ ips' \in {ips, (ips \cup {<<Cdn!Provider, Cdn!Ip(w)>>}) \cap jsonl'}
  BY DEF Cdn!SaveFails
<1>2. ScanTyped /\ PlanInv /\ AppendsInv /\ ReportInv /\ PoolInv /\ StagesInv /\ SavedInv
  BY <1>1 DEF ScanInv
<1>3. Cdn!Ip(w) \in Ips
  BY <1>1, <1>2, RowSteps
<1>4. PoolInv' /\ StagesInv' /\ next' \in 1 .. Len(items) + 1 /\ busy' \in [Cdn!Workers -> 0 .. Len(items)]
  BY <1>1, <1>2, ProbeKeepsPool
<1>5. ips \subseteq ips' /\ ips' \subseteq ips \cup {<<Cdn!Provider, Cdn!Ip(w)>>} /\ faulty \subseteq faulty'
  BY <1>1, <1>2 DEF AppendsInv
<1>6. SavedInv'
  <2>1. ~Cdn!Saves(0, Cdn!Ip(w))
    BY FailedFindsNothing DEF Cdn!Saves
  <2>2. SavesWhatIsFound(w, 0)
    BY <1>1, <1>5, <2>1 DEF SavesWhatIsFound
  <2>3. plan # <<>> /\ busy[w] # 0 /\ Cdn!Row(w, 0) /\ plan' = plan /\ stage' = stage
    BY <1>1
  <2> QED BY <1>2, <2>2, <2>3, ProbeKeepsSaved
<1>7. PlanInv' /\ ReportInv' /\ ips' \subseteq Cdn!Providers \X Ips
  BY <1>1, <1>2, <1>3, <1>5, SavingKeepsOthers
<1>8. ScanTyped'
  BY <1>1, <1>2, <1>4, <1>7, ProbeTyped
<1>9. AppendsInv'
  BY <1>1, <1>2 DEF AppendsInv
<1> QED BY <1>4, <1>6, <1>7, <1>8, <1>9 DEF ScanInv

\* No rows.
LEMMA NoRowsYet ==
    ASSUME rowsOf' = Cdn!NoRows
    PROVE  /\ rowsOf' = [s \in Cdn!Stages |-> rowsOf'[s]]
           /\ \A s \in Cdn!Stages : DOMAIN rowsOf'[s] = {}
<1>1. \A s \in Cdn!Stages : rowsOf'[s] = <<>>
  BY DEF Cdn!NoRows
<1>2. DOMAIN <<>> = {}
  OBVIOUS
<1> QED BY <1>1, <1>2 DEF Cdn!NoRows

\* The empty list, which is what a killed scan has, is one of the lists.
LEMMA NoItems == <<>> \in Seq(Ips) /\ Distinct(<<>>) /\ "tcp" \in Cdn!Stages
BY DEF Distinct, Cdn!Stages

\* A kill leaves the files, and one address perhaps in the first only.
LEMMA KillKeepsScan == ScanInv /\ Cdn!Kill => ScanInv'
<1> SUFFICES ASSUME ScanInv, Cdn!Kill PROVE ScanInv'
  OBVIOUS
<1>1. /\ plan # <<>> /\ plan' = <<>> /\ killed' = TRUE /\ rowsOf' = Cdn!NoRows /\ Cdn!StartPool("tcp", <<>>)
      /\ ips' = ips /\ reported' = reported /\ faulty' = faulty
      /\ \E x : jsonl' \in {jsonl, jsonl \cup {x}}
  BY DEF Cdn!Kill
<1>2. ScanTyped /\ PlanInv /\ AppendsInv /\ ReportInv
  BY DEF ScanInv
<1>3. /\ stage' = "tcp" /\ items' = <<>> /\ next' \in 1 .. Len(<<>>) + 1
      /\ busy' \in [Cdn!Workers -> 0 .. Len(<<>>)]
  <2>1. (Cdn!Probed(stage) = {})'
    <3>1. stage' = "tcp"
      BY <1>1 DEF Cdn!StartPool
    <3> QED BY <1>1, <3>1, NoRowsYet, NoItems DEF Cdn!Probed
  <2> QED BY <1>1, <2>1, NoItems, PoolStarts
<1>4. ScanTyped'
  BY <1>1, <1>2, <1>3, NoRowsYet, NoItems DEF ScanTyped, Cdn!Probed
<1>5. PlanInv'
  <2>1. Len(<<>>) = 0 /\ 1 .. 0 = {} /\ 2 .. 0 = {}
    OBVIOUS
  <2> QED BY <1>1, <1>2, <2>1 DEF PlanInv, Distinct
<1>6. AppendsInv'
  BY <1>1, <1>2 DEF AppendsInv
<1>7. ReportInv'
  BY <1>1, <1>2 DEF ReportInv
<1> QED BY <1>1, <1>4, <1>5, <1>6, <1>7 DEF ScanInv

\* When the pool has ended, every address has its row.
LEMMA PoolIsDone ==
    ASSUME ScanTyped, PoolInv, Cdn!PoolEnds
    PROVE  /\ Cdn!Probed(stage) = Cdn!ToSet(items)
           /\ IsFiniteSet(Cdn!ToSet(items)) /\ Cdn!Cardinality(Cdn!ToSet(items)) = Len(items)
<1>1. items \in Seq(Ips) /\ Len(items) \in Nat /\ next \in 1 .. Len(items) + 1
  BY SequenceFacts DEF ScanTyped
<1>2. 1 \in Cdn!Workers
  <2>1. Concurrency \in Nat \ {0}
    BY ScansAssumption
  <2> QED BY <2>1 DEF Cdn!Workers
<1>3. \A w \in Cdn!Workers : busy[w] = 0
  BY DEF Cdn!PoolEnds
<1>4. next = Len(items) + 1
  BY <1>1, <1>2, <1>3 DEF PoolInv
<1>5. Cdn!ToSet(items) = {items[i] : i \in 1 .. Len(items)}
  BY <1>1, ItemElements
<1>6. \A i \in 1 .. Len(items) : items[i] \in Cdn!Probed(stage)
  <2> SUFFICES ASSUME NEW i \in 1 .. Len(items) PROVE items[i] \in Cdn!Probed(stage)
    OBVIOUS
  <2>1. i \in 1 .. next - 1 /\ i # 0
    BY <1>1, <1>4
  <2> QED BY <1>3, <2>1 DEF PoolInv
<1>7. \A ip \in Cdn!Probed(stage) : \E i \in 1 .. Len(items) : items[i] = ip
  <2>1. 1 .. next - 1 = 1 .. Len(items)
    BY <1>1, <1>4
  <2> QED BY <2>1 DEF PoolInv
<1>8. Cdn!Probed(stage) = Cdn!ToSet(items)
  BY <1>5, <1>6, <1>7
<1>9. IsFiniteSet(Cdn!ToSet(items)) /\ Cdn!Cardinality(Cdn!ToSet(items)) = Len(items)
  BY <1>1, ItemElements DEF PoolInv
<1> QED BY <1>8, <1>9

\* The next stage begins with what passed.
LEMMA NextItemsPassed ==
    ASSUME ScanTyped, plan # <<>>, PoolInv, StagesInv, Cdn!PoolEnds, ~Cdn!LastStage, NEW list \in Cdn!NextItems
    PROVE  /\ list \in Seq(Ips) /\ Distinct(list)
           /\ stage = "tcp" => Cdn!ToSet(list) = Passed
           /\ stage = "tls" =>
                /\ Cdn!Probed("tls") = Passed
                /\ Cdn!ToSet(list) \subseteq Proved
                /\ Proved \subseteq Cdn!ToSet(list) \/ Len(list) = Cdn!ApplicationLimitOf(Cdn!Provider)
           /\ stage = "http" => list = items
<1>1. Cdn!Probed(stage) = Cdn!ToSet(items) /\ IsFiniteSet(Cdn!ToSet(items))
  BY PoolIsDone
<1>2. Cdn!Probed("tcp") \subseteq Ips /\ Cdn!Probed("tls") \subseteq Ips /\ items \in Seq(Ips)
  BY DEF ScanTyped, Cdn!Stages
<1>3. CASE stage = "tcp"
  <2>1. list \in Cdn!SetToSeqs(Passed)
    BY <1>3 DEF Cdn!NextItems, Passed
  <2>2. Passed \in SUBSET Cdn!Probed("tcp") /\ IsFiniteSet(Cdn!Probed("tcp"))
    BY <1>1, <1>3 DEF Passed
  <2>3. IsFiniteSet(Passed)
    BY <2>2, FS_Subset
  <2>4. list \in Seq(Passed) /\ Distinct(list) /\ Cdn!ToSet(list) = Passed
    BY <2>1, <2>3, Enumerated
  <2>5. list \in Seq(Ips)
    BY <1>2, <2>2, <2>4
  <2> QED BY <1>3, <2>4, <2>5
<1>4. CASE stage = "tls"
  <2>1. PICK all \in Cdn!SetToSeqs(Proved) : list = Cdn!First(all, Cdn!ApplicationLimitOf(Cdn!Provider))
    BY <1>4 DEF Cdn!NextItems, Proved
  <2>2. Proved \in SUBSET Cdn!Probed("tls") /\ IsFiniteSet(Cdn!Probed("tls"))
    BY <1>1, <1>4 DEF Proved
  <2>3. IsFiniteSet(Proved)
    BY <2>2, FS_Subset
  <2>4. all \in Seq(Proved) /\ Distinct(all) /\ Cdn!ToSet(all) = Proved
    BY <2>3, Enumerated
  <2>5. Cdn!ApplicationLimitOf(Cdn!Provider) \in Nat
    BY ScansAssumption DEF Cdn!ApplicationLimitOf
  <2>6. /\ list \in Seq(Proved) /\ Distinct(list)
        /\ Cdn!ToSet(list) \subseteq Proved
        /\ Proved \subseteq Cdn!ToSet(list) \/ Len(list) = Cdn!ApplicationLimitOf(Cdn!Provider)
    BY <2>1, <2>4, <2>5, FirstElements
  <2>7. list \in Seq(Ips)
    BY <1>2, <2>2, <2>6
  <2>8. Cdn!Probed("tls") = Passed
    BY <1>1, <1>4 DEF StagesInv
  <2> QED BY <1>4, <2>6, <2>7, <2>8
<1>5. CASE stage = "http"
  <2>1. list = items
    BY <1>5 DEF Cdn!NextItems
  <2> QED BY <1>2, <1>5, <2>1 DEF PoolInv
<1>6. stage \in {"tcp", "tls", "http"}
  <2>1. Cdn!Provider \in Cdn!Providers
    BY ProviderIs
  <2>2. stage # "ws"
    BY <2>1, StageFacts DEF StagesInv
  <2> QED BY <2>2 DEF ScanTyped, Cdn!Stages
<1> QED BY <1>3, <1>4, <1>5, <1>6

\* The next stage begins when every address of the one before has its row.
LEMMA EndStageKeepsScan == ScanInv /\ Cdn!EndStage => ScanInv'
<1> SUFFICES ASSUME ScanInv, Cdn!EndStage PROVE ScanInv'
  OBVIOUS
<1>1. plan # <<>> /\ Cdn!PoolEnds /\ ~Cdn!LastStage
  BY DEF Cdn!EndStage, Cdn!PoolEnds
<1>2. ScanTyped /\ PlanInv /\ AppendsInv /\ ReportInv /\ PoolInv /\ StagesInv /\ SavedInv
  BY <1>1 DEF ScanInv
<1>3. PICK list \in Cdn!NextItems : Cdn!StartPool(Cdn!NextStage, list)
  BY DEF Cdn!EndStage
<1>4. /\ plan' = plan /\ rowsOf' = rowsOf /\ jsonl' = jsonl /\ ips' = ips /\ reported' = reported
      /\ faulty' = faulty /\ killed' = killed /\ stage' = Cdn!NextStage /\ items' = list
  BY <1>3 DEF Cdn!EndStage, Cdn!files, Cdn!StartPool
<1>5. /\ list \in Seq(Ips) /\ Distinct(list)
      /\ stage = "tcp" => Cdn!ToSet(list) = Passed
      /\ stage = "tls" =>
           /\ Cdn!Probed("tls") = Passed
           /\ Cdn!ToSet(list) \subseteq Proved
           /\ Proved \subseteq Cdn!ToSet(list) \/ Len(list) = Cdn!ApplicationLimitOf(Cdn!Provider)
      /\ stage = "http" => list = items
  BY <1>1, <1>2, NextItemsPassed
<1>6. PICK p \in Cdn!Providers : p = Cdn!Provider
  BY <1>1, <1>2, ProviderIs
<1>7. /\ stage # "ws" /\ stage \in Cdn!Stages /\ Cdn!NextStage \in Cdn!Stages
      /\ Cdn!NextStage \in Cdn!ToSet(Cdn!StagesOf(p))
      /\ stage = "tcp" => Cdn!NextStage = "tls"
      /\ stage = "tls" => Cdn!NextStage \in {"http", "ws"} /\ (Cdn!NextStage = "ws" => p # "bunny")
      /\ stage = "http" => Cdn!NextStage = "ws" /\ p = "bunny"
  BY <1>1, <1>2, <1>6, StageFacts DEF StagesInv, ScanTyped
<1>8. stage \in {"tcp", "tls", "http"}
  BY <1>7 DEF Cdn!Stages
<1>9. Cdn!Probed(Cdn!NextStage) = {}
  BY <1>2, <1>7, <1>8 DEF StagesInv
<1>10. /\ PoolInv' /\ next' \in 1 .. Len(list) + 1 /\ busy' \in [Cdn!Workers -> 0 .. Len(list)]
  <2>1. (Cdn!Probed(stage) = {})'
    BY <1>4, <1>9 DEF Cdn!Probed
  <2> QED BY <1>3, <1>5, <1>7, <2>1, PoolStarts
<1>11. ScanTyped'
  BY <1>2, <1>4, <1>5, <1>7, <1>10 DEF ScanTyped, Cdn!Probed
<1>12. Cdn!Provider' = Cdn!Provider /\ Passed' = Passed /\ Proved' = Proved /\ \A s : Cdn!Probed(s)' = Cdn!Probed(s)
  BY <1>4 DEF Cdn!Provider, Passed, Proved, Cdn!Probed
<1>13. StagesInv'
  <2>1. Cdn!StagesOf(Cdn!Provider)' = Cdn!StagesOf(p) /\ Cdn!ApplicationLimitOf(Cdn!Provider)' = Cdn!ApplicationLimitOf(p)
        /\ Cdn!ToSet(items)' = Cdn!ToSet(list)
    BY <1>4, <1>6, <1>12 DEF Cdn!StagesOf, Cdn!ApplicationLimitOf, Cdn!ToSet
  <2>2. Cdn!Probed(stage) = Cdn!ToSet(items)
    BY <1>1, <1>2, PoolIsDone
  <2>3. /\ \A s \in Cdn!Stages \ Cdn!ToSet(Cdn!StagesOf(p)) : Cdn!Probed(s) = {}
        /\ stage = "tcp" => Cdn!Probed("http") = {} /\ Cdn!Probed("ws") = {}
        /\ stage = "tls" => Cdn!Probed("http") = {} /\ Cdn!Probed("ws") = {}
        /\ stage = "http" =>
             /\ Cdn!Probed("tls") = Passed /\ Cdn!ToSet(items) \subseteq Proved
             /\ Proved \subseteq Cdn!ToSet(items) \/ Len(items) = Cdn!ApplicationLimitOf(p)
    BY <1>2, <1>6, <1>8 DEF StagesInv
  <2>4. CASE stage = "tcp"
    BY <1>4, <1>5, <1>6, <1>7, <1>12, <2>1, <2>3, <2>4 DEF StagesInv
  <2>5. CASE stage = "tls"
    BY <1>4, <1>5, <1>6, <1>7, <1>12, <2>1, <2>3, <2>5 DEF StagesInv
  <2>6. CASE stage = "http"
    BY <1>4, <1>5, <1>6, <1>7, <1>12, <2>1, <2>2, <2>3, <2>6 DEF StagesInv
  <2> QED BY <1>8, <2>4, <2>5, <2>6
<1>14. SavedInv'
  <2>1. \A q, s, ip, status : Cdn!Found(q, s, ip, status)' <=> Cdn!Found(q, s, ip, status)
    BY <1>4, FoundStays
  <2> QED BY <1>2, <1>4, <1>12, <2>1 DEF SavedInv
<1>15. PlanInv' /\ AppendsInv' /\ ReportInv'
  BY <1>2, <1>4 DEF PlanInv, AppendsInv, ReportInv, Distinct
<1> QED BY <1>10, <1>11, <1>13, <1>14, <1>15 DEF ScanInv

\* What is ranked ok at the end is what was saved.
LEMMA RankedAreSaved ==
    ASSUME ScanTyped, plan # <<>>, PoolInv, StagesInv, SavedInv, Cdn!PoolEnds, Cdn!LastStage,
           Cdn!Provider \notin {"bunny", "fastly"}
    PROVE  /\ \A ip \in Cdn!Probed("tcp") : Cdn!Ranked(Cdn!Provider, ip) => <<Cdn!Provider, ip>> \in ips
           /\ \A ip \in Ips : <<Cdn!Provider, ip>> \in ips \ faulty => ip \in Cdn!Probed("tcp") /\ Cdn!Ranked(Cdn!Provider, ip)
<1>1. PICK p : p = Cdn!Provider
  OBVIOUS
<1>2. p \in {"cloudflare", "tencent", "alibaba ws", "alibaba xhttp"}
  BY <1>1, ProviderIs DEF Cdn!Providers
<1>3. PICK app : app = IF p = "alibaba xhttp" THEN "http" ELSE "ws"
  OBVIOUS
<1>4. PICK other : other = IF p = "alibaba xhttp" THEN "ws" ELSE "http"
  OBVIOUS
<1>5. Cdn!StagesOf(p) = <<"tcp", "tls", app>> /\ app \in {"http", "ws"}
  BY <1>2, <1>3 DEF Cdn!StagesOf
<1>6. Cdn!ToSet(Cdn!StagesOf(p)) = {"tcp", "tls", app}
  <2>1. PICK list : list = <<"tcp", "tls", app>>
    OBVIOUS
  <2>2. DOMAIN list = {1, 2, 3} /\ list[1] = "tcp" /\ list[2] = "tls" /\ list[3] = app
    BY <2>1
  <2>3. Cdn!ToSet(list) = {"tcp", "tls", app}
    BY <2>2 DEF Cdn!ToSet
  <2> QED BY <1>5, <2>1, <2>3
<1>7. stage = app
  <2>1. stage \in {"tcp", "tls", app}
    BY <1>1, <1>6 DEF StagesInv
  <2>2. stage \notin {"tcp", "tls"}
    BY <1>1, <1>2, StageFacts DEF StagesInv, Cdn!Providers
  <2> QED BY <2>1, <2>2
<1>8. /\ Cdn!Probed(other) = {} /\ Cdn!Probed("tls") = Passed /\ Cdn!ToSet(items) \subseteq Proved
      /\ Cdn!Probed(app) = Cdn!ToSet(items)
  <2>1. other \in Cdn!Stages \ {"tcp", "tls", app}
    BY <1>3, <1>4 DEF Cdn!Stages
  <2>2. Cdn!Probed(other) = {}
    BY <1>1, <1>6, <2>1 DEF StagesInv
  <2>3. Cdn!Probed("tls") = Passed /\ Cdn!ToSet(items) \subseteq Proved
    BY <1>5, <1>7 DEF StagesInv
  <2>4. Cdn!Probed(app) = Cdn!ToSet(items)
    BY <1>7, PoolIsDone
  <2> QED BY <2>2, <2>3, <2>4
<1>9. Cdn!Probed("tcp") \subseteq Ips /\ Cdn!Probed(app) \subseteq Ips
  BY <1>5 DEF ScanTyped, Cdn!Stages
<1>10. \A ip : Cdn!TcpOk(ip) <=> ip \in Passed
  BY DEF Cdn!TcpOk, Passed
<1>11. \A ip : Cdn!Ranked(p, ip) <=> Cdn!TcpOk(ip) /\ Cdn!TlsIs({"good"}, ip) /\ Cdn!Good(p, app, ip)
  BY <1>2, <1>3 DEF Cdn!Ranked
<1>12. \A ip : Cdn!TlsIs({"good"}, ip) <=> ip \in Cdn!Probed("tls") /\ rowsOf["tls"][ip] = "good"
  BY DEF Cdn!TlsIs
<1>13. \A ip, status : Cdn!Found(p, app, ip, status) =>
            Cdn!GoodStatus(p, status) /\ (p \in {"alibaba ws", "alibaba xhttp"} => rowsOf["tls"][ip] = "good")
  <2> SUFFICES ASSUME NEW ip, NEW status, Cdn!Found(p, app, ip, status)
               PROVE  /\ Cdn!GoodStatus(p, status)
                      /\ p \in {"alibaba ws", "alibaba xhttp"} => rowsOf["tls"][ip] = "good"
    OBVIOUS
  <2>1. CASE p \in {"cloudflare", "tencent"}
    BY <2>1 DEF Cdn!Found, Cdn!GoodStatus
  <2>2. CASE p = "alibaba ws"
    BY <2>2 DEF Cdn!Found, Cdn!GoodStatus
  <2>3. CASE p = "alibaba xhttp"
    BY <2>3 DEF Cdn!Found, Cdn!GoodStatus
  <2> QED BY <1>2, <2>1, <2>2, <2>3
<1>14. \A ip, status : Cdn!GoodStatus(p, status) /\ rowsOf["tls"][ip] = "good" => Cdn!Found(p, app, ip, status)
  <2> SUFFICES ASSUME NEW ip, NEW status, Cdn!GoodStatus(p, status), rowsOf["tls"][ip] = "good"
               PROVE  Cdn!Found(p, app, ip, status)
    OBVIOUS
  <2>1. CASE p \in {"cloudflare", "tencent"}
    BY <2>1 DEF Cdn!Found, Cdn!GoodStatus
  <2>2. CASE p = "alibaba ws"
    BY <2>2 DEF Cdn!Found, Cdn!GoodStatus
  <2>3. CASE p = "alibaba xhttp"
    BY <2>3 DEF Cdn!Found, Cdn!GoodStatus
  <2> QED BY <1>2, <2>1, <2>2, <2>3
<1>15. \A ip \in Proved : p \notin {"alibaba ws", "alibaba xhttp"} => rowsOf["tls"][ip] = "good"
  BY <1>1, <1>2 DEF Proved, Cdn!TlsPasses
<1>16. ASSUME NEW ip \in Cdn!Probed("tcp"), Cdn!Ranked(p, ip)
       PROVE  ip \in Ips /\ <<p, ip>> \in ips
  <2>1. rowsOf["tls"][ip] = "good" /\ ip \in Cdn!Probed(app) /\ Cdn!GoodStatus(p, rowsOf[app][ip])
    BY <1>11, <1>12, <1>16 DEF Cdn!Good
  <2>2. Cdn!Found(p, app, ip, rowsOf[app][ip])
    BY <1>14, <2>1
  <2> QED BY <1>1, <1>5, <1>9, <2>1, <2>2 DEF SavedInv
<1>17. ASSUME NEW ip \in Ips, <<p, ip>> \in ips \ faulty
       PROVE  ip \in Cdn!Probed("tcp") /\ Cdn!Ranked(p, ip)
  <2>1. PICK s \in {"http", "ws"} : ip \in Cdn!Probed(s) /\ Cdn!Found(p, s, ip, rowsOf[s][ip])
    BY <1>1, <1>17 DEF SavedInv
  <2>2. s = app
    BY <1>3, <1>4, <1>8, <2>1
  <2>3. ip \in Proved
    BY <1>8, <2>1, <2>2
  <2>4. ip \in Cdn!Probed("tls") /\ ip \in Passed
    BY <1>8, <2>3 DEF Proved
  <2>5. ip \in Cdn!Probed("tcp")
    BY <2>4 DEF Passed
  <2>6. Cdn!GoodStatus(p, rowsOf[app][ip]) /\ rowsOf["tls"][ip] = "good"
    BY <1>13, <1>15, <2>1, <2>2, <2>3
  <2> QED BY <1>10, <1>11, <1>12, <2>1, <2>2, <2>4, <2>5, <2>6 DEF Cdn!Good
<1> QED BY <1>1, <1>16, <1>17

\* The scan of the next provider starts, or all is reported.
LEMMA EndScanKeepsScan == ScanInv /\ Cdn!EndScan => ScanInv'
<1> SUFFICES ASSUME ScanInv, Cdn!EndScan PROVE ScanInv'
  OBVIOUS
<1>1. plan # <<>> /\ Cdn!PoolEnds /\ Cdn!LastStage
  BY DEF Cdn!EndScan, Cdn!PoolEnds
<1>2. ScanTyped /\ PlanInv /\ AppendsInv /\ ReportInv /\ PoolInv /\ StagesInv /\ SavedInv
  BY <1>1 DEF ScanInv
<1>3. PICK p \in Cdn!Providers : p = Cdn!Provider
  BY <1>1, <1>2, ProviderIs
<1>4. PICK entry : entry = [provider |-> p, ok |-> {ip \in Cdn!Probed("tcp") : Cdn!Ranked(p, ip)}]
  OBVIOUS
<1>5. /\ plan' = Tail(plan) /\ rowsOf' = Cdn!NoRows /\ jsonl' = jsonl /\ ips' = ips
      /\ reported' = Append(reported, entry) /\ faulty' = faulty /\ killed' = killed
  BY <1>3, <1>4 DEF Cdn!EndScan, Cdn!files
<1>6. PICK listing \in Listings : Cdn!StartPool("tcp", IF Len(plan) = 1 THEN <<>> ELSE Cdn!Candidates(listing))
  BY DEF Cdn!EndScan
<1>7. PICK list : list = IF Len(plan) = 1 THEN <<>> ELSE Cdn!Candidates(listing)
  OBVIOUS
<1>8. list \in Seq(Ips) /\ Distinct(list) /\ Cdn!StartPool("tcp", list)
  BY <1>6, <1>7, CandidatesDiffer, NoItems
<1>9. rowsOf' = [s \in Cdn!Stages |-> rowsOf'[s]] /\ \A s \in Cdn!Stages : Cdn!Probed(s)' = {}
  BY <1>5, NoRowsYet DEF Cdn!Probed
<1>10. /\ PoolInv' /\ stage' = "tcp" /\ items' = list /\ next' \in 1 .. Len(list) + 1
       /\ busy' \in [Cdn!Workers -> 0 .. Len(list)]
  <2>1. stage' = "tcp"
    BY <1>8 DEF Cdn!StartPool
  <2>2. (Cdn!Probed(stage) = {})'
    BY <1>9, <2>1, NoItems DEF Cdn!Probed
  <2> QED BY <1>8, <2>2, NoItems, PoolStarts
<1>11. /\ p = plan[1] /\ Len(plan) \in Nat /\ Len(plan) > 0
       /\ plan' \in Seq(Cdn!Providers) /\ Len(plan') = Len(plan) - 1
       /\ \A i \in 1 .. Len(plan) - 1 : plan'[i] = plan[i + 1]
  BY <1>1, <1>2, <1>3, <1>5, ProviderIs
<1>12. ScanTyped'
  BY <1>2, <1>5, <1>8, <1>9, <1>10, <1>11, NoItems DEF ScanTyped, Cdn!Probed
<1>13. \A i \in 1 .. Len(plan') : plan'[i] # p /\ \A ip \in Ips : <<plan'[i], ip>> \notin ips
  <2> SUFFICES ASSUME NEW i \in 1 .. Len(plan')
               PROVE  plan'[i] # p /\ \A ip \in Ips : <<plan'[i], ip>> \notin ips
    OBVIOUS
  <2>1. plan'[i] = plan[i + 1] /\ i + 1 \in 1 .. Len(plan) /\ i + 1 \in 2 .. Len(plan) /\ 1 \in 1 .. Len(plan) /\ i + 1 # 1
    BY <1>11
  <2>2. plan[i + 1] # plan[1]
    BY <1>2, <2>1 DEF PlanInv, Distinct
  <2> QED BY <1>2, <1>11, <2>1, <2>2 DEF PlanInv
<1>14. \A n \in DOMAIN reported' : (n \in DOMAIN reported /\ reported'[n] = reported[n]) \/ reported'[n] = entry
  BY <1>2, <1>5 DEF PlanInv
<1>15. PlanInv'
  <2>0. reported' \in Seq([provider : Cdn!Providers, ok : SUBSET Ips])
    <3>1. Cdn!Probed("tcp") \subseteq Ips
      BY <1>2, NoItems DEF ScanTyped
    <3>2. entry \in [provider : Cdn!Providers, ok : SUBSET Ips]
      BY <1>4, <3>1
    <3> QED BY <1>2, <1>5, <3>2 DEF PlanInv
  <2>1. Distinct(plan)'
    <3> SUFFICES ASSUME NEW i \in 1 .. Len(plan'), NEW j \in 1 .. Len(plan'), plan'[i] = plan'[j] PROVE i = j
      BY DEF Distinct
    <3>1. i + 1 \in 1 .. Len(plan) /\ j + 1 \in 1 .. Len(plan) /\ plan[i + 1] = plan[j + 1]
      BY <1>11
    <3>2. i + 1 = j + 1
      BY <1>2, <3>1 DEF PlanInv, Distinct
    <3> QED BY <3>2
  <2>2. \A i \in 2 .. Len(plan') : \A ip \in Ips : <<plan'[i], ip>> \notin ips'
    <3>1. 2 .. Len(plan') \subseteq 1 .. Len(plan')
      BY <1>11
    <3> QED BY <1>5, <1>13, <3>1
  <2>3. \A n \in DOMAIN reported' : \A i \in 1 .. Len(plan') : reported'[n].provider # plan'[i]
    <3> SUFFICES ASSUME NEW n \in DOMAIN reported', NEW i \in 1 .. Len(plan') PROVE reported'[n].provider # plan'[i]
      OBVIOUS
    <3>1. CASE reported'[n] = entry
      BY <1>4, <1>13, <3>1
    <3>2. CASE n \in DOMAIN reported /\ reported'[n] = reported[n]
      <4>1. plan'[i] = plan[i + 1] /\ i + 1 \in 1 .. Len(plan)
        BY <1>11
      <4> QED BY <1>2, <3>2, <4>1 DEF PlanInv
    <3> QED BY <1>14, <3>1, <3>2
  <2> QED BY <2>0, <2>1, <2>2, <2>3 DEF PlanInv
<1>16. ReportInv'
  <2> SUFFICES ASSUME NEW n \in DOMAIN reported', reported'[n].provider \notin {"bunny", "fastly"}
               PROVE  /\ \A ip \in reported'[n].ok : <<reported'[n].provider, ip>> \in ips
                      /\ \A ip \in Ips : <<reported'[n].provider, ip>> \in ips \ faulty => ip \in reported'[n].ok
    BY <1>5 DEF ReportInv
  <2>1. CASE reported'[n] = entry
    BY <1>1, <1>2, <1>3, <1>4, <2>1, RankedAreSaved
  <2>2. CASE n \in DOMAIN reported /\ reported'[n] = reported[n]
    BY <1>2, <2>2 DEF ReportInv
  <2> QED BY <1>14, <2>1, <2>2
<1>17. AppendsInv'
  BY <1>1, <1>2, <1>5 DEF AppendsInv
<1>18. ASSUME plan' # <<>> PROVE StagesInv' /\ SavedInv'
  <2>1. PICK q \in Cdn!Providers : q = Cdn!Provider' /\ q = plan'[1] /\ 1 \in 1 .. Len(plan')
    <3>1. Head(plan') = plan'[1] /\ Head(plan') \in Cdn!Providers /\ Len(plan') > 0 /\ Len(plan') \in Nat
      BY <1>11, <1>18
    <3> QED BY <3>1 DEF Cdn!Provider
  <2>2. StagesInv'
    <3>1. "tcp" \in Cdn!ToSet(Cdn!StagesOf(q)) /\ Cdn!StagesOf(q) = Cdn!StagesOf(Cdn!Provider)'
      BY <2>1, FirstStage DEF Cdn!StagesOf
    <3>2. Cdn!ToSet(Cdn!StagesOf(q)) = Cdn!ToSet(Cdn!StagesOf(Cdn!Provider))'
      BY <3>1 DEF Cdn!ToSet
    <3>3. "tls" \in Cdn!Stages /\ "http" \in Cdn!Stages /\ "ws" \in Cdn!Stages
      BY DEF Cdn!Stages
    <3> QED BY <1>9, <1>10, <3>1, <3>2, <3>3 DEF StagesInv
  <2>3. SavedInv'
    <3>1. \A ip \in Ips : <<q, ip>> \notin ips'
      BY <1>5, <1>13, <2>1
    <3>2. Cdn!Probed("http")' = {} /\ Cdn!Probed("ws")' = {}
      BY <1>9 DEF Cdn!Stages
    <3> QED BY <2>1, <3>1, <3>2 DEF SavedInv
  <2> QED BY <2>2, <2>3
<1> QED BY <1>10, <1>12, <1>15, <1>16, <1>17, <1>18 DEF ScanInv

\* A scan begins with nothing found.
LEMMA InitScan == Cdn!Init => ScanInv
<1> SUFFICES ASSUME Cdn!Init PROVE ScanInv
  OBVIOUS
<1>1. PICK listing \in Listings :
        /\ items = Cdn!Candidates(listing)
        /\ next = IF Len(items) < Concurrency THEN Len(items) + 1 ELSE Concurrency + 1
        /\ busy = [w \in Cdn!Workers |-> IF w <= Len(items) THEN w ELSE 0]
  BY DEF Cdn!Init
<1>2. /\ plan \in Plans /\ stage = "tcp" /\ rowsOf = Cdn!NoRows /\ jsonl = {} /\ ips = {} /\ reported = <<>> /\ killed = FALSE
  BY DEF Cdn!Init
<1>3. items \in Seq(Ips) /\ Distinct(items) /\ Len(items) \in Nat
  BY <1>1, CandidatesDiffer, SequenceFacts
<1>4. Concurrency \in Nat /\ Cdn!Workers = 1 .. Concurrency
  BY ScansAssumption DEF Cdn!Workers
<1>5. next \in 1 .. Len(items) + 1 /\ busy \in [Cdn!Workers -> 0 .. Len(items)]
  BY <1>1, <1>3, <1>4
<1>6. rowsOf = [s \in Cdn!Stages |-> rowsOf[s]] /\ \A s \in Cdn!Stages : Cdn!Probed(s) = {}
  <2>1. \A s \in Cdn!Stages : rowsOf[s] = <<>>
    BY <1>2 DEF Cdn!NoRows
  <2>2. DOMAIN <<>> = {}
    OBVIOUS
  <2> QED BY <1>2, <2>1, <2>2 DEF Cdn!NoRows, Cdn!Probed
<1>7. plan \in Seq(Cdn!Providers) /\ Distinct(plan)
  BY <1>2, ScansAssumption DEF Cdn!Providers, Distinct
<1>8. DOMAIN reported = {}
  BY <1>2
<1>9. ScanTyped /\ PlanInv /\ AppendsInv /\ ReportInv
  BY <1>2, <1>3, <1>5, <1>6, <1>7, <1>8, NoItems DEF ScanTyped, PlanInv, AppendsInv, ReportInv
<1>10. PoolInv
  <2>1. /\ \A w \in Cdn!Workers : busy[w] # 0 => busy[w] < next /\ busy[w] = w
        /\ \A w \in Cdn!Workers : busy[w] = 0 => next > Len(items)
    BY <1>1, <1>3, <1>4
  <2>2. \A i \in 1 .. next - 1 : \E w \in Cdn!Workers : busy[w] = i
    <3> SUFFICES ASSUME NEW i \in 1 .. next - 1 PROVE i \in Cdn!Workers /\ busy[i] = i
      OBVIOUS
    <3>1. i \in 1 .. Concurrency /\ i <= Len(items)
      BY <1>1, <1>3, <1>4
    <3> QED BY <1>1, <1>4, <3>1
  <2>3. Cdn!Probed(stage) = {}
    BY <1>2, <1>6, NoItems
  <2> QED BY <1>3, <2>1, <2>2, <2>3 DEF PoolInv, Cdn!Ip
<1>11. ASSUME plan # <<>> PROVE StagesInv /\ SavedInv
  <2>1. Cdn!Provider \in Cdn!Providers
    BY <1>9, <1>11, ProviderIs
  <2>2. Cdn!Probed("tls") = {} /\ Cdn!Probed("http") = {} /\ Cdn!Probed("ws") = {}
    BY <1>6 DEF Cdn!Stages
  <2> QED BY <1>2, <1>6, <2>1, <2>2, FirstStage DEF StagesInv, SavedInv
<1> QED BY <1>9, <1>10, <1>11 DEF ScanInv

\* Every step of a scan keeps what is known of it.
LEMMA ScanSteps == ScanInv /\ [Cdn!Next]_(Cdn!vars) => ScanInv'
<1> SUFFICES ASSUME ScanInv, [Cdn!Next]_(Cdn!vars) PROVE ScanInv'
  OBVIOUS
<1>1. CASE \E w \in Cdn!Workers : Cdn!Work(w)
  BY <1>1, FinishKeepsScan DEF Cdn!Work
<1>2. CASE \E w \in Cdn!Workers, outcome \in Statuses : Cdn!SaveFails(w, outcome)
  BY <1>2, SaveFailsKeepsScan
<1>3. CASE Cdn!EndStage \/ Cdn!EndScan \/ Cdn!Kill
  BY <1>3, EndStageKeepsScan, EndScanKeepsScan, KillKeepsScan
<1>4. CASE UNCHANGED Cdn!vars
  <2>1. UNCHANGED <<plan, stage, items, next, busy, rowsOf, jsonl, ips, reported, faulty, killed>>
    BY <1>4 DEF Cdn!vars, Cdn!files
  <2>2. /\ Cdn!Provider' = Cdn!Provider /\ Passed' = Passed /\ Proved' = Proved /\ \A s : Cdn!Probed(s)' = Cdn!Probed(s)
        /\ \A w : Cdn!Ip(w)' = Cdn!Ip(w)
    BY <2>1 DEF Cdn!Provider, Passed, Proved, Cdn!Probed, Cdn!Ip
  <2>3. ScanTyped' /\ PlanInv' /\ AppendsInv' /\ ReportInv'
    BY <2>1, <2>2 DEF ScanInv, ScanTyped, PlanInv, AppendsInv, ReportInv, Distinct
  <2>4. ASSUME plan # <<>> PROVE PoolInv'
    BY <2>1, <2>2, <2>4 DEF ScanInv, PoolInv, Distinct
  <2>5. ASSUME plan # <<>> PROVE StagesInv'
    BY <2>1, <2>2, <2>5 DEF ScanInv, StagesInv, Cdn!ToSet, Cdn!StagesOf, Cdn!ApplicationLimitOf
  <2>6. ASSUME plan # <<>> PROVE SavedInv'
    <3>1. \A p, s, ip, status : Cdn!Found(p, s, ip, status)' <=> Cdn!Found(p, s, ip, status)
      BY <2>1, FoundStays
    <3> QED BY <2>1, <2>2, <2>6, <3>1 DEF ScanInv, SavedInv
  <2> QED BY <2>1, <2>3, <2>4, <2>5, <2>6 DEF ScanInv
<1> QED BY <1>1, <1>2, <1>3, <1>4 DEF Cdn!Next

\* So it holds of every state that a scan reaches.
LEMMA ScanInvHolds == Cdn!Spec => []ScanInv
BY InitScan, ScanSteps, PTL DEF Cdn!Spec

\* The files have what was found.
LEMMA FilesHaveFound == ScanInv => Cdn!FoundIsSaved
<1> SUFFICES ASSUME ScanInv PROVE Cdn!FoundIsSaved
  OBVIOUS
<1>1. PICK lacking : lacking = (jsonl \ ips) \ faulty
  OBVIOUS
<1>2. Cdn!Cardinality(lacking) = Cardinality(lacking)
  BY DEF Cdn!Cardinality, Cardinality
<1>3. Cdn!Cardinality(lacking) <= IF killed THEN 1 ELSE 0
  <2>1. CASE killed
    <3>1. PICK x : lacking \subseteq {x}
      BY <1>1, <2>1 DEF ScanInv, AppendsInv
    <3>2. IsFiniteSet({x}) /\ Cardinality({x}) = 1
      BY FS_Singleton
    <3>3. lacking \in SUBSET {x}
      BY <3>1
    <3>4. Cardinality(lacking) <= 1
      BY <3>2, <3>3, FS_Subset
    <3> QED BY <1>2, <2>1, <3>4
  <2>2. CASE ~killed
    <3>1. lacking = {}
      BY <1>1, <2>2 DEF ScanInv, AppendsInv
    <3>2. Cardinality(lacking) = 0
      BY <3>1, FS_EmptySet
    <3> QED BY <1>2, <2>2, <3>2
  <2> QED BY <2>1, <2>2
<1>4. ips \subseteq jsonl
  BY DEF ScanInv, AppendsInv
<1>5. plan # <<>> => SavedInv
  BY DEF ScanInv
<1> QED BY <1>1, <1>3, <1>4, <1>5 DEF Cdn!FoundIsSaved, SavedInv

\* What passed a stage is in the next.
LEMMA NothingSkipped == ScanInv => Cdn!NoneIsSkipped
<1> SUFFICES ASSUME ScanInv, NEW n \in 1 .. 2, plan # <<>>, n + 1 < Cdn!StageNo,
                    NEW ip \in Cdn!Probed(Cdn!StagesOf(Cdn!Provider)[n])
             PROVE  \/ ip \in Cdn!Probed(Cdn!StagesOf(Cdn!Provider)[n + 1])
                    \/ n = 1 /\ ~rowsOf["tcp"][ip]
                    \/ n = 2 /\ ~Cdn!TlsPasses(Cdn!Provider, rowsOf["tls"][ip])
                    \/ n = 2 /\ Cdn!Cardinality(Cdn!Probed(Cdn!StagesOf(Cdn!Provider)[3])) = Cdn!ApplicationLimitOf(Cdn!Provider)
  BY DEF Cdn!NoneIsSkipped
<1>1. ScanTyped /\ PoolInv /\ StagesInv /\ Cdn!Provider \in Cdn!Providers
  BY ProviderIs DEF ScanInv
<1>2. /\ Cdn!StageNo > 2 => stage \in {"http", "ws"}
      /\ Cdn!StageNo > 3 => stage = "ws" /\ Cdn!Provider = "bunny"
      /\ Cdn!StageNo \in 1 .. 4
      /\ Cdn!Provider = "bunny" => Cdn!StagesOf(Cdn!Provider)[3] = "http"
      /\ Cdn!StagesOf(Cdn!Provider)[1] = "tcp" /\ Cdn!StagesOf(Cdn!Provider)[2] = "tls"
  BY <1>1, StageFacts DEF StagesInv
<1>3. CASE n = 1
  <2>1. Cdn!Probed("tls") = Passed
    BY <1>1, <1>2, <1>3 DEF StagesInv
  <2>2. n + 1 = 2 /\ ip \in Cdn!Probed("tcp")
    BY <1>2, <1>3
  <2>3. ip \in Passed \/ ~rowsOf["tcp"][ip]
    BY <2>2 DEF Passed
  <2> QED BY <1>2, <1>3, <2>1, <2>2, <2>3
<1>4. CASE n = 2
  <2>1. /\ stage = "ws" /\ Cdn!Provider = "bunny" /\ n + 1 = 3 /\ ip \in Cdn!Probed("tls")
        /\ Cdn!StagesOf(Cdn!Provider)[3] = "http"
    BY <1>2, <1>4
  <2>2. /\ Cdn!Probed("http") = Cdn!ToSet(items)
        /\ Proved \subseteq Cdn!ToSet(items) \/ Len(items) = Cdn!ApplicationLimitOf(Cdn!Provider)
    BY <1>1, <2>1 DEF StagesInv
  <2>3. Cdn!Cardinality(Cdn!ToSet(items)) = Len(items)
    BY <1>1, ItemElements DEF ScanTyped, PoolInv
  <2>4. ip \in Proved \/ ~Cdn!TlsPasses(Cdn!Provider, rowsOf["tls"][ip])
    BY <2>1 DEF Proved
  <2> QED BY <1>4, <2>1, <2>2, <2>3, <2>4
<1> QED BY <1>3, <1>4

\* What the run checks of the report and of the stages is part of it.
LEMMA ReportedIsFound == ScanInv => Cdn!RankedIsFound
BY NothingSkipped DEF ScanInv, ReportInv, Cdn!RankedIsFound

(***************************************************************************)
(* The scans of CDN addresses lose nothing, whatever the listing, the plan, *)
(* the limits, the number of workers and the point of a kill: what a probe *)
(* found is in the live files unless its append failed or was cut short by *)
(* the kill; no address falls between two stages; the report ranks what the *)
(* files hold; and the filter lists no address twice, lists none without its *)
(* details and a host that passed (but for the ones a kill cut short), and *)
(* says ok only when every candidate was tried.                            *)
(***************************************************************************)
THEOREM ScansAreComplete == Cdn!Spec /\ Esa!Spec => []ScansLoseNothing
<1>1. ScanInv /\ ListInv => ScansLoseNothing
  BY FilesHaveFound, ReportedIsFound, ListIsKept DEF ScansLoseNothing
<1> QED BY <1>1, ScanInvHolds, ListInvHolds, PTL

=============================================================================
